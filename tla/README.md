# Pandion in TLA+

Pandion is a command-line tool that creates short-lived clusters at cloud
providers, hardens and meshes them, runs a workload, and tears them down. There
is no daemon: every command is a process of its own on the operator's machine,
and commands meet only through the files in `~/.pandion`, the provider, and the
nodes. What must not go wrong is money and access: a server nobody knows of
keeps billing, a teardown on the wrong cluster destroys work, a grant that
cannot be taken back lets a guest in, a ruleset in the wrong order locks the
operator out.

This directory models the parts of Pandion that decide about these, checks them
with TLC and proves the central properties with TLAPS. Paths below are relative
to the repository.

## 1. Inventory

### Components

| Component | State it keeps | Operations | Correct when |
|---|---|---|---|
| Orchestrator, `internal/orchestrator` | in-memory cluster record, semaphore, errgroup | `UpSpec`, `UpCluster`, `createWithRetry`, `Down`, `Reap`, `ReapPlan`, cost functions | bounded concurrency; nothing is created that the journal does not show; nothing is left after a teardown that succeeds |
| Journal, `internal/state` | `state/<id>.json` | `Save` (temporary file, rename), `Load`, `Close` | exists as long as the cluster has anything at the provider |
| Lock, `internal/flock` | `state/<id>.lock` | `TryLock`, `Unlock`; released by the kernel at process end | one mutating command per cluster |
| Manifest, `cmd/pandion/cluster.go` | `keys/<id>/manifest.json`, `destroyed_at` | `writeManifest`, `loadManifest`, `tombstoneManifest` | names the provider; tombstoned only when the cluster is gone |
| `up`, `up -f`, `cmd/pandion/main.go`, `cluster.go` | flags, ^C handler, streaming flag | lock, preflight, provision, roll back, mesh, firewall, launch, stream | never provisions an id twice; a failed provision leaves nothing; the operator keeps a way in |
| `down`, `reap`, journal gc, `cmd/pandion/main.go` | plan, gc snapshot | lock(s), `Down`, tombstone, share records, gc | converges; removes local state only for clusters that are gone |
| Drivers, `internal/provider/*` | none locally; tagged servers, volumes, keys, firewalls at the provider | `CreateServer`, `DestroyServer`, `ListByTag`, `ListAllTagged`, `ReapAux`, `EnsureClusterFirewall` | the tag finds everything; destroy is idempotent; a server boots with the key of its life |
| Selection and pricing, `internal/provider/*/select*.go`, `orchestrator` | none | candidates, region order, `EstimateHourly`, `CheckBudget`, `ReapPlan` | the cheapest machine that fits, where it was asked for, within the cap |
| Streaming and exit codes, `cluster.go`, `start.go`, `internal/stream` | run log and exit marker on the node | `launchRun`, `tailLog`, `attach`, `start` | `up` exits with its workload's code |
| `lockdown`, firewall, overlay | nftables ruleset and WireGuard peers per node | verify all, then apply each | no lock-out; a public scan sees one port |
| `debug share`, `relay share`, `unshare` | key lines, PID files, peers, session files on nodes; local records | grant, record, use, revoke, expire | every grant can be taken back, or ends by itself |
| Web relay, `internal/relay`, `cmd/pandion-relay` | spool, sessions, TLS files | look up, dial, bridge, sweep | serves; lets nobody in after revocation |
| On-node watchdogs, `internal/harden` | heartbeat, egress set | idle power-off, egress refresh | an idle node stops billing, a busy one is spared |
| `doctor`, config, discovery text, ssh, keys, audit, CLI plumbing | none shared | text and I/O | not state machines |

### How they interact

`up`, `down` and `reap` take the per-cluster lock, call the orchestrator, and
the orchestrator calls one driver and the journal. `up -f` starts one goroutine
per node under a semaphore and an errgroup; a second goroutine waits for ^C and
runs a `Down` of its own while the first ones go on. `reap` takes all the locks
of its plan, calls `Down` per cluster, tombstones the manifests, and collects
journals without a cluster behind a listing it took before it locks. `down`
reads the manifest before it has the lock. After provisioning, `up -f` talks to
the nodes over SSH, one phase after the other and one node after the other.
`lockdown` and `start` take the lock too; `relay up`, `debug share`, `relay
share` and their `unshare` do not, so they run beside everything else. On the
node the dead-man's switch, the egress timer and the relay run by themselves.

### What is hard here

* Goroutines fail while others are creating, waiting for a permit, or backing
  off before a relaunch; the rollback must not run beside a create.
* ^C, SIGKILL or a lost laptop at any point between a journal write and the
  request it announces, between the destroy, the verification, the removal of
  keys and the removal of the record, or between a grant and its record.
* Commands overlap on one id: check-then-create, several locks at once, and
  listings, manifests and records that are stale by the time they are used.
* Steps that fail half way: a destroy that timed out after it worked, a driver
  that takes an error for "not found", a script that stopped in the middle, a
  ruleset that reached one node and not the next.
* State that a reboot forgets (peers, rulesets, heartbeat) under programs that
  believe it is there.

`PROJECT.json` lists these as hazards, each at its line, with the property that
would catch it or the reason none does.

## 2. Modules

| Module | Models | Kind |
|---|---|---|
| `Orchestrator` | one `up -f` process: `UpCluster`, the retries, the caller, the ^C handler; and `Down` for its three callers | specification |
| `IntentLog` | what the journal promises: resources come into being only under a record, and the record goes last | abstract specification |
| `OrchestratorProofs` | inductive invariant, safety, refinement of `IntentLog` | proofs |
| `Lifecycle` | `up`, `up -f`, `down`, `reap` and gc as processes over lock, journal, manifest and providers | specification |
| `LifecycleProofs` | existence guard, ownership, local state in step with the provider | proofs |
| `Drivers` | the six drivers' calls on servers, volumes, keys and edge firewalls over several lives of a cluster | specification |
| `DriversProofs` | what a teardown leaves, servers per node, login keys | proofs |
| `Placement` | type and region selection, price, budget, reap's ages | specification of algorithms |
| `PlacementProofs` | the search, the budget, reap's ages | proofs |
| `Posture` | mesh and firewall of the nodes through `up -f`, `lockdown`, `relay up`, `start`, reboots | specification |
| `PostureProofs` | no lock-out, dark nodes, ARP inspection | proofs |
| `Grants` | `debug share`, `relay share`, the guests, revocation and expiry | specification |
| `GrantsProofs` | accounting, addresses, no way back in | proofs |
| `Runtime` | one node: workload, log, clients, dead-man's switch, egress timer, relay service | specification |
| `RuntimeProofs` | exit codes, the dead-man's window | proofs |
| `MC...` | one per specification: symmetry and the instance for TLC | models |

The modules meet at outcomes. `Orchestrator` sees a driver through the outcomes
of its calls, and `Drivers` says for each driver how they come about; `Drivers`
asks for a machine, and `Placement` says which. `Lifecycle` has one element per
`up` that created servers. `Posture` begins where `Orchestrator` reaches the
stage after the barrier. `Grants` has `lockdown` and `down` as single steps, and
`Runtime` has lockdown as `Flush`; `Posture` and `Lifecycle` have their steps.

Definitions that a comment marks as `mutant` are variants of the definition
below them, each with a plausible bug. They are never part of a specification;
they show that the properties can tell the code from such a bug.

### Orchestrator

* `pc[n]` is the position of node *n*'s goroutine in `UpCluster`, `attempt[n]`
  the loop counter of `createWithRetry`, `phase[n]` the node's phase in memory.
  `free` is the semaphore, `cancelled` and `groupErr` the errgroup's context and
  error. `JournalIntent` and `JournalOutcome` are the two `save()` calls around
  the create. The deferred `sem.Release` is a step before the errgroup hears of
  the error, because a waiter can start in that gap.
* `cloud` is the set of the cluster's servers, each named by node and attempt,
  so that an instance that died and lingers is told from its successor. `aux`
  stands for keys, firewalls and volumes. The outcomes of a driver call are
  nondeterministic: a request is rejected, accepted, the boot succeeds, times
  out (the server stays), or the instance dies (a transient error, after a
  destroy that may or may not work).
* `dpc`, `todo`, `tries` and `firstErr` are the local variables of `Down`, once
  for each caller: the rollback, the ^C handler, the operator. An action for
  every step and early return: list, load, mark, destroy with retries, verify,
  `ReapAux`, `Close`.
* `stage` is the main goroutine of `upClusterHetzner`. Mesh formation, firewall
  rules and workspace sync are one stage that goes on to streaming or leaves the
  cluster up (`Degrade`, exit code 7).
* `ProcessEnds` clears what is in memory. A request has taken effect, or never
  will, by the time its caller has an answer or is dead.

### IntentLog

`record` and `residue`. `Open`, `Acquire` (only under a record), `Dispose`,
`Close` (only without residue). The mapping is `record <- journal # NoRecord`,
`residue <- Residue`. It holds without ^C and without failing journal writes:
both break it in the code, the first by design of the handler (`OrchAbort`), the
second because `UpCluster` deliberately warns and goes on.

### Lifecycle

* A command `c` is a process: `pc[c]`, its local variables `loc[c]`. A command
  that ended makes room for the next, so runs are unbounded in length.
* `lock`, `journal`, `manifest`, `dead` are the files per id; `cloud` has one
  element per `up` that created servers, which is what the existence guard is
  about. `DestroySome` removes any subset; `Orchestrator` has the detail.
* `UpJournal`, `UpCreate` and `UpRecord` are the two saves around a create;
  `up -f` goes round for every node. `Save` may fail for a command in `Fallible`,
  and then `up -f` goes on with a warning, while a single-node `up` gives up
  (`UpFails`).
* The rollback of a failed provision (`UpRollsBack`) starts when all creates have
  returned. The ^C handler does not wait: `Interrupt` starts it, and
  `AbortDestroy`, `AbortVerify`, `AbortClose`, `AbortFails` and `AbortExit` are
  its steps, kept in `loc[c].abort` beside the `pc[c]` of the goroutine that
  creates, saves, rolls back and sets up meanwhile. A further create may take
  effect between any two of them.
* `stray` has the servers of an `up -f` that were created without a journal that
  could be saved, or while its ^C handler was at work; they leave it when they are
  destroyed, or when their `up` saves with no handler running.
* `LockError` and the second branch of `PreflightPasses` are the places where
  the code proceeds although a guard could not be evaluated. `unguarded`
  remembers who did, and the properties speak about the others. Both histories are
  forgotten when a command starts with nothing else running and nothing left at
  the provider (`Quiet`), so that a failure long ago excepts nothing.
* `StartUp` keeps the id that is locked and checked (`plan`) apart from the id
  that is provisioned (`id`), since `upCluster` renames the latter.
* `StartDown` resolves the provider before it locks, as `runDown` does.
* `StartReap` picks any subset of the live clusters: the age filter is left to
  the choice. `GcList`, `GcReadDir`, `GcVisit`, `GcLock`, `GcClose`,
  `GcTombstone` are the steps of `gcOrphanJournals`.
* As in `Orchestrator`, a create whose process has ended has taken effect or
  never will.

### Drivers

* `srv` has every server ever launched, in the order of launching: its state,
  node, the life of the cluster it belongs to and the login key it was launched
  with. `vol` are Scaleway's block volumes, `keys` the login keys registered
  under the cluster's name (each named by the life that generated it), `fw` the
  edge firewall.
* A call that fails may have had its effect: `Unanswered`, the second
  alternative of `DestroyServer`, `registerKey` and `ReapAux`. `Fault` counts
  such calls up to `MaxFault`. Refusals and deadlines are not faults.
* A launch that took effect and came back with an error does not always end
  `CreateServer`. `isAvailabilityErr`: five drivers go on with the next type or
  region when the error's text says "unavailable", as a gateway's 503 does.
  `Relaunched`: Lambda's `do()` repeats the request after a 5xx. Either way the
  server nobody waits for is in `doubled`.
* `upPreflight` lets a life begin when nothing is listed, or when the listing
  failed; `blind` has the lives that began the second way.
* `ensureLoginKey` is one step per driver and node. Hetzner, Vultr and
  DigitalOcean hold `keyMu`; Lambda lists in one step and registers in another.
* `bootDied` is `createWithRetry` on a transient error, which only Lambda
  returns.
* `Down` is there again, because its retries meet what a first attempt left.
  `slipped` marks volumes whose teardown failed, `dirty` a life that began with an
  earlier key. With `doubled` and `blind` they say exactly which case a property
  excepts.

### Placement

Types and regions are numbers. The catalog is an initial choice restricted to
what each provider's API can say (`serverTypes`, `plans`, ...). The code builds
sorted lists of candidates and of regions and walks through their product; the
model keeps the set of pairs that are left (`plan`) and says which one is next:

* `selectCandidates`, `selectPlans`, ..., `orderRegions`, `regionsOf` and
  `searchPlan` say which types, regions and pairs a driver considers;
* `FirstType` is the first type in the sort order of the driver (`Rank`, then the
  name), `FirstRegion` the first region in the order of `--region` (`place`) and
  then of the listing, which at Vultr and DigitalOcean is that of the candidates
  (`Carrier`), `FirstPair` the nested loop of `searchPlan`.

`Accepted`, `Unavailable`, `ZoneFails` and `SearchFails` are the branches of the
search loops. `tried` has the pairs that were asked for and refused; the zones
Scaleway could not list are in `skipped`, and their pairs in neither. Hetzner's other search mode (`CheapestType`) is never selected by
the program and is left out. An `up` is priced by `EstimateHourly` before and
apart from its search, as in the code. `ReapPlan` consumes a listing server by
server; `Unknown` is Go's zero time.

### Posture

`rules[n]` is a node's ruleset as one value, because `nft -f` with `flush
ruleset` replaces it as one; `peers[n]` the WireGuard peers. `pc` and `i` are
the phase of `up -f` and the node it is at. The phases that end the command on a
failure (`buildWindow`, `formMesh`, `injectFDB`, `launch`) and the ones that
only print it (`applyFirewall`, `applyDAI`, `injectDiscovery`) are told apart as
in the code. `writeOperatorConfig` saves the WireGuard key the operator needs for
the overlay, phases after the firewall that narrows SSH; until then an `up` that
ends takes the key with it (`saved`). `here` is the address the operator's
connections come from, `scope` the one `up` found. `lk` is a `lockdown` between
its nodes. `relay up` dials for each of its calls (`dialRelay`) and hangs up after
it; a connection outlives the ruleset it was let in by, since every ruleset
accepts established ones, so a call that has dialled can still run its command
(`openRelayPort`) on a node that lockdown has closed. `overtaken` remembers that
this is how things stood when lockdown closed the first node. `Reboot` forgets
what is kernel state.

### Grants

`key`, `pidFile`, `route` and `spool` are what a share leaves on the target and
the relay node; `rec` the local records. The scripts stop after any of their
steps. `route` maps an address to one peer, as WireGuard does. `handleWS` and
`bridge` are two steps, since the node is dialled after the session was looked
up. `writeSpool` may leave a session file that is cut short (`torn`): the relay
takes it for absent, and so does its sweep. `Reboot` of the target forgets the
peers, which are set with `wg set` and written nowhere; of either node, the
ruleset and the mesh between them. A share that is over everywhere makes room for
a new id (`Forget`), so runs are unbounded in length. `loose`, `cut`, `swept`,
`raced` and `lost` are history: they name the cases the code knows it gives up on,
and the peers a reboot took.

### Runtime

`log` is what of the run log matters: which launch wrote it, whether its last
line is unfinished, whether a line is longer than the scanner's buffer, and the
exit marker. `Truncate` is a step after `launchRun`, because the shell that
opens the log starts after the client has its answer. `hb` and `unseen` are ages
in minutes, capped one above the window. A run of the dead-man's switch is three
steps, as its script is: `deadman` looks for connections, `deadmanAge` at the GPUs
and the heartbeat, `poweroff` acts; `late` has the uses that began after the look
that would have seen them. `NoFile` is a heartbeat lost with `/run`. `Rotate`
changes the addresses behind a name whether or not the refresh timer could be
installed, and `Network` makes lookups fail and work again: `egressRefresh` changes
nothing meanwhile. `cert = "half"` is a relay that died between its two files.

## 3. Runs

| Run | Question | Bounds | States |
|---|---|---|---|
| `OrchFaults` | safety under every fault at once | 2 nodes, 1 permit, 2 attempts, ^C, failing writes | 943 thousand |
| `OrchLive` | is `IntentLog` implemented, does every provision end, does repeated `down` leave nothing | 2 nodes, 1 permit, 2 destroy attempts | 12 thousand |
| `OrchAbort` | does ^C leave no billing node? *no* | 2 nodes | |
| `LifeUpDown` | overlapping `up`, `up -f`, `down` on one id | 3 commands at a time, one with failing guards and saves, ^C | 999 thousand |
| `LifeReap` | `reap` with several locks against `up -f` and `reap` | 2 commands, 2 ids, ^C | 2.3 million |
| `LifeUpFile` | does the guard cover `up -f` without `--id`? *no* | 2 commands, 2 ids | |
| `Drivers` | what a teardown leaves, how many servers a node has, which key they boot with | 6 drivers, 2 nodes, 2 lives, 4 servers, 2 faults | 6.0 million |
| `DriversVolumes` | does nothing bill after a Scaleway teardown? *no* | the same, Scaleway | |
| `Placement` | selection, region order, budget, ages | 6 drivers, 2 types, 2 regions, 2 prices, 2 nodes, up to 2 regions asked for, 3 servers in a fleet | 5.1 million |
| `Posture` | lock-out, dark nodes, ARP inspection | 2 nodes, 2 places, L2 off and safe | 3.9 million |
| `Grants` | can every grant be taken back, does it end by itself | 2 shares at a time, one of them a relay share or both debug shares, 2 addresses | 1.4 million |
| `Runtime` | exit codes, dead-man's switch, egress, relay | 2 launches, 2 exit codes, a window of 1 minute, egress names or the relay | 1.2 million |

Why these bounds are enough. One permit and two nodes already have a holder and
a waiter. Two attempts separate a first from a last one. Three commands on one
id are an owner, a second command whose check is stale, and one that changes
what it saw; two ids are what a cyclic wait over locks needs. In `Drivers` two
lives are what a stale key needs, four servers allow each of two nodes a dead and
a live one, two faults are a failed first attempt and a failed or crashed second
one. In `Placement` two types and two regions give the four pairs on which the
search orders of the drivers differ; two regions in `--region` can be a
reordering, a repetition, and one the provider does not have. In `Posture` the second node is the one a
lockdown fails on after it has changed the first. In `Grants` two shares compete
for the higher of two addresses; `Forget` lets a third follow. `RelayIds` keeps
relay shares to one at a time: two of them share no address and no file. In
`Runtime` two launches separate the log of the workload one waits for from the log
of another, a window of one minute has an age below, at and above it, and `Both`
keeps egress names and the relay, which share nothing but reboots, to different
nodes. In `LifeUpDown` one command (`Fallible`) may meet a lock file, a listing or
a journal that fails: the exceptions are about one such command, and the others
are what it can do harm to.
All counters of the code are loop bounds, so the constants are the only bounds;
the theorems have none. Nodes are interchangeable, and so are the commands that
cannot fail and the operator's addresses: the safety runs `OrchFaults`,
`LifeUpDown`, `LifeReap`, `Drivers` and `Posture` use that symmetry. Deadlock is
checked except in `Grants` (nothing has to happen once all is revoked or the
cluster is gone) and `Placement` (an algorithm ends).

### Fairness

* `Orchestrator`. `UpFairness`: the Go scheduler runs every goroutine that can
  run, and every driver call returns (they carry the deadline of `up` or a client
  timeout). `DownFairness`: an operator with something left runs `pandion down`
  again, and a provider that is asked again and again eventually answers and
  destroys what it is told to; that is what "idempotent and converges" assumes.
  No fairness on ^C, crashes, the deadline or an end of the workload.
* `Grants`. A context whose deadline has passed is cancelled by the runtime, and
  the sweep's ticker fires (`cmd/pandion-relay/main.go`) in a relay that runs,
  which it does again and again: the unit is enabled and restarted on failure. (A
  relay whose TLS files were cut in half never starts again, as `Runtime` shows,
  and then sweeps nothing; it serves nobody either.) Nothing is assumed about
  operators and guests.
* `Runtime`. The minute timers of systemd fire on a running node, `Restart=`
  brings the relay back, a log that is tailed is read, tmux runs its shell.
  Nothing is assumed about workloads, networks and operators: `egressRefresh` is
  fair only in what it does while lookups work.

### What the passing runs show

* `BoundedConcurrency`, `UpTerminates`: permits are neither exceeded nor lost
  through failures, retries and cancellation. `Barrier`: after `UpCluster`
  returns without an error, every node is RUNNING and its server exists.
* `WriteAhead`: a crash never leaves a server of a node the journal does not
  show as started. `CloseLast`, `IntentLogSpec`: the record goes last.
* `RollbackComplete`: a rollback that succeeds leaves nothing; no goroutine
  creates behind it. `Converges`: repeated teardown ends with nothing.
* `OneUp`, `OwnersOnly`: lock and preflight together protect a cluster.
  `Journaled`, `CloseWhenEmpty`, `TombstoneWhenEmpty`: `up`, `up -f` and `down`
  keep local state and provider in step, at one provider, but for the servers an
  `up -f` creates without a journal it could save or under the teardown of its own
  ^C; a ^C may close the journal on such servers and on no others. `NeverStuck`: no
  command waits for another.
* `DownLeavesNothing`: for each driver, a `Down` that succeeds left no billing
  server, key of the cluster or edge firewall, whatever the answers to its calls
  said; `LeftoverExplained`: a volume is detached for good only by a failed
  teardown of its own server. `OneServerPerNode`: no retry, rollback or later life
  doubles a node, but for launches asked for again after an error, and lives that
  began without a listing. `LoginKeyCurrent`: servers boot with
  the key of their life, but where an earlier teardown failed on its key.
* `TriesEverything`, `StaysInRegion`: the searches are complete, up to exactly the
  zones Scaleway could not list, and stay where they were told to. `WithinCap`: says when the budget check is exact. `PicksTheOld`:
  reap's ages do not depend on the order of the listing.
* `NeverLockedOut`: a node that closes SSH has the operator as a peer, with a key
  that is on disk, however up, lockdown and reboots interleave; one that narrows it
  has so too, or is in one of two windows (a reboot before the firewall, an `up`
  that ended before it wrote the key) and admits the operator's address only.
  `DarkAfterLockdown`: also when `relay up` runs beside it, but for its call that
  had already dialled. `InspectionStays`: no later step of `up` flushes ARP
  inspection.
* `Accounted`: no overlap of share, unshare, lockdown and down leaves a grant
  without a record, beyond the named cases. `OwnAddress`: an address is routed to
  its share, or after a reboot to nobody, and a later share does not take it over.
  `NoWayBack`, `ExpiresByItself`: revoked or expired, a grant lets nobody in, and a
  relay grant leaves by itself, unless its file was cut short.
* `ExitIsTheWorkloads`: `up` exits with the code of the workload it launched.
  `SparesNodesInUse`, `IdleNodeStops`: the dead-man's window, from both sides.
  `Recovers`: the egress set, where the timer is installed and the names resolve,
  and the relay service come back by themselves.

### Disagreements with the repository's own words

Three have a run whose counterexample shows them; `PROJECT.json` quotes the
lines.

1. `OrchAbort`: the ^C handler cancels nothing; a create in flight lands after
   its teardown has verified that nothing is left.
2. `LifeUpFile`: `up -f` without `--id` locks and checks `demo` and provisions
   the topology's name.
3. `DriversVolumes`: a Scaleway teardown that is retried after its server was
   deleted reports success with the block volumes left.

The others were met while modelling. They are states of the modules, or excepted
by a property that holds otherwise.

* *Teardown and local state.* A ^C closes the journal on servers that its own
  `up -f` creates meanwhile (`cluster.go:667`; `OrchAbort` inside one process,
  `stray` in `Lifecycle`). `cluster.go:794` drops the rollback's error and
  exits with 5, "nothing left" (`exitcodes.go:21`). `main.go:916` tombstones
  clusters whose teardown failed (`cluster.go:530`: "on a successful
  down/reap"). `main.go:1813` lets gc decide on a listing older than its lock.
  `main.go:1614` asks the default provider when no live manifest names one, so
  `down` may close the journal of a cluster that runs elsewhere; an `up` onto a
  torn-down id that stops before its manifest is such a cluster.
* *Drivers.* `lambda.go:510-520` retries a launch on a 5xx although the instance
  may exist; the other drivers go on to the next type or region on an error that
  says "unavailable" (`hetzner.go:192`), also when the server was made. A login key found by name can be an earlier life's if its reap
  failed. `scaleway.go:564` takes any error for "not in this zone", which
  `Down`'s verification catches for the server. `lambda/firewall.go:35` replaces
  the account's rules without a lock. Sanitised ids can share a tag.
* *Selection and price.* "honored strictly" (`main.go:220`) is not what Scaleway
  and Lambda do with `--region`. The estimate (`provider.go:146-147`) differs
  from the purchase for Vultr and DigitalOcean without a region, for
  DigitalOcean's GPU sizes (`digitalocean.go:327`), and whenever the first pair
  is not available. A zero creation time is infinitely old for `reap`
  (`orchestrator.go:252`) and new for `ls` (`:300-302`).
* *Firewall.* The operator's WireGuard key is written after the firewall
  (`cluster.go:1045`): an `up` that ends in between leaves nodes that admit one
  address and a key that is gone. A `relay up` that dialled before `lockdown` can
  open its port after it (`nftables.go:112`). A node whose ruleset could not be loaded is reported and left open
  (`cluster.go:992-994`); single-node `up` exits with 7 there
  (`main.go:705-709`). Exit code 6 is "nothing changed" (`exitcodes.go:24`) also
  when `lockdown` failed on a later node (`lockdown.go:103`). `lockdown` on a
  `safe` overlay drops ARP inspection and the L2 rule with the old ruleset.
  `lockdown --audit` and a reboot reopen what was closed. Hetzner's edge
  firewall (`hetzner.go:516-524`) does not let the relay's port in.
* *Grants.* `CHANGELOG.md:274` says that unshare and down revoke;
  `debugshare.go:370-380` removes the record also when the node did not answer,
  and the debug grant then stays until its expiry-time. Two `debug share` at once
  can be given the same address. A reboot takes a share's peer and leaves its record
  (`debugshare.go:442`). A session file cut short is never swept (`relay.go:137`).
* *Runtime.* The marker is not seen behind an unfinished or very long line
  (`cluster.go:1162-1163`); `start` and `attach` drop the code
  (`exitcodes.go:10-14`); a lost connection exits with 0. After a reboot the
  heartbeat is gone and the dead-man never fires. A connection shorter than its
  period is not seen, so a `start --detach` onto an aged heartbeat may be powered
  off, and so may a session that begins between the check and the power-off
  (`cloudinit.go:389-396`). The egress timer does nothing when no name resolved at
  first, and is missing when its installation failed. A relay that
  dies between certificate and key never starts again.

## 4. Proofs

Every theorem is about the specification a run checks and holds for all values
of its constants that the module's `ASSUME` admits. The `ASSUME`s ask for what
the code has: a finite set of nodes, positive retry limits and concurrency, a
default provider and a default id, markers that are not commands, providers,
shares or places. Each proof has the same form. An inductive invariant holds
initially, every action keeps it, and the property follows from it. Where a
theorem restricts the constants further, its `ASSUME` says so and the reason is
given here.

| Module | Inductive invariant | Properties proved |
|---|---|---|
| `OrchestratorProofs` | `IndInv` | `TypeOK`, `BoundedConcurrency`, `Barrier`, `WriteAhead`, `RollbackComplete`, `CloseLast`, `IntentLogSpec` |
| `LifecycleProofs` | `LifeInv`, `InStep`, `AllSteady` | `TypeOK`, `OneUp`, `OwnersOnly`, `Journaled`, `CloseWhenEmpty`, `TombstoneWhenEmpty` |
| `DriversProofs` | `DriversInv` | `TypeOK`, `DownLeavesNothing`, `LeftoverExplained`, `OneServerPerNode`, `LoginKeyCurrent` |
| `PlacementProofs` | `PlacementInv` | `TypeOK`, `TriesEverything`, `WithinCap`, `StaysInRegion`, `PicksTheOld` |
| `PostureProofs` | `PostureInv` | `TypeOK`, `NeverLockedOut`, `DarkAfterLockdown`, `InspectionStays` |
| `GrantsProofs` | `GrantsInv` | `TypeOK`, `Accounted`, `OwnAddress`, `NoWayBack` |
| `RuntimeProofs` | `RuntimeInv` | `TypeOK`, `ExitIsTheWorkloads`, `SparesNodesInUse` |

**OrchestratorProofs.** `IndInv` holds with ^C and failing writes or without.
The properties are not inductive by themselves:

* `Slots` (free permits plus holders equal `MaxConc`) is needed for the bound
  and for the type of `free`; its proof counts holders with the finite-set
  theorems.
* `StageInv` and `PhaseInv` tie a goroutine's position to its phase and to the
  main goroutine: a rollback starts only when all have returned.
* `ServerInv` and `JournalInv` say that neither the provider nor a goroutine is
  ahead of the journal; `WriteAhead` needs both, since a later `save` writes the
  phases of all nodes.
* `UpInv` keeps the server of a node that came up; `DownInv` says which
  teardowns can be under way and what is gone at each of their steps.

`ImplementsIntentLog` proves the refinement, under `Interrupts = FALSE` and
`SaveFailures = FALSE`, step by step: a step that changes the journal leaves the
provider alone (`JournalStepsAlone`), only `DownClose` removes the record
(`OnlyCloseRemoves`), and only with nothing left (`CloseFindsNothing`).

**LifecycleProofs.** `LifeTypesHold` has no assumption beyond the constants'.
`ProvisionsOnce` and `TouchedByOwnersOnly` assume `NamedByFile = FALSE`;
`LifeUpFile` shows that they fail otherwise. `LifeInv` adds to `OneUp`: the
cluster a command works on is in its plan (`PlanOf`), a guarded command past its
locks holds those of its plan and gc holds the one of the journal it clears
(`LocksOf`), a ^C handler runs only beside an `up -f` that is past its locks
(`AbortOf`), so that its steps are those of a holder, and what the preflight saw is still so when the servers are created
(`ClearFor`). The last is the heart: another command that could create under
this id would have to hold the same lock.

`NothingUnrecorded`, `ClosesWhenEmpty` and `MarksWhenEmpty` are about `up`,
`up -f` and `down` at one provider (`"reap"` not in `Kinds`, `Provider` a
singleton), with guards that may fail. The restriction is that of the code: gc
decides on a listing older than its lock (`main.go:1813`), and `down` may be
sent to another provider than the journal names (`main.go:1614`). `InStep` adds
`Steady`: an `up` about to create has its journal, unless it could not save it or
its ^C is at work; a teardown past its verification has nothing left; and a ^C
handler past its verification has at most servers that are stray and its own
`up`'s. `Steady` of one command survives the steps of the others because they touch
only what they have locked (`TouchesOwn`), and its own handler's steps because what
is created beside the handler is stray from the first (`AbortStep`, `StrayKept`).
The two gaps are named by the theorems, not hidden: `Journaled` excepts `stray`, and
`CloseWhenEmpty` excepts those of the very command whose handler closes.

`VerifiedUntilClosed` says what is left without that restriction, for `reap` and
any number of providers: when a teardown closes a journal or `down` marks a
manifest, the provider it was sent to still has nothing under the id; when a ^C
handler closes it, what is there its own `up -f` created beside it. What fails
with `reap` and several providers is therefore confined to gc, to reap's marking
of all planned manifests, and to a `down` sent to another provider.

**DriversProofs.** For any of the six drivers, any nodes, number of lives,
servers, faults and retries. Besides the properties, `DriversInv` has:

* `CloudInv`: what only one driver has. Without it a volume of Hetzner, or a
  terminating server of Vultr, would have to be explained.
* `WaitInv`: a create that waits knows its server; the deletion of volumes knows
  which server it follows.
* `KeyInv`, `KeyedInv`: a life that began with a clean name has at most its own
  key and launches with it. `LoginKeyCurrent` looks at launched servers only;
  the key is chosen two steps earlier.
* `LifeInv`: servers of an earlier life are at work during a life only if that
  began blind.
* `CreateInv`: a node between its attempts has no working server of its life but
  doubled ones. This is why a relaunch cannot double it: `bootDied` comes only
  after the instance's end.
* `EmptyInv`: after the verification nothing works, and after the reaper key and
  firewall are gone. It carries what `Verify` saw to the end of `Down`.

The lemmas `ServerStep`, `KeyStep` and `LaunchStep` say once what any step can do
to a server, to the registered keys and to a create, and the parts follow from
these instead of action by action.

**PlacementProofs.** For any catalog, request, list of preferred regions, cap,
window, number of nodes, listing and bound on ages; of the catalogs no more is
used than their types. What comes first is settled by lemmas: a non-empty set of
numbers has a minimum (`MinFacts`, from well-foundedness), so the first type, region
and pair are members of the sets they are taken from (`FirstTypeIn`,
`FirstRegionIn`, `FirstPairIn`), and `PlanOf` says what each driver's plan is in
the terms of the properties. `PlacementInv` has:

* `PlanInv`: what is left and what was refused make up the plan but for the zones
  that were skipped, and nothing in those was asked for, for each node anew.
  `TriesEverything` follows, with its exception in both directions, when nothing
  is left.
* `PlacedInv`: a node has a pair of the plan, and the first pair if none was
  refused to it. `StaysInRegion` needs the one half, `WithinCap` the other.
* `BudgetInv`: what was held against the cap is the driver's estimate.
  `EstimateIsPrice` shows driver by driver that this is the price of the first
  pair, when that is in the region asked for first: estimate and search are
  computed apart, from different sets of candidates.
* `ReapInv`: what `ReapPlan` has left is the end of the listing, and a cluster's
  record is the maximum over the part it has been through: a bound (`Bounds`)
  that is attained (`Has`). Attained is what the converse needs: reap picks no
  young cluster. `ls` computes a maximum of its own, which is the same number
  (`StatusAge`). `CountInv` bounds the servers counted, for the types.

`BestAvailable` is the promise of the search order: when a request is accepted,
all that was preferable (a preferred region, or in the same region a smaller or
cheaper type) has been asked for and refused to this node, or is in a zone that
could not be listed.

**PostureProofs.** For any number of nodes, any set of places and any overlay
profiles. `NeverLockedOut` needs to know, when a ruleset is loaded on a node,
that the operator is a peer there. `MeshInv` carries this through the phases
from the mesh to the firewall: nodes below the loop's index have the operator,
or have rebooted. `QuietInv` says that no ruleset is loaded before that. That the
operator has the key is known once the phase that writes it is over, and `lockdown`
checks it by going over the overlay.
`DarkAfterLockdown` needs `ProgressInv` (the nodes `lockdown` has been to are
closed, or rebooted and empty), `LockdownInv` (it runs after `up`) and `RelayInv`:
on a dark node nobody can dial, so the call that may still open the port is the one
lockdown overtook. A reboot undoes the ruleset and what the exception is about.
`NodeStep` says all that a step can do to a node.

**GrantsProofs.** For any set of share ids and any range of addresses.
`Accounted` alone is not inductive, because a record may be dropped while the
grant is on the node:

* `StageInv`: what a command at a given step has put on nodes and in records.
* `RevokeInv`: a revocation has taken off what it has passed, or the share is
  `loose`. This is what permits dropping the record.
* `NodesInv`: destroyed nodes hold nothing; what was cut off stays off.
* `RaceInv` and `HeldInv`: two debug shares in the making raced, and one that did
  not race has an address of its own from the step that sets its peer until a
  revocation or a reboot takes the peer off; allocation goes by the records, so an
  address without its peer is still not given away.

`Highest` proves from well-foundedness that a non-empty set of addresses has a
maximum, so that `allocGuestIP` is what it says.

**RuntimeProofs.** For any exit codes, number of launches and window. `LogInv`
ties the log to the session: a running workload writes its own log, which has no
marker yet, and the marker of the first launch has its code. `OwnerInv` ties `up`
to that launch. `AgeInv` says that the heartbeat is never older than the last use
the switch saw, which is one half of `SparesNodesInUse`. `LookInv` is the other: a
run of the switch that has gone past a look has seen every use there is, but for
those that began since.

**Only model-checked.**

* Liveness: `UpTerminates`, `Converges`, `ExpiresByItself`, `IdleNodeStops`,
  `Recovers`. And `NeverStuck`, which uses `ENABLED`. Both are beyond the prover.
  Every other property of a passing run is a theorem.
* The three disagreements, which are counterexamples.

## 5. Not modelled, and why

* The temporary file of `Save` under two writers: the second writer is the ^C
  handler, whose saves are atomic here. Its race with provisioning is `OrchAbort`
  and, across commands, `Lifecycle`.
* Ids as text: tags that collide after sanitising. Ids are their own tags.
* Lambda's request throttle, and two clusters at Lambda sharing the account's
  firewall rules.
* The aggregation of exit codes over nodes (a maximum) and the prefixing of
  output lines.
* `doctor`, `debug`, `ssh`, `sync`, `build`: they read state, or build a command
  line and run it. Configuration and its validation: pure functions over parsed
  text.
* Generated text (cloud-init, nftables, WireGuard, discovery), SSH, key
  generation, audit, secrets, prompts, completion and help: I/O without state
  that these properties depend on. What a ruleset or a script does is modelled;
  its wording is not.
* Time is a nondeterministic deadline, an age, or a minute's tick.

## 6. Plan

1. *(done)* `Orchestrator`, `IntentLog`, `Lifecycle`: runs and proofs.
2. *(done)* `Drivers`, `Placement`, `Posture`, `Grants`, `Runtime`: runs.
3. *(done)* Proofs of the safety properties of these five; `Journaled`,
   `CloseWhenEmpty` and `TombstoneWhenEmpty` of `Lifecycle`, and what holds of
   teardowns with `reap` and several providers.
4. Open: the hazards without a property (`PROJECT.json`, section 5), of which
   the writers of one temporary file and Lambda's account-wide rules would need
   modules of their own.
