------------------------------ MODULE Runtime ------------------------------
(***************************************************************************)
(* What runs on a node once it is up: the workload in its tmux session and *)
(* the run log its output and exit marker go to, the clients that tail     *)
(* that log (`up`, `start`, `attach`), the dead-man's switch, the egress   *)
(* re-resolution timer and the relay service; with reboots and power-offs  *)
(* in between.                                                             *)
(*                                                                         *)
(* One node.  The streams of a cluster's nodes share nothing but the exit  *)
(* code aggregator, which keeps the highest code.  A minute is the unit of *)
(* time: both timers have that period or a multiple of it.                 *)
(***************************************************************************)
EXTENDS Integers, FiniteSets

CONSTANTS
    Codes,     \* exit codes of workloads, 0 among them
    MaxRuns,   \* bound: launches
    TTL,       \* the idle window, in minutes
    Both       \* bound: may a node with egress names also host the relay?

ASSUME RuntimeAssumption ==
    Codes \subseteq Nat /\ 0 \in Codes /\ MaxRuns \in Nat /\ TTL \in Nat /\ Both \in BOOLEAN

Client == {"owner", "watcher"}   \* up or start, under the lock; attach
NoFile == -1                     \* no heartbeat file

VARIABLES
    power,     \* the node is on
    gpu,       \* a GPU node: utilisation counts as use
    proc,      \* the tmux session
    run,       \* launches so far
    log,       \* the run log
    cli,       \* the clients
    hb,        \* minutes since the heartbeat was touched
    dm,        \* where the present run of the dead-man stands
    names,     \* some allowed egress entry is a host name
    set,       \* the nftables set of allowed egress addresses
    timer,     \* the re-resolution timer is installed
    dns,       \* the names resolve, and what they resolve to can be added
    svc, cert, \* the relay service and its TLS files
    \* history
    code,      \* exit code of the last workload that exited
    unseen,    \* minutes since a run of the dead-man saw the node in use
    late       \* uses of the node that began after its present run had looked

workVars == <<proc, run, log, code>>
idleVars == <<hb, dm, unseen>>
egressVars == <<names, set, timer, dns>>
relayVars == <<svc, cert>>
vars == <<power, gpu, workVars, cli, idleVars, late, egressVars, relayVars>>

NoLog == [of |-> 0, open |-> FALSE, long |-> FALSE, marker |-> "no", code |-> 0]

TypeOK ==
    /\ power \in BOOLEAN /\ gpu \in BOOLEAN /\ timer \in BOOLEAN
    /\ proc \in {"none", "starting", "running", "hot", "gone"}
    /\ run \in 0..MaxRuns
    /\ log \in [of : 0..MaxRuns, open : BOOLEAN, long : BOOLEAN,
                marker : {"no", "plain", "hidden"}, code : Codes]
    /\ cli \in [Client -> [at : {"idle", "launched", "tail", "exited", "detached", "broken"},
                           cmd : {"none", "up", "start", "attach"},
                           of : 0..MaxRuns, status : Codes]]
    /\ hb \in NoFile..(TTL + 1) /\ unseen \in 0..(TTL + 1)
    /\ dm \in {"no", "gpu", "due"} /\ late \subseteq Client \cup {"gpu"}
    /\ names \in BOOLEAN /\ dns \in BOOLEAN
    /\ set \in {"none", "stale", "fresh"}
    /\ svc \in {"none", "enabled", "serving"} /\ cert \in {"none", "half", "both"}
    /\ code \in Codes

\* The set of allowed addresses exists when some entry resolved as the ruleset
\* was made; the timer is there when some entry is a name, unless it could not be
\* installed, which is a warning.
resolveEgressAllow == {"none", "fresh"}
installEgressRefresh == IF names THEN BOOLEAN ELSE {FALSE}

\* As `up` leaves the node before it launches the workload; the heartbeat was
\* touched at boot.
Init ==
    /\ power = TRUE /\ gpu \in BOOLEAN
    /\ proc = "none" /\ run = 0 /\ log = NoLog /\ code = 0
    /\ cli = [c \in Client |-> [at |-> "idle", cmd |-> "none", of |-> 0, status |-> 0]]
    /\ hb = 0 /\ unseen = 0 /\ dm = "no" /\ late = {}
    /\ names \in BOOLEAN /\ dns = TRUE
    /\ set \in resolveEgressAllow /\ timer \in installEgressRefresh
    /\ svc = "none" /\ cert = "none"

-----------------------------------------------------------------------------
(***************************************************************************)
(* The workload                                                            *)
(***************************************************************************)
\* launchRun: the old session is killed, a new one created; its shell has not
\* run yet.  The first launch is up's, the later ones are start's.  A launch
\* that fails ends the command; nothing else has changed.
launchRun ==
    /\ power /\ run < MaxRuns /\ cli["owner"].at # "tail" /\ cli["owner"].at # "launched"
    /\ run' = run + 1
    /\ proc' = "starting"
    /\ cli' = [cli EXCEPT !["owner"] =
                 [at |-> "launched", cmd |-> IF run = 0 THEN "up" ELSE "start",
                  of |-> run + 1, status |-> 0]]
    /\ UNCHANGED <<power, gpu, log, code, idleVars, late, egressVars, relayVars>>

WorkFrame == UNCHANGED <<power, gpu, run, cli, idleVars, egressVars, relayVars>>

\* The shell opens `> run.log` and starts the command.
Truncate ==
    /\ proc = "starting" /\ power
    /\ proc' = "running"
    /\ log' = [NoLog EXCEPT !.of = run]
    /\ WorkFrame /\ UNCHANGED <<code, late>>

\* The uses that the dead-man's present run, if there is one, has not looked for.
After(use) == IF dm = "no" THEN late ELSE late \cup {use}

\* Output: full lines, a line longer than the reader's buffer, or a last line
\* without its newline.  A GPU workload may keep the GPU busy.
Output ==
    /\ proc \in {"running", "hot"}
    /\ \E open, long \in BOOLEAN : log' = [log EXCEPT !.open = open, !.long = @ \/ long]
    /\ proc' \in IF gpu THEN {"running", "hot"} ELSE {"running"}
    /\ late' = IF proc' = "hot" /\ proc # "hot" THEN After("gpu") ELSE late
    /\ WorkFrame /\ UNCHANGED code

\* `echo "marker $?" >> run.log` continues an unfinished line.
WorkloadExit ==
    /\ proc \in {"running", "hot"}
    /\ proc' = "gone"
    /\ \E c \in Codes :
         /\ code' = c
         /\ log' = [log EXCEPT !.marker = IF log.open THEN "hidden" ELSE "plain",
                               !.code = c]
    /\ WorkFrame /\ UNCHANGED late

-----------------------------------------------------------------------------
(***************************************************************************)
(* The clients                                                             *)
(***************************************************************************)
CliFrame == UNCHANGED <<power, gpu, workVars, idleVars, egressVars, relayVars>>

\* tail -n +1 -F over SSH; `start --detach` does not get here.
openStream ==
    /\ power /\ cli["owner"].at = "launched"
    /\ cli' = [cli EXCEPT !["owner"].at = "tail"]
    /\ late' = After("owner")
    /\ CliFrame

attachCluster ==
    /\ power /\ cli["watcher"].at # "tail"
    /\ cli' = [cli EXCEPT !["watcher"] =
                 [at |-> "tail", cmd |-> "attach", of |-> 0, status |-> 0]]
    /\ late' = After("watcher")
    /\ CliFrame

\* parseExitMarker: the marker at the start of a line.  Behind a line longer
\* than its buffer the scanner has stopped.
MarkerSeen == log.marker = "plain" /\ ~log.long

\* mutant: the code is dropped when the stream is unwound
NoStatus(c) == 0
\* mutant: the code of the SSH session, which ends without one, for the marker's
SessionStatus(c) == -1
\* Only up ends with tailLog's code; start and attach drop it.
Status(c) == IF cli[c].cmd = "up" THEN log.code ELSE 0

tailLog(c) ==
    /\ cli[c].at = "tail" /\ MarkerSeen
    /\ cli' = [cli EXCEPT ![c].at = "exited", ![c].of = log.of, ![c].status = Status(c)]
    /\ CliFrame /\ UNCHANGED late

\* ^C, or `start --detach`
Detach(c) ==
    /\ cli[c].at \in {"launched", "tail"}
    /\ cli' = [cli EXCEPT ![c].at = "detached"]
    /\ CliFrame /\ UNCHANGED late

\* The connection is lost: reported, and the code stays 0.
StreamBreaks(c) ==
    /\ cli[c].at = "tail"
    /\ cli' = [cli EXCEPT ![c].at = "broken"]
    /\ CliFrame /\ UNCHANGED late

-----------------------------------------------------------------------------
(***************************************************************************)
(* The dead-man's switch, run every minute                                 *)
(***************************************************************************)
Established == \E c \in Client : cli[c].at = "tail"
Hot == gpu /\ proc = "hot"
InUse == Established \/ Hot

\* mutant: "at least" for "more than"
FiresEarly(age) == age >= TTL
Fires(age) == age > TTL

\* mutant: the script's own tick counts as use
Touched(age) == 0
\* Ages past the window are all alike.
Older(age) == IF age > TTL THEN age ELSE age + 1

IdleFrame == UNCHANGED <<gpu, run, log, code, names, timer, dns, cert>>

\* deadmanScript: first it looks for established connections, which refresh the
\* heartbeat, ...
deadman ==
    /\ power /\ dm = "no" /\ dm' = "gpu"
    /\ hb' = IF Established THEN 0 ELSE IF hb = NoFile THEN NoFile ELSE Older(hb)
    /\ unseen' = IF Established THEN 0 ELSE Older(unseen)
    /\ IdleFrame /\ UNCHANGED <<power, proc, svc, set, cli, late>>

\* ... then on a GPU node for GPUs at work, and at the heartbeat's age, a missing
\* one being new, ...
deadmanAge ==
    /\ power /\ dm = "gpu"
    /\ hb' = IF Hot THEN 0 ELSE hb
    /\ unseen' = IF Hot THEN 0 ELSE unseen
    /\ IF hb' # NoFile /\ Fires(hb')
       THEN dm' = "due" /\ UNCHANGED late
       ELSE dm' = "no" /\ late' = {}
    /\ IdleFrame /\ UNCHANGED <<power, proc, svc, set, cli>>

Halt ==
    /\ dm' = "no" /\ late' = {}
    /\ proc' = IF proc = "none" THEN proc ELSE "gone"
    /\ svc' = IF svc = "serving" THEN "enabled" ELSE svc
    /\ set' = "none"
    /\ cli' = [c \in Client |->
                 IF cli[c].at = "tail" THEN [cli[c] EXCEPT !.at = "broken"] ELSE cli[c]]

\* ... and `systemctl poweroff`, without a second look.
poweroff ==
    /\ power /\ dm = "due" /\ power' = FALSE
    /\ Halt
    /\ IdleFrame /\ UNCHANGED <<hb, unseen>>

\* /run is a tmpfs: the heartbeat is gone, and nothing touches it again but use.
\* The ruleset is gone too.  The same when a node is powered on again.
Reboot ==
    /\ power' = TRUE
    /\ hb' = NoFile /\ unseen' = 0
    /\ Halt /\ IdleFrame

-----------------------------------------------------------------------------
(***************************************************************************)
(* Egress names and the relay                                              *)
(***************************************************************************)
EgressFrame ==
    UNCHANGED <<power, gpu, workVars, cli, idleVars, late, names, timer, relayVars>>

\* The addresses behind an allowed name change.
Rotate ==
    /\ names /\ set = "fresh" /\ set' = "stale"
    /\ EgressFrame /\ UNCHANGED dns

\* lockdown replaces the ruleset.
Flush == set # "none" /\ set' = "none" /\ EgressFrame /\ UNCHANGED dns

\* The resolver, or what is between it and the node, fails or works again.
Network == names /\ dns' = ~dns /\ EgressFrame /\ UNCHANGED set

\* mutant: the script only adds to a set that is complete
SeedOnly == timer /\ set = "fresh"
\* egressRefreshScript does nothing without the set, ...
RefreshDue == timer /\ set = "stale"

\* ... and passes over the names it cannot resolve and the addresses it cannot add.
egressRefresh ==
    /\ power /\ RefreshDue /\ dns /\ set' = "fresh"
    /\ EgressFrame /\ UNCHANGED dns

RelayFrame == UNCHANGED <<power, gpu, workVars, cli, idleVars, late, egressVars>>

relayEnable ==
    /\ power /\ svc = "none" /\ svc' = "enabled" /\ (names => Both)
    /\ RelayFrame /\ UNCHANGED cert

\* The certificate is kept if there is one, else certificate and key are
\* written; the server loads both.
Identity == cert \in {"none", "both"}

relayStart ==
    /\ power /\ svc = "enabled" /\ Identity
    /\ svc' = "serving" /\ cert' = "both"
    /\ RelayFrame

\* The process dies, possibly between writing the certificate and the key.
relayDies ==
    /\ \/ svc = "serving" /\ svc' = "enabled" /\ UNCHANGED cert
       \/ svc = "enabled" /\ cert = "none" /\ cert' = "half" /\ UNCHANGED svc
    /\ power /\ RelayFrame

-----------------------------------------------------------------------------
Next ==
    \/ launchRun \/ Truncate \/ Output \/ WorkloadExit
    \/ openStream \/ attachCluster
    \/ \E c \in Client : tailLog(c) \/ Detach(c) \/ StreamBreaks(c)
    \/ deadman \/ deadmanAge \/ poweroff \/ Reboot
    \/ Rotate \/ Flush \/ Network \/ egressRefresh
    \/ relayEnable \/ relayStart \/ relayDies

Spec == Init /\ [][Next]_vars

\* The minute timers keep firing on a running node, systemd restarts the relay,
\* what is in the log is read, and the shell tmux started runs.  Nothing is
\* assumed about workloads, operators and the network.
FairSpec ==
    /\ Spec
    /\ WF_vars(deadman) /\ WF_vars(deadmanAge) /\ WF_vars(poweroff)
    /\ WF_vars(egressRefresh) /\ WF_vars(relayStart)
    /\ WF_vars(Truncate) /\ \A c \in Client : WF_vars(tailLog(c))

-----------------------------------------------------------------------------
(***************************************************************************)
(* Properties                                                              *)
(***************************************************************************)
\* "A crashed workload must not exit 0": an up that saw its workload end exits
\* with the code of that workload, the one it launched, whoever else tails the
\* log.
ExitIsTheWorkloads ==
    cli["owner"].cmd = "up" /\ cli["owner"].at = "exited" =>
        cli["owner"].of = 1 /\ (run = 1 => cli["owner"].status = code)

\* The dead-man's switch gives a node the whole idle window since it was last seen in
\* use, and powers off none that is streamed from or whose GPU works, but for uses
\* that began after the run that powers it off had looked for them.
SparesNodesInUse ==
    [][power /\ ~power' =>
         /\ unseen > TTL
         /\ \A c \in Client : cli[c].at = "tail" => c \in late
         /\ Hot => "gpu" \in late]_vars

\* An abandoned node stops: it is not for good that nobody is connected, no GPU
\* works and the node stays on, unless it rebooted and lost its heartbeat.
IdleNodeStops == []<>(~power \/ InUse \/ hb = NoFile)

\* What runs beside the workload comes back by itself.  No allowed name stays denied
\* after its addresses changed, where the timer was installed, the ruleset has the
\* set and the name resolves; and the enabled relay does not stay down after crashes
\* and reboots, unless it died between writing its certificate and its key.
Recovers ==
    /\ []<>(~power \/ ~timer \/ ~dns \/ set # "stale")
    /\ []<>(~power \/ svc # "enabled" \/ cert = "half")

=============================================================================
