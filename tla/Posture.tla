------------------------------ MODULE Posture ------------------------------
(***************************************************************************)
(* The network posture of a cluster's nodes: what `up -f` does to them     *)
(* after they exist, in which order and with which failures tolerated,     *)
(* and what `lockdown`, `relay up`, `start` and a reboot change later.     *)
(* `up` and `lockdown` hold the cluster's lock; `relay up` does not.       *)
(*                                                                         *)
(* A node's nftables ruleset is one value, because it is always loaded as  *)
(* one: `flush ruleset` drops the ARP inspection table and the relay's     *)
(* port with everything else.  Rules and WireGuard peers are kernel state  *)
(* and do not survive a reboot.                                            *)
(***************************************************************************)
EXTENDS Integers, FiniteSets

CONSTANTS
    N,            \* nodes, in the order of the plan
    Place,        \* public addresses the operator may come from
    Profiles      \* security.overlay settings to consider: off, lab, safe

Node == 1..N
Op == 0           \* the operator's WireGuard peer
Anywhere == "any"

ASSUME PostureAssumption ==
    /\ N \in Nat \ {0} /\ Place # {} /\ Anywhere \notin Place /\ "none" \notin Place
    /\ Profiles \subseteq {"off", "lab", "safe"}

VARIABLES
    l2,        \* security.overlay and its profile
    dry,       \* --firewall-audit
    here,      \* where the operator's connections come from
    scope,     \* operatorCIDR, as up found it
    pc, i,     \* up: the phase, and the node it is at
    rules,     \* nftables, by node
    peers,     \* WireGuard peers set on wg0, by node
    running,   \* nodes whose workload was started
    saved,     \* the operator's wg-<id>.conf, the only copy of its private key, is there
    manifest,  \* ~/.pandion/keys/<id>/manifest.json is there
    lk,        \* lockdown: step, node, --audit
    exit,      \* how the last lockdown ended
    relay,     \* relay up's step, on the first node
    conn,      \* the call of that step has dialled the node
    record,    \* relay.json
    \* history
    rebooted,  \* nodes that rebooted while up was at work
    overtaken  \* lockdown closed the first node under the call that opens the port

upVars == <<l2, dry, scope, pc, i>>
lkVars == <<lk, exit>>
relayVars == <<relay, conn, record>>
nodeVars == <<rules, peers, running>>
homeVars == <<saved, manifest>>
histVars == <<rebooted, overtaken>>
vars == <<upVars, here, nodeVars, homeVars, lkVars, relayVars, histVars>>

NoRules == [policy |-> "none", ssh |-> Anywhere, l2 |-> FALSE,
            dai |-> FALSE, port |-> FALSE]
Ruleset == [policy : {"none", "drop", "accept"}, ssh : Place \cup {Anywhere, "none"},
            l2 : BOOLEAN, dai : BOOLEAN, port : BOOLEAN]
Phase == {"ready", "setup", "build", "mesh", "fdb", "ping", "fw", "dai", "disc",
          "config", "manifest", "run", "ended"}

TypeOK ==
    /\ l2 \in Profiles /\ dry \in BOOLEAN
    /\ here \in Place /\ scope \in Place \cup {Anywhere}
    /\ pc \in Phase /\ i \in Node
    /\ rules \in [Node -> Ruleset]
    /\ peers \in [Node -> SUBSET (Node \cup {Op})]
    /\ running \subseteq Node /\ saved \in BOOLEAN /\ manifest \in BOOLEAN
    /\ lk \in [at : {"no", "verify", "apply"}, n : Node, audit : BOOLEAN]
    /\ exit \in {"none", "ok", "refused", "failed"}
    /\ relay \in {"no", "upload", "unit", "port", "start", "record"}
    /\ conn \in BOOLEAN /\ record \in BOOLEAN
    /\ rebooted \subseteq Node /\ overtaken \in BOOLEAN

\* Nodes as cloud-init leaves them: SSH open to all, wg0 without peers, no ruleset.
Init ==
    /\ l2 \in Profiles /\ dry \in BOOLEAN
    /\ here \in Place /\ scope = Anywhere
    /\ pc = "ready" /\ i = 1
    /\ rules = [n \in Node |-> NoRules] /\ peers = [n \in Node |-> {}]
    /\ running = {} /\ saved = FALSE /\ manifest = FALSE
    /\ lk = [at |-> "no", n |-> 1, audit |-> FALSE] /\ exit = "none"
    /\ relay = "no" /\ conn = FALSE /\ record = FALSE
    /\ rebooted = {} /\ overtaken = FALSE

-----------------------------------------------------------------------------
(***************************************************************************)
(* Reaching a node.  Any call may fail; these say when it cannot succeed.  *)
(***************************************************************************)
\* The public address can be dialled.  A connection that is established outlives
\* the rules it was let in by: every ruleset accepts `ct state established`.
PublicSSH(n) == rules[n].policy = "drop" => rules[n].ssh \in {Anywhere, here}

\* mutant: lockdown talks to the public address
OverPublic(n) == PublicSSH(n)
\* The rulesets accept everything on wg0; the operator needs the key of its peer.
OverlaySSH(n) == saved /\ Op \in peers[n]

\* firewall.NFTables: one transaction that replaces all there was.
NFTables(audit, ssh, vxlan) ==
    [policy |-> IF audit THEN "accept" ELSE "drop", ssh |-> ssh, l2 |-> vxlan,
     dai |-> FALSE, port |-> FALSE]

-----------------------------------------------------------------------------
(***************************************************************************)
(* up -f, after provisioning                                               *)
(***************************************************************************)
\* mutant: ARP inspection is loaded before the firewall
DaiFirst(p) ==
    CASE p = "ready" -> "setup" [] p = "setup" -> "build" [] p = "build" -> "mesh"
      [] p = "mesh" -> IF l2 = "off" THEN "ping" ELSE "fdb"
      [] p = "fdb" -> "ping" [] p = "ping" -> IF l2 = "safe" THEN "dai" ELSE "fw"
      [] p = "dai" -> "fw" [] p = "fw" -> "disc" [] p = "disc" -> "config"
      [] p = "config" -> "manifest"
      [] p = "manifest" -> "run" [] p = "run" -> "ended"
\* The phases in order; each goes over the nodes before the next begins.
Following(p) ==
    CASE p = "ready" -> "setup" [] p = "setup" -> "build" [] p = "build" -> "mesh"
      [] p = "mesh" -> IF l2 = "off" THEN "ping" ELSE "fdb"
      [] p = "fdb" -> "ping" [] p = "ping" -> "fw"
      [] p = "fw" -> IF l2 = "safe" THEN "dai" ELSE "disc"
      [] p = "dai" -> "disc" [] p = "disc" -> "config" [] p = "config" -> "manifest"
      [] p = "manifest" -> "run" [] p = "run" -> "ended"

\* On to the next node, or the next phase.
Forward ==
    IF i < N THEN i' = i + 1 /\ UNCHANGED pc ELSE i' = 1 /\ pc' = Following(pc)

\* os.Exit(codeInfraDegraded): the cluster is left as it is.
Degraded == pc' = "ended" /\ i' = 1

UpFrame == UNCHANGED <<l2, dry, here, lkVars, relayVars, histVars>>

\* cloud-init wait, setup commands, workspace sync and build, while egress is
\* open: a failure on any node ends the command.
buildWindow ==
    /\ pc \in {"ready", "setup", "build"}
    /\ \/ PublicSSH(i) /\ Forward
       \/ Degraded
    /\ UpFrame /\ UNCHANGED <<scope, nodeVars, homeVars>>

\* `wg set` for every other node and the operator, joined by &&: a failure may
\* leave some of them and ends the command.  The operator's address is looked
\* up just before; when that fails SSH stays open to any source.
formMesh ==
    /\ pc = "mesh"
    /\ IF i = 1 THEN scope' \in {here, Anywhere} ELSE UNCHANGED scope
    /\ LET all == (Node \ {i}) \cup {Op}
       IN \/ /\ PublicSSH(i)
             /\ peers' = [peers EXCEPT ![i] = all]
             /\ Forward
          \/ /\ \E done \in (SUBSET (Node \ {i})) \cup {all} :
                  peers' = [peers EXCEPT ![i] = done]
             /\ Degraded
    /\ UpFrame /\ UNCHANGED <<rules, running, homeVars>>

injectFDB ==
    /\ pc = "fdb"
    /\ \/ PublicSSH(i) /\ Forward
       \/ Degraded
    /\ UpFrame /\ UNCHANGED <<scope, nodeVars, homeVars>>

\* The ping ring only decides what is printed at the end.
verifyMesh ==
    /\ pc = "ping"
    /\ Forward
    /\ UpFrame /\ UNCHANGED <<scope, nodeVars, homeVars>>

\* A ruleset that cannot be loaded is reported and no more.
applyFirewall ==
    /\ pc = "fw"
    /\ \/ PublicSSH(i) /\ rules' = [rules EXCEPT ![i] = NFTables(dry, scope, l2 # "off")]
       \/ UNCHANGED rules
    /\ Forward
    /\ UpFrame /\ UNCHANGED <<scope, peers, running, homeVars>>

\* The separate arp table; a failure is printed and no more.
applyDAI ==
    /\ pc = "dai"
    /\ \/ PublicSSH(i) /\ rules' = [rules EXCEPT ![i].dai = TRUE]
       \/ UNCHANGED rules
    /\ Forward
    /\ UpFrame /\ UNCHANGED <<scope, peers, running, homeVars>>

\* A node without the discovery file is reported and no more.
injectDiscovery ==
    /\ pc = "disc"
    /\ Forward
    /\ UpFrame /\ UNCHANGED <<scope, nodeVars, homeVars>>

\* The operator's config, with the key made before the servers were: must() ends
\* the command when it cannot be written, and the key is gone.
writeOperatorConfig ==
    /\ pc = "config" /\ i = 1
    /\ \/ saved' = TRUE /\ pc' = Following(pc) /\ UNCHANGED i
       \/ UNCHANGED saved /\ Degraded
    /\ UpFrame /\ UNCHANGED <<scope, nodeVars, manifest>>

saveManifest ==
    /\ pc = "manifest" /\ i = 1
    /\ manifest' \in {TRUE, FALSE}
    /\ pc' = Following(pc) /\ UNCHANGED i
    /\ UpFrame /\ UNCHANGED <<scope, nodeVars, saved>>

\* streamCluster launches the workloads node by node; one that cannot be
\* launched ends the command with 7.  (--no-run: none is.)
launch ==
    /\ pc = "run"
    /\ \/ PublicSSH(i) /\ running' = running \cup {i} /\ Forward
       \/ UNCHANGED running /\ Degraded
    /\ UpFrame /\ UNCHANGED <<scope, rules, peers, homeVars>>

\* up is killed, and with it goes what it has not written.
UpKilled ==
    /\ pc # "ended" /\ Degraded
    /\ UpFrame /\ UNCHANGED <<scope, nodeVars, homeVars>>

-----------------------------------------------------------------------------
(***************************************************************************)
(* lockdown                                                                *)
(***************************************************************************)
LkFrame == UNCHANGED <<upVars, here, peers, running, homeVars, relayVars, rebooted>>

runLockdown ==
    /\ pc = "ended" /\ manifest /\ lk.at = "no"
    /\ \E audit \in BOOLEAN : lk' = [at |-> "verify", n |-> 1, audit |-> audit]
    /\ exit' = "none"
    /\ LkFrame /\ UNCHANGED <<rules, overtaken>>

\* The next node to verify; the first to change when all were reached.
Verified == IF lk.n < N THEN [lk EXCEPT !.n = @ + 1] ELSE [lk EXCEPT !.at = "apply", !.n = 1]

\* Step 1: every node answers over the overlay, or nothing is changed.
verifyOverlay ==
    /\ lk.at = "verify"
    /\ \/ OverlaySSH(lk.n) /\ lk' = Verified /\ UNCHANGED exit
       \/ lk' = [lk EXCEPT !.at = "no"] /\ exit' = "refused"
    /\ LkFrame /\ UNCHANGED <<rules, overtaken>>

\* mutant: the loop runs one node too far
AppliedPast == [lk EXCEPT !.n = @ + 1]
Applied == IF lk.n < N THEN [lk EXCEPT !.n = @ + 1] ELSE [lk EXCEPT !.at = "no"]

\* Step 2, over the overlay: no L2 rule, no egress names.  The first failure
\* ends the command.
applyDenyAll ==
    /\ lk.at = "apply"
    /\ \/ /\ OverlaySSH(lk.n)
          /\ rules' = [rules EXCEPT ![lk.n] = NFTables(lk.audit, "none", FALSE)]
          /\ lk' = Applied
          /\ exit' = IF lk.n = N THEN "ok" ELSE "none"
          /\ overtaken' = IF lk.n = 1 THEN conn /\ relay = "port" ELSE overtaken
       \/ lk' = [lk EXCEPT !.at = "no"] /\ exit' = "failed" /\ UNCHANGED <<rules, overtaken>>
    /\ LkFrame

-----------------------------------------------------------------------------
(***************************************************************************)
(* relay up, on the first node, with a self-signed certificate             *)
(***************************************************************************)
RelayFrame == UNCHANGED <<upVars, here, peers, running, homeVars, lkVars, histVars>>

runRelayUp ==
    /\ relay = "no" /\ manifest /\ relay' = "upload"
    /\ RelayFrame /\ UNCHANGED <<rules, conn, record>>

\* ssh.Run dials for each call ...
dialRelay ==
    /\ relay \in {"upload", "unit", "port", "start"} /\ ~conn /\ PublicSSH(1)
    /\ conn' = TRUE
    /\ RelayFrame /\ UNCHANGED <<rules, relay, record>>

\* mutant: one connection is kept for all the calls of a command
KeptOpen == UNCHANGED conn
\* ... and hangs up after it, or after it failed.
HangUp == conn' = FALSE

RelayCall(from, to) ==
    /\ relay = from
    /\ \/ conn /\ relay' = to
       \/ relay' = "no"
    /\ HangUp
    /\ RelayFrame /\ UNCHANGED <<rules, record>>

\* The binary, then the unit.
uploadRelay == RelayCall("upload", "unit")
provisionRelay == RelayCall("unit", "port")

\* `nft add rule ... || true`: nothing happens without the table, and a failed
\* call is a warning.
openRelayPort ==
    /\ relay = "port" /\ relay' = "start"
    /\ \/ conn /\ rules[1].policy # "none" /\ rules' = [rules EXCEPT ![1].port = TRUE]
       \/ UNCHANGED rules
    /\ HangUp
    /\ RelayFrame /\ UNCHANGED record

enableRelay == RelayCall("start", "record")

writeRelayRecord ==
    /\ relay = "record" /\ relay' = "no"
    /\ record' \in {TRUE, record}
    /\ RelayFrame /\ UNCHANGED <<rules, conn>>

-----------------------------------------------------------------------------
(***************************************************************************)
(* start, reboots, and the operator's travels                              *)
(***************************************************************************)
startCluster ==
    /\ pc = "ended" /\ manifest /\ lk.at = "no"
    /\ \E n \in Node : PublicSSH(n) /\ running' = running \cup {n}
    /\ UNCHANGED <<upVars, here, rules, peers, homeVars, lkVars, relayVars, histVars>>

\* wg0.conf has no peers, nothing reloads the ruleset; units and files stay.
\* Connections are lost.
Reboot(n) ==
    /\ rules' = [rules EXCEPT ![n] = NoRules]
    /\ peers' = [peers EXCEPT ![n] = {}]
    /\ running' = running \ {n}
    /\ rebooted' = IF pc = "ended" THEN rebooted ELSE rebooted \cup {n}
    /\ conn' = (conn /\ n # 1)
    /\ UNCHANGED <<upVars, here, homeVars, lkVars, relay, record, overtaken>>

Roam ==
    /\ here' \in Place \ {here}
    /\ UNCHANGED <<upVars, nodeVars, homeVars, lkVars, relayVars, histVars>>

-----------------------------------------------------------------------------
Up ==
    \/ buildWindow \/ formMesh \/ injectFDB \/ verifyMesh \/ applyFirewall
    \/ applyDAI \/ injectDiscovery \/ writeOperatorConfig \/ saveManifest
    \/ launch \/ UpKilled

Next ==
    \/ Up
    \/ runLockdown \/ verifyOverlay \/ applyDenyAll
    \/ runRelayUp \/ dialRelay \/ uploadRelay \/ provisionRelay \/ openRelayPort
    \/ enableRelay \/ writeRelayRecord
    \/ startCluster \/ Roam
    \/ \E n \in Node : Reboot(n)

Spec == Init /\ [][Next]_vars

-----------------------------------------------------------------------------
(***************************************************************************)
(* Properties                                                              *)
(***************************************************************************)
\* "You cannot lock yourself out": a node that closes public SSH has the operator
\* as a WireGuard peer and the operator has the key, whatever up, lockdown and
\* reboots did before.  So it is with a node that restricts SSH to the operator's
\* address, and an operator who moves still has a way in, but for two windows the
\* code leaves: the node rebooted between up's mesh and its firewall, or up did not
\* get from the firewall to writing the operator's config.
NeverLockedOut ==
    \A n \in Node :
        rules[n].policy = "drop" /\ rules[n].ssh # Anywhere =>
            \/ OverlaySSH(n)
            \/ /\ rules[n].ssh # "none"
               /\ \/ n \in rebooted
                  \/ Op \in peers[n] /\ ~saved /\ pc \in {"fw", "dai", "disc", "config", "ended"}

\* While up works on the nodes, loaded ARP inspection is not flushed away by a
\* later step of it; only a reboot takes it off.
InspectionStays ==
    [][\A n \in Node :
         pc # "ended" /\ rules[n].dai => rules'[n].dai \/ rules'[n] = NoRules]_vars

\* "a public scan sees just the WireGuard port": after a lockdown that succeeded
\* no node has another public port open, also when `relay up`, which takes no
\* lock, ran beside it.  The exception is the call that opens the relay's port, if
\* it had dialled and not yet run when lockdown closed the node.  (A reboot since
\* has undone the lockdown altogether.)
DarkAfterLockdown ==
    exit = "ok" /\ lk.at = "no" /\ ~lk.audit =>
        \A n \in Node : rules[n] = NoRules
            \/ /\ rules[n].policy = "drop" /\ rules[n].ssh = "none"
               /\ rules[n].port => n = 1 /\ overtaken

=============================================================================
