--------------------------- MODULE PostureProofs ---------------------------
(***************************************************************************)
(* Proofs about Posture: however up, lockdown, relay up, start, reboots    *)
(* and failing calls interleave, the operator keeps a way in and a         *)
(* lockdown that succeeded holds, for any number of nodes, any set of      *)
(* places and any overlay profiles.                                        *)
(***************************************************************************)
EXTENDS Posture, TLAPS

BeforeFirewall == {"ready", "setup", "build", "mesh", "fdb", "ping"}

\* up has a way in over the overlay, or the node rebooted under it.
Meshed(n) == Op \in peers[n] \/ n \in rebooted

\* No ruleset is loaded before up's firewall phase, and no ARP inspection before
\* the phase that follows it.
QuietInv ==
    /\ pc \in BeforeFirewall => \A n \in Node : rules[n].policy = "none"
    /\ pc \in BeforeFirewall \cup {"fw"} => \A n \in Node : ~rules[n].dai

\* The mesh is formed node by node, and the firewall comes after it.
MeshInv ==
    /\ pc = "mesh" => \A n \in Node : n < i => Meshed(n)
    /\ pc \in {"fdb", "ping", "fw"} => \A n \in Node : Meshed(n)

\* lockdown begins after up, and its exit is recorded when it ends.
LockdownInv ==
    /\ lk.at # "no" => pc = "ended" /\ exit = "none"
    /\ exit # "none" => pc = "ended"

\* A ruleset that lets nothing in but WireGuard, and the relay's port where it was
\* overtaken, or none since a reboot.
Dark(n) == rules[n].policy = "drop" /\ rules[n].ssh = "none"
Closed(n) ==
    \/ rules[n] = NoRules
    \/ Dark(n) /\ (rules[n].port => n = 1 /\ overtaken)

\* On a node that is dark nobody can dial: the call that may open the relay's port
\* dialled before.
RelayInv == conn /\ relay = "port" /\ Dark(1) => overtaken

\* An enforcing lockdown has closed the nodes it has been to.
ProgressInv ==
    lk.at = "apply" /\ ~lk.audit => \A n \in Node : n < lk.n => Closed(n)

\* The inductive invariant.
PostureInv ==
    /\ TypeOK /\ QuietInv /\ MeshInv /\ LockdownInv /\ RelayInv /\ ProgressInv
    /\ NeverLockedOut /\ DarkAfterLockdown

-----------------------------------------------------------------------------
USE PostureAssumption

\* The nodes are the numbers from 1 to N, and the operator's peer is none of them.
LEMMA NodeFacts == 1 \in Node /\ Node \subseteq Nat /\ Op \notin Node
  BY DEF Node, Op

\* What NFTables makes, and what a reboot leaves, is a ruleset.
LEMMA RulesetTypes ==
  /\ NoRules \in Ruleset
  /\ \A audit, vxlan \in BOOLEAN, ssh \in Place \cup {Anywhere, "none"} :
        NFTables(audit, ssh, vxlan) \in Ruleset
  BY DEF NoRules, Ruleset, NFTables

\* Loading the ARP table or opening the relay's port makes a ruleset of one.
LEMMA RulesetChanges ==
  ASSUME NEW r \in Ruleset
  PROVE  [r EXCEPT !.dai = TRUE] \in Ruleset /\ [r EXCEPT !.port = TRUE] \in Ruleset
  BY DEF Ruleset

\* What formMesh sets on a node is a set of peers.
LEMMA PeersTyped ==
  ASSUME NEW k \in Node,
         NEW done \in (SUBSET (Node \ {k})) \cup {(Node \ {k}) \cup {Op}}
  PROVE  done \in SUBSET (Node \cup {Op})
<1>1. done \in SUBSET (Node \ {k}) \/ done = (Node \ {k}) \cup {Op}
  OBVIOUS
<1>2. CASE done \in SUBSET (Node \ {k})
  BY <1>2, Zenon
<1>3. CASE done = (Node \ {k}) \cup {Op}
  BY <1>3, Zenon
<1> QED
  BY <1>1, <1>2, <1>3

\* The loops over the nodes stay within them.
LEMMA ForwardTyped ==
  ASSUME TypeOK, pc # "ended", Forward
  PROVE  i' \in Node /\ pc' \in Phase
<1>1. i' \in Node
  BY NodeFacts DEF Forward, TypeOK, Node
<1>2. Following(pc) \in Phase
  BY DEF TypeOK, Phase, Following
<1> QED
  BY <1>1, <1>2 DEF Forward, TypeOK

LEMMA DegradedTyped ==
  ASSUME Degraded
  PROVE  i' \in Node /\ pc' \in Phase
  BY NodeFacts DEF Degraded, Phase

\* lockdown's loops, too.
LkType == [at : {"no", "verify", "apply"}, n : Node, audit : BOOLEAN]

LEMMA VerifiedTyped == TypeOK => Verified \in LkType /\ Applied \in LkType
<1> SUFFICES ASSUME TypeOK PROVE Verified \in LkType /\ Applied \in LkType
  OBVIOUS
<1>1. lk \in LkType
  BY DEF TypeOK, LkType
<1>2. lk.n < N => lk.n + 1 \in Node
  BY <1>1 DEF LkType, Node
<1> QED
  BY <1>1, <1>2, NodeFacts DEF LkType, Verified, Applied

\* Every variable keeps its type.
LEMMA TypeStep == TypeOK /\ [Next]_vars => TypeOK'
<1> SUFFICES ASSUME TypeOK, [Next]_vars PROVE TypeOK'
  OBVIOUS
<1> USE NodeFacts DEF TypeOK, upVars, lkVars, relayVars, nodeVars, homeVars, histVars
<1>1. ASSUME buildWindow PROVE TypeOK'
  BY <1>1, ForwardTyped, DegradedTyped DEF buildWindow, UpFrame
<1>2. ASSUME formMesh PROVE TypeOK'
  <2>1. i' \in Node /\ pc' \in Phase
    BY <1>2, ForwardTyped, DegradedTyped DEF formMesh
  <2>2. scope' \in Place \cup {Anywhere}
    BY <1>2 DEF formMesh
  <2>3. PICK new \in SUBSET (Node \cup {Op}) : peers' = [peers EXCEPT ![i] = new]
    <3>1. \A done \in (SUBSET (Node \ {i})) \cup {(Node \ {i}) \cup {Op}} :
             done \in SUBSET (Node \cup {Op})
      BY PeersTyped
    <3> QED
      BY <1>2, <3>1, Zenon DEF formMesh
  <2>4. peers' \in [Node -> SUBSET (Node \cup {Op})]
    BY <2>3
  <2> QED
    BY <1>2, <2>1, <2>2, <2>4 DEF formMesh, UpFrame
<1>3. ASSUME injectFDB PROVE TypeOK'
  BY <1>3, ForwardTyped, DegradedTyped DEF injectFDB, UpFrame
<1>4. ASSUME verifyMesh PROVE TypeOK'
  BY <1>4, ForwardTyped, DegradedTyped DEF verifyMesh, UpFrame
<1>5. ASSUME applyFirewall PROVE TypeOK'
  <2>1. i' \in Node /\ pc' \in Phase
    BY <1>5, ForwardTyped DEF applyFirewall
  <2>2. NFTables(dry, scope, l2 # "off") \in Ruleset
    BY RulesetTypes
  <2>3. rules' \in [Node -> Ruleset]
    BY <1>5, <2>2 DEF applyFirewall
  <2> QED
    BY <1>5, <2>1, <2>3 DEF applyFirewall, UpFrame
<1>6. ASSUME applyDAI PROVE TypeOK'
  <2>1. i' \in Node /\ pc' \in Phase
    BY <1>6, ForwardTyped DEF applyDAI
  <2>2. [rules[i] EXCEPT !.dai = TRUE] \in Ruleset
    BY RulesetChanges
  <2>3. rules' \in [Node -> Ruleset]
    BY <1>6, <2>2 DEF applyDAI
  <2> QED
    BY <1>6, <2>1, <2>3 DEF applyDAI, UpFrame
<1>7. ASSUME injectDiscovery PROVE TypeOK'
  BY <1>7, ForwardTyped, DegradedTyped DEF injectDiscovery, UpFrame
<1>8. ASSUME saveManifest PROVE TypeOK'
  <2>1. pc' \in Phase /\ i' \in Node
    BY <1>8 DEF saveManifest, Following, Phase
  <2>2. manifest' \in BOOLEAN
    BY <1>8 DEF saveManifest
  <2>3. UNCHANGED <<l2, dry, here, lkVars, relayVars, histVars, scope, nodeVars, saved>>
    BY <1>8 DEF saveManifest, UpFrame
  <2> QED
    BY <2>1, <2>2, <2>3
<1>9. ASSUME launch PROVE TypeOK'
  <2>1. i' \in Node /\ pc' \in Phase
    BY <1>9, ForwardTyped, DegradedTyped DEF launch
  <2>2. running' \subseteq Node
    BY <1>9 DEF launch
  <2>3. UNCHANGED <<l2, dry, here, lkVars, relayVars, histVars, scope, rules, peers, homeVars>>
    BY <1>9 DEF launch, UpFrame
  <2> QED
    BY <2>1, <2>2, <2>3
<1>10. ASSUME UpKilled PROVE TypeOK'
  BY <1>10, ForwardTyped, DegradedTyped DEF UpKilled, UpFrame
<1>11. ASSUME runLockdown PROVE TypeOK'
  BY <1>11 DEF runLockdown, LkFrame
<1>12. ASSUME verifyOverlay PROVE TypeOK'
  <2>1. Verified \in LkType
    BY VerifiedTyped
  <2>2. lk' \in LkType
    BY <1>12, <2>1 DEF verifyOverlay, LkType
  <2> QED
    BY <1>12, <2>2 DEF verifyOverlay, LkFrame, LkType
<1>13. ASSUME applyDenyAll PROVE TypeOK'
  <2>1. lk' \in LkType
    BY <1>13, VerifiedTyped DEF applyDenyAll, LkType
  <2>2. NFTables(lk.audit, "none", FALSE) \in Ruleset
    BY RulesetTypes
  <2>3. rules' \in [Node -> Ruleset]
    BY <1>13, <2>2 DEF applyDenyAll
  <2>4. exit' \in {"none", "ok", "refused", "failed"} /\ overtaken' \in BOOLEAN
    BY <1>13 DEF applyDenyAll
  <2> QED
    BY <1>13, <2>1, <2>3, <2>4 DEF applyDenyAll, LkFrame, LkType
<1>14. ASSUME runRelayUp \/ dialRelay PROVE TypeOK'
  BY <1>14 DEF runRelayUp, dialRelay, RelayFrame
<1>15. ASSUME uploadRelay \/ provisionRelay \/ enableRelay PROVE TypeOK'
  BY <1>15 DEF uploadRelay, provisionRelay, enableRelay, RelayFrame, RelayCall, HangUp
<1>16. ASSUME openRelayPort PROVE TypeOK'
  <2>1. [rules[1] EXCEPT !.port = TRUE] \in Ruleset
    BY RulesetChanges
  <2>2. rules' \in [Node -> Ruleset]
    BY <1>16, <2>1 DEF openRelayPort
  <2> QED
    BY <1>16, <2>2 DEF openRelayPort, RelayFrame, HangUp
<1>17. ASSUME writeOperatorConfig PROVE TypeOK'
  <2>1. pc' \in Phase /\ i' \in Node
    BY <1>17, DegradedTyped DEF writeOperatorConfig, Following, Phase
  <2>2. saved' \in BOOLEAN
    BY <1>17 DEF writeOperatorConfig
  <2>3. UNCHANGED <<l2, dry, here, lkVars, relayVars, histVars, scope, nodeVars, manifest>>
    BY <1>17 DEF writeOperatorConfig, UpFrame
  <2> QED
    BY <2>1, <2>2, <2>3
<1>18. ASSUME writeRelayRecord PROVE TypeOK'
  <2>1. record' \in BOOLEAN
    BY <1>18 DEF writeRelayRecord
  <2>2. relay' \in {"no", "upload", "unit", "port", "start", "record"}
    BY <1>18 DEF writeRelayRecord
  <2>3. UNCHANGED <<upVars, here, nodeVars, homeVars, lkVars, conn, histVars>>
    BY <1>18 DEF writeRelayRecord, RelayFrame
  <2> QED
    BY <2>1, <2>2, <2>3
<1>19. ASSUME startCluster PROVE TypeOK'
  BY <1>19 DEF startCluster
<1>20. ASSUME Roam PROVE TypeOK'
  BY <1>20 DEF Roam
<1>21. ASSUME NEW n \in Node, Reboot(n) PROVE TypeOK'
  BY <1>21, RulesetTypes DEF Reboot
<1>22. CASE UNCHANGED vars
  BY <1>22 DEF vars
<1> QED
  BY <1>1, <1>2, <1>3, <1>4, <1>5, <1>6, <1>7, <1>8, <1>9, <1>10, <1>11,
      <1>12, <1>13, <1>14, <1>15, <1>16, <1>17, <1>18, <1>19, <1>20, <1>21,
      <1>22 DEF Next, Up

-----------------------------------------------------------------------------
\* A phase before the firewall is reached from such a phase only, the mesh's end
\* is the only way on from it, and nothing follows the end of up.
LEMMA FollowingFacts ==
  ASSUME TypeOK, pc # "ended"
  PROVE  /\ Following(pc) \in BeforeFirewall => pc \in BeforeFirewall
         /\ Following(pc) = "fw" => pc = "ping"
         /\ Following(pc) = "mesh" => pc = "build"
         /\ Following(pc) \in {"fdb", "ping"} => pc \in {"mesh", "fdb"}
  BY DEF TypeOK, Phase, Following, BeforeFirewall

\* All that a step can do to one node: nothing, set its peers, load up's ruleset
\* or the ARP table, lock it down, open the relay's port, or reboot it.
Kept(n) == rules'[n] = rules[n] /\ peers'[n] = peers[n]
Peered(n) == pc = "mesh" /\ n = i /\ rules'[n] = rules[n]
Walled(n) ==
    /\ pc = "fw" /\ PublicSSH(n)
    /\ rules'[n] = NFTables(dry, scope, l2 # "off") /\ peers'[n] = peers[n]
Inspected(n) ==
    pc = "dai" /\ rules'[n] = [rules[n] EXCEPT !.dai = TRUE] /\ peers'[n] = peers[n]
Darkened(n) ==
    /\ lk.at = "apply" /\ n = lk.n /\ OverlaySSH(n)
    /\ rules'[n] = NFTables(lk.audit, "none", FALSE) /\ peers'[n] = peers[n]
    /\ n = 1 => overtaken' = (conn /\ relay = "port")
Ported(n) ==
    /\ n = 1 /\ conn /\ relay = "port" /\ rules[n].policy # "none"
    /\ rules'[n] = [rules[n] EXCEPT !.port = TRUE] /\ peers'[n] = peers[n]
Restarted(n) == rules'[n] = NoRules /\ (pc # "ended" => n \in rebooted')

LEMMA NodeStep ==
  ASSUME TypeOK, Next, NEW n \in Node
  PROVE  /\ \/ Kept(n) \/ Peered(n) \/ Walled(n) \/ Inspected(n)
            \/ Darkened(n) \/ Ported(n) \/ Restarted(n)
         /\ rebooted \subseteq rebooted'
<1> USE DEF upVars, lkVars, relayVars, nodeVars, homeVars, histVars
<1>1. CASE \/ buildWindow \/ injectFDB \/ verifyMesh \/ injectDiscovery
           \/ writeOperatorConfig \/ saveManifest \/ launch \/ UpKilled
  BY <1>1 DEF buildWindow, injectFDB, verifyMesh, injectDiscovery, writeOperatorConfig,
      saveManifest, launch, UpKilled, UpFrame, Kept
<1>2. CASE formMesh
  <2>1. PICK new : peers' = [peers EXCEPT ![i] = new]
    BY <1>2, Zenon DEF formMesh
  <2>2. rules' = rules /\ rebooted' = rebooted /\ pc = "mesh"
    BY <1>2 DEF formMesh, UpFrame
  <2> QED
    BY <2>1, <2>2 DEF TypeOK, Kept, Peered
<1>3. CASE applyFirewall
  <2>1. pc = "fw" /\ peers' = peers /\ rebooted' = rebooted
    BY <1>3 DEF applyFirewall, UpFrame
  <2>2. \/ PublicSSH(i) /\ rules' = [rules EXCEPT ![i] = NFTables(dry, scope, l2 # "off")]
        \/ rules' = rules
    BY <1>3 DEF applyFirewall
  <2> QED
    BY <2>1, <2>2 DEF TypeOK, Kept, Walled
<1>4. CASE applyDAI
  <2>1. pc = "dai" /\ peers' = peers /\ rebooted' = rebooted
    BY <1>4 DEF applyDAI, UpFrame
  <2>2. \/ rules' = [rules EXCEPT ![i] = [rules[i] EXCEPT !.dai = TRUE]]
        \/ rules' = rules
    BY <1>4 DEF applyDAI
  <2> QED
    BY <2>1, <2>2 DEF TypeOK, Kept, Inspected
<1>5. CASE runLockdown \/ verifyOverlay
  BY <1>5 DEF runLockdown, verifyOverlay, LkFrame, Kept
<1>6. CASE applyDenyAll
  <2>1. lk.at = "apply" /\ peers' = peers /\ rebooted' = rebooted
    BY <1>6 DEF applyDenyAll, LkFrame
  <2>2. \/ /\ OverlaySSH(lk.n)
           /\ rules' = [rules EXCEPT ![lk.n] = NFTables(lk.audit, "none", FALSE)]
           /\ lk.n = 1 => overtaken' = (conn /\ relay = "port")
        \/ rules' = rules
    BY <1>6 DEF applyDenyAll
  <2> QED
    BY <2>1, <2>2 DEF TypeOK, Kept, Darkened
<1>7. CASE runRelayUp \/ dialRelay \/ uploadRelay \/ provisionRelay \/ enableRelay
           \/ writeRelayRecord
  BY <1>7 DEF runRelayUp, dialRelay, uploadRelay, provisionRelay, enableRelay,
      writeRelayRecord, RelayCall, RelayFrame, Kept
<1>8. CASE openRelayPort
  <2>1. peers' = peers /\ rebooted' = rebooted
    BY <1>8 DEF openRelayPort, RelayFrame
  <2>2. \/ /\ conn /\ relay = "port" /\ rules[1].policy # "none"
           /\ rules' = [rules EXCEPT ![1] = [rules[1] EXCEPT !.port = TRUE]]
        \/ rules' = rules
    BY <1>8 DEF openRelayPort
  <2> QED
    BY <2>1, <2>2 DEF TypeOK, Kept, Ported
<1>9. CASE startCluster \/ Roam
  BY <1>9 DEF startCluster, Roam, Kept
<1>10. CASE \E m \in Node : Reboot(m)
  <2>1. PICK m \in Node : Reboot(m)
    BY <1>10
  <2>2. rebooted' = IF pc = "ended" THEN rebooted ELSE rebooted \cup {m}
    BY <2>1 DEF Reboot
  <2>3. rules' = [rules EXCEPT ![m] = NoRules] /\ peers' = [peers EXCEPT ![m] = {}]
    BY <2>1 DEF Reboot
  <2> QED
    BY <2>2, <2>3 DEF TypeOK, Kept, Restarted
<1> QED
  BY <1>1, <1>2, <1>3, <1>4, <1>5, <1>6, <1>7, <1>8, <1>9, <1>10 DEF Next, Up

\* All that a step can do to up's own place: stay, stop, or go on, past the
\* operator's config only once that is written, which nothing deletes.
LEMMA UpStep ==
  ASSUME TypeOK, Next
  PROVE  /\ \/ UNCHANGED <<pc, i>>
            \/ pc # "ended" /\ Degraded
            \/ pc \notin {"config", "manifest", "ended"} /\ Forward
            \/ pc = "config" /\ pc' = "manifest" /\ saved'
            \/ pc = "manifest" /\ pc' = "run"
         /\ saved => saved'
<1> USE DEF upVars, lkVars, relayVars, homeVars, histVars
<1>1. CASE \/ buildWindow \/ formMesh \/ injectFDB \/ verifyMesh \/ applyFirewall
           \/ applyDAI \/ injectDiscovery \/ launch \/ UpKilled
  <2>1. saved' = saved
    BY <1>1 DEF buildWindow, formMesh, injectFDB, verifyMesh, applyFirewall, applyDAI,
        injectDiscovery, launch, UpKilled
  <2>2. \/ pc # "ended" /\ Degraded
        \/ pc \notin {"config", "manifest", "ended"} /\ Forward
    BY <1>1 DEF buildWindow, formMesh, injectFDB, verifyMesh, applyFirewall, applyDAI,
        injectDiscovery, launch, UpKilled
  <2> QED
    BY <2>1, <2>2
<1>2. CASE writeOperatorConfig \/ saveManifest
  <2>1. CASE writeOperatorConfig
    <3>1. pc = "config" /\ Following(pc) = "manifest"
      BY <2>1 DEF writeOperatorConfig, Following
    <3> QED
      BY <2>1, <3>1 DEF writeOperatorConfig
  <2>2. CASE saveManifest
    <3>1. pc = "manifest" /\ Following(pc) = "run"
      BY <2>2 DEF saveManifest, Following
    <3> QED
      BY <2>2, <3>1 DEF saveManifest
  <2> QED
    BY <1>2, <2>1, <2>2
<1>3. CASE \/ runLockdown \/ verifyOverlay \/ applyDenyAll
           \/ runRelayUp \/ dialRelay \/ uploadRelay \/ provisionRelay \/ openRelayPort
           \/ enableRelay \/ writeRelayRecord
  <2>1. UNCHANGED <<pc, i, saved>>
    BY <1>3 DEF runLockdown, verifyOverlay, applyDenyAll, LkFrame, runRelayUp, dialRelay,
        uploadRelay, provisionRelay, openRelayPort, enableRelay, writeRelayRecord,
        RelayCall, RelayFrame
  <2> QED
    BY <2>1
<1>4. CASE startCluster \/ Roam \/ \E m \in Node : Reboot(m)
  BY <1>4 DEF startCluster, Roam, Reboot
<1> QED
  BY <1>1, <1>2, <1>3, <1>4 DEF Next, Up

\* up leaves a node of the mesh phase behind only with the operator as its peer.
LEMMA MeshFormed ==
  ASSUME TypeOK, Next, pc = "mesh", pc' # "ended", ~UNCHANGED <<pc, i>>
  PROVE  Op \in peers'[i]
<1> USE DEF upVars, lkVars, relayVars, homeVars, histVars
<1>1. Up
  <2>1. CASE runLockdown \/ verifyOverlay \/ applyDenyAll
    BY <2>1 DEF runLockdown, verifyOverlay, applyDenyAll, LkFrame
  <2>2. CASE runRelayUp \/ dialRelay \/ uploadRelay \/ provisionRelay \/ openRelayPort
             \/ enableRelay \/ writeRelayRecord
    BY <2>2 DEF runRelayUp, dialRelay, uploadRelay, provisionRelay, openRelayPort, enableRelay,
        writeRelayRecord, RelayCall, RelayFrame
  <2>3. CASE startCluster \/ Roam \/ \E m \in Node : Reboot(m)
    BY <2>3 DEF startCluster, Roam, Reboot
  <2> QED
    BY <2>1, <2>2, <2>3 DEF Next
<1>2. formMesh
  BY <1>1 DEF Up, buildWindow, injectFDB, verifyMesh, applyFirewall, applyDAI,
      injectDiscovery, writeOperatorConfig, saveManifest, launch, UpKilled, Degraded
<1>3. peers' = [peers EXCEPT ![i] = (Node \ {i}) \cup {Op}]
  BY <1>2 DEF formMesh, Degraded
<1> QED
  BY <1>3 DEF TypeOK

LEMMA QuietStep ==
  ASSUME PostureInv, Next
  PROVE  QuietInv'
<1> USE DEF PostureInv
<1>1. /\ pc' \in BeforeFirewall => pc \in BeforeFirewall
      /\ pc' \in BeforeFirewall \cup {"fw"} => pc \in BeforeFirewall \cup {"fw"}
  BY UpStep, FollowingFacts DEF Forward, Degraded, BeforeFirewall
<1>2. ASSUME NEW n \in Node, pc \in BeforeFirewall, rules[n].policy = "none"
      PROVE  rules'[n].policy = "none"
  <2>1. ~Walled(n) /\ ~Inspected(n) /\ ~Darkened(n) /\ ~Ported(n)
    BY <1>2 DEF Walled, Inspected, Darkened, Ported, BeforeFirewall, LockdownInv
  <2>2. CASE Restarted(n)
    BY <2>2 DEF Restarted, NoRules
  <2> QED
    BY <1>2, <2>1, <2>2, NodeStep DEF Kept, Peered
<1>3. ASSUME NEW n \in Node, pc \in BeforeFirewall \cup {"fw"}, ~rules[n].dai
      PROVE  ~rules'[n].dai
  <2>1. rules[n] \in Ruleset
    BY DEF TypeOK
  <2>2. CASE Ported(n)
    BY <1>3, <2>1, <2>2 DEF Ported, Ruleset
  <2>3. CASE Walled(n)
    BY <2>3 DEF Walled, NFTables
  <2>4. CASE Restarted(n)
    BY <2>4 DEF Restarted, NoRules
  <2>5. ~Inspected(n) /\ ~Darkened(n)
    BY <1>3 DEF Inspected, Darkened, BeforeFirewall, LockdownInv
  <2> QED
    BY <1>3, <2>2, <2>3, <2>4, <2>5, NodeStep DEF Kept, Peered
<1> QED
  BY <1>1, <1>2, <1>3 DEF QuietInv

LEMMA MeshStep ==
  ASSUME PostureInv, Next
  PROVE  MeshInv'
<1> USE DEF PostureInv
<1>1. ASSUME NEW n \in Node, pc # "ended", Meshed(n), ~(pc = "mesh" /\ n = i)
      PROVE  Meshed(n)'
  BY <1>1, NodeStep DEF Meshed, Kept, Peered, Walled, Inspected, Darkened, Ported,
      Restarted
<1>2. ASSUME NEW n \in Node, pc = "mesh", n = i, pc' # "ended", ~UNCHANGED <<pc, i>>
      PROVE  Meshed(n)'
  BY <1>2, MeshFormed DEF Meshed
<1>3. ASSUME pc' = "mesh", NEW n \in Node, n < i'
      PROVE  Meshed(n)'
  <2>1. CASE UNCHANGED <<pc, i>>
    BY <1>1, <1>3, <2>1, NodeFacts DEF MeshInv, TypeOK
  <2>2. CASE ~UNCHANGED <<pc, i>>
    <3>1. pc # "ended" /\ Forward
      BY <1>3, <2>2, UpStep DEF Degraded
    <3>2. pc = "mesh" /\ i' = i + 1
      <4>1. i' # 1
        BY <1>3 DEF Node
      <4> QED
        BY <1>3, <3>1, <4>1 DEF Forward
    <3> QED
      BY <1>1, <1>2, <1>3, <2>2, <3>2, NodeFacts DEF MeshInv, TypeOK
  <2> QED
    BY <2>1, <2>2
<1>4. ASSUME pc' \in {"fdb", "ping", "fw"}, NEW n \in Node
      PROVE  Meshed(n)'
  <2>1. CASE pc \in {"fdb", "ping", "fw"}
    BY <1>1, <2>1 DEF MeshInv
  <2>2. CASE pc \notin {"fdb", "ping", "fw"}
    <3>1. pc # "ended" /\ Forward
      BY <1>4, <2>2, UpStep DEF Degraded
    <3>2. pc = "mesh" /\ i = N
      BY <1>4, <2>2, <3>1, FollowingFacts DEF Forward, TypeOK, Node
    <3>3. n < i \/ n = i
      BY <3>2 DEF Node
    <3> QED
      BY <1>1, <1>2, <1>4, <3>2, <3>3, NodeFacts DEF MeshInv, TypeOK
  <2> QED
    BY <2>1, <2>2
<1> QED
  BY <1>3, <1>4 DEF MeshInv

\* All that a step can do to the relay's call: it is dialled, which needs the public
\* address, or it is the call it was; and only lockdown notes that it overtook it.
LEMMA CallStep ==
  ASSUME TypeOK, Next
  PROVE  /\ conn' /\ relay' = "port" =>
               (conn /\ relay = "port") \/ (PublicSSH(1) /\ rules' = rules)
         /\ overtaken' = overtaken \/ Darkened(1)
<1> USE NodeFacts DEF upVars, lkVars, relayVars, homeVars, histVars
<1>1. CASE Up
  <2>1. UNCHANGED <<conn, relay, overtaken>>
    BY <1>1 DEF Up, buildWindow, formMesh, injectFDB, verifyMesh, applyFirewall, applyDAI,
        injectDiscovery, writeOperatorConfig, saveManifest, launch, UpKilled, UpFrame
  <2> QED
    BY <2>1
<1>2. CASE runLockdown \/ verifyOverlay
  BY <1>2 DEF runLockdown, verifyOverlay, LkFrame
<1>3. CASE applyDenyAll
  <2>1. UNCHANGED <<conn, relay>> /\ lk.at = "apply" /\ peers' = peers
    BY <1>3 DEF applyDenyAll, LkFrame
  <2>2. \/ UNCHANGED overtaken
        \/ /\ lk.n = 1 /\ OverlaySSH(1) /\ overtaken' = (conn /\ relay = "port")
           /\ rules' = [rules EXCEPT ![1] = NFTables(lk.audit, "none", FALSE)]
    BY <1>3 DEF applyDenyAll
  <2> QED
    BY <2>1, <2>2 DEF Darkened, TypeOK
<1>4. CASE runRelayUp \/ dialRelay \/ writeRelayRecord
  BY <1>4 DEF runRelayUp, dialRelay, writeRelayRecord, RelayFrame
<1>5. CASE uploadRelay \/ provisionRelay \/ openRelayPort \/ enableRelay
  BY <1>5 DEF uploadRelay, provisionRelay, openRelayPort, enableRelay, RelayCall, HangUp,
      RelayFrame
<1>6. CASE startCluster \/ Roam \/ \E m \in Node : Reboot(m)
  <2>1. CASE startCluster \/ Roam
    BY <2>1 DEF startCluster, Roam
  <2>2. CASE \E m \in Node : Reboot(m)
    <3>1. PICK m \in Node : Reboot(m)
      BY <2>2
    <3>2. relay' = relay /\ overtaken' = overtaken /\ conn' = (conn /\ m # 1)
      BY <3>1 DEF Reboot
    <3> QED
      BY <3>2
  <2> QED
    BY <1>6, <2>1, <2>2
<1> QED
  BY <1>1, <1>2, <1>3, <1>4, <1>5, <1>6 DEF Next

\* A node goes dark only by lockdown.
LEMMA DarkBefore ==
  ASSUME PostureInv, Next, NEW n \in Node, Dark(n)'
  PROVE  Darkened(n) \/ (Dark(n) /\ (Kept(n) \/ Peered(n) \/ Inspected(n) \/ Ported(n)))
<1> USE DEF PostureInv
<1>1. ~Walled(n) /\ ~Restarted(n)
  BY DEF Walled, Restarted, NFTables, NoRules, Dark, TypeOK, Anywhere
<1>2. rules[n] \in Ruleset
  BY DEF TypeOK
<1>3. Inspected(n) \/ Ported(n) => Dark(n)
  BY <1>2 DEF Inspected, Ported, Dark, Ruleset
<1> QED
  BY <1>1, <1>3, NodeStep DEF Kept, Peered, Dark

LEMMA RelayStep ==
  ASSUME PostureInv, Next
  PROVE  RelayInv'
<1> USE DEF PostureInv
<1> SUFFICES ASSUME conn', relay' = "port", Dark(1)' PROVE overtaken'
  BY DEF RelayInv
<1>1. /\ (conn /\ relay = "port") \/ (PublicSSH(1) /\ rules' = rules)
      /\ overtaken' = overtaken \/ Darkened(1)
  BY CallStep
<1>2. conn /\ relay = "port"
  BY <1>1 DEF Dark, PublicSSH, TypeOK, Anywhere
<1>3. CASE Darkened(1)
  BY <1>2, <1>3 DEF Darkened
<1>4. CASE ~Darkened(1)
  BY <1>1, <1>2, <1>4, DarkBefore, NodeFacts DEF RelayInv
<1> QED
  BY <1>3, <1>4

\* A step leaves a closed node closed once up has ended, unless an audit-mode
\* lockdown is at it: the relay's port is opened only by a call that was overtaken,
\* or not at all where there is no ruleset.
LEMMA ClosedStep ==
  ASSUME PostureInv, Next, pc = "ended", NEW n \in Node, Closed(n),
         lk.at = "apply" /\ n = lk.n => ~lk.audit
  PROVE  Closed(n)'
<1> USE DEF PostureInv
<1>1. overtaken' = overtaken \/ Darkened(1)
  BY CallStep
<1>2. CASE Darkened(n)
  BY <1>2 DEF Darkened, Closed, Dark, NFTables, TypeOK
<1>3. CASE Restarted(n)
  BY <1>3 DEF Restarted, Closed
<1>4. CASE Ported(n)
  <2>1. rules[n] \in Ruleset /\ n = 1 /\ conn /\ relay = "port" /\ rules[n].policy # "none"
    BY <1>4 DEF TypeOK, Ported
  <2>2. Dark(n) /\ overtaken
    BY <2>1 DEF Closed, NoRules, RelayInv
  <2>3. ~Darkened(1)
    BY <1>4, <2>1 DEF Darkened, Ported, NFTables, Ruleset, Dark
  <2> QED
    BY <1>1, <1>4, <2>1, <2>2, <2>3 DEF Ported, Closed, Dark, Ruleset
<1>5. CASE Kept(n) /\ ~Darkened(n)
  BY <1>1, <1>5 DEF Kept, Closed, Dark
<1> QED
  BY <1>2, <1>3, <1>4, <1>5, NodeStep DEF Peered, Walled, Inspected

\* All that a step can do to lockdown's own place.
LEMMA LockStep ==
  ASSUME TypeOK, Next
  PROVE  \/ UNCHANGED <<lk, exit>>
         \/ /\ pc = "ended" /\ lk.at = "no" /\ lk'.at = "verify" /\ exit' = "none"
         \/ /\ lk.at = "verify" /\ exit' = exit /\ lk' = Verified
         \/ /\ lk.at # "no" /\ lk'.at = "no" /\ exit' \in {"refused", "failed"}
         \/ /\ lk.at = "apply" /\ lk' = Applied
            /\ rules' = [rules EXCEPT ![lk.n] = NFTables(lk.audit, "none", FALSE)]
            /\ exit' = IF lk.n = N THEN "ok" ELSE "none"
<1> USE DEF upVars, lkVars, relayVars, homeVars, histVars
<1>1. CASE Up
  BY <1>1 DEF Up, buildWindow, formMesh, injectFDB, verifyMesh, applyFirewall,
      applyDAI, injectDiscovery, writeOperatorConfig, saveManifest, launch, UpKilled, UpFrame
<1>2. CASE runLockdown
  BY <1>2 DEF runLockdown
<1>3. CASE verifyOverlay
  BY <1>3 DEF verifyOverlay, TypeOK
<1>4. CASE applyDenyAll
  BY <1>4 DEF applyDenyAll, TypeOK
<1>5. CASE runRelayUp \/ dialRelay \/ uploadRelay \/ provisionRelay \/ openRelayPort
           \/ enableRelay \/ writeRelayRecord
  BY <1>5 DEF runRelayUp, dialRelay, uploadRelay, provisionRelay, openRelayPort, enableRelay,
      writeRelayRecord, RelayCall, RelayFrame
<1>6. CASE startCluster \/ Roam \/ \E m \in Node : Reboot(m)
  BY <1>6 DEF startCluster, Roam, Reboot
<1> QED
  BY <1>1, <1>2, <1>3, <1>4, <1>5, <1>6 DEF Next

LEMMA LockdownStep ==
  ASSUME PostureInv, Next
  PROVE  LockdownInv'
<1> USE DEF PostureInv
<1>1. pc = "ended" => pc' = "ended"
  BY UpStep
<1>2. lk.at = "verify" /\ lk' = Verified => lk'.at # "no"
  BY DEF Verified, TypeOK
<1>3. lk' = Applied /\ lk'.at # "no" => lk.n # N
  BY DEF Applied, TypeOK, Node
<1> QED
  BY <1>1, <1>2, <1>3, LockStep DEF LockdownInv

LEMMA ProgressStep ==
  ASSUME PostureInv, Next
  PROVE  ProgressInv'
<1> USE DEF PostureInv
<1> SUFFICES ASSUME lk'.at = "apply", ~lk'.audit, NEW n \in Node, n < lk'.n
             PROVE  Closed(n)'
  BY DEF ProgressInv
<1>1. CASE UNCHANGED <<lk, exit>>
  BY <1>1, ClosedStep DEF ProgressInv, LockdownInv
<1>2. ASSUME lk.at = "verify", lk' = Verified PROVE FALSE
  BY <1>2, NodeFacts DEF Verified, TypeOK, Node
<1>3. ASSUME lk.at = "apply", lk' = Applied,
             rules' = [rules EXCEPT ![lk.n] = NFTables(lk.audit, "none", FALSE)]
      PROVE  Closed(n)'
  <2>1. lk' = [lk EXCEPT !.n = lk.n + 1]
    BY <1>3 DEF Applied, TypeOK
  <2>2. ~lk.audit /\ (n < lk.n \/ n = lk.n)
    BY <2>1 DEF TypeOK, Node
  <2>3. CASE n < lk.n
    BY <1>3, <2>2, <2>3, ClosedStep DEF ProgressInv, LockdownInv
  <2>4. CASE n = lk.n
    BY <1>3, <2>2, <2>4 DEF Closed, Dark, NFTables, TypeOK
  <2> QED
    BY <2>2, <2>3, <2>4
<1> QED
  BY <1>1, <1>2, <1>3, LockStep

LEMMA DarkStep ==
  ASSUME PostureInv, Next
  PROVE  DarkAfterLockdown'
<1> USE DEF PostureInv
<1> SUFFICES ASSUME exit' = "ok", lk'.at = "no", ~lk'.audit, NEW n \in Node
             PROVE  Closed(n)'
  BY DEF DarkAfterLockdown, Closed, Dark
<1>1. CASE UNCHANGED <<lk, exit>>
  <2>1. pc = "ended" /\ Closed(n)
    BY <1>1 DEF DarkAfterLockdown, Closed, Dark, LockdownInv
  <2> QED
    BY <1>1, <2>1, ClosedStep
<1>2. ASSUME lk.at = "verify", exit' = exit PROVE FALSE
  BY <1>2 DEF LockdownInv
<1>3. ASSUME lk.at = "apply", lk' = Applied, lk.n = N,
             rules' = [rules EXCEPT ![lk.n] = NFTables(lk.audit, "none", FALSE)]
      PROVE  Closed(n)'
  <2>1. ~lk.audit
    BY <1>3 DEF Applied, TypeOK, Node
  <2>2. n < lk.n \/ n = lk.n
    BY <1>3 DEF Node
  <2>3. CASE n < lk.n
    BY <1>3, <2>1, <2>3, ClosedStep DEF ProgressInv, LockdownInv
  <2>4. CASE n = lk.n
    BY <1>3, <2>1, <2>4 DEF Closed, Dark, NFTables, TypeOK
  <2> QED
    BY <2>2, <2>3, <2>4
<1> QED
  BY <1>1, <1>2, <1>3, LockStep

\* up's ruleset goes to a node that is in the mesh, lockdown's to one that just
\* answered over it, and peers are set while no ruleset is loaded.
LEMMA WayInStep ==
  ASSUME PostureInv, Next
  PROVE  NeverLockedOut'
<1> USE DEF PostureInv
<1> DEFINE Window == {"fw", "dai", "disc", "config", "ended"}
           Way(n) == \/ OverlaySSH(n)
                     \/ /\ rules[n].ssh # "none"
                        /\ n \in rebooted \/ (Op \in peers[n] /\ ~saved /\ pc \in Window)
<1> SUFFICES ASSUME NEW n \in Node, rules'[n].policy = "drop", rules'[n].ssh # Anywhere
             PROVE  Way(n)'
  BY DEF NeverLockedOut
<1>1. rebooted \subseteq rebooted' /\ (saved => saved')
  BY NodeStep, UpStep
<1>2. pc \in Window /\ ~saved' => pc' \in Window
  BY UpStep DEF Forward, Degraded, Following
<1>3. rules[n] \in Ruleset
  BY DEF TypeOK
<1>4. CASE Kept(n) \/ Inspected(n) \/ Ported(n)
  <2>1. /\ rules'[n].policy = rules[n].policy /\ rules'[n].ssh = rules[n].ssh
        /\ peers'[n] = peers[n]
    BY <1>3, <1>4 DEF Kept, Inspected, Ported, Ruleset
  <2>2. Way(n)
    BY <2>1 DEF NeverLockedOut
  <2> QED
    BY <1>1, <1>2, <2>1, <2>2 DEF OverlaySSH
<1>5. ~Peered(n)
  BY DEF Peered, QuietInv, BeforeFirewall
<1>6. CASE Walled(n)
  <2>1. pc = "fw" /\ peers'[n] = peers[n] /\ rules'[n].ssh # "none"
    BY <1>6 DEF Walled, NFTables, TypeOK
  <2>2. Meshed(n)
    BY <2>1 DEF MeshInv
  <2> QED
    BY <1>1, <1>2, <2>1, <2>2 DEF Meshed, OverlaySSH
<1>7. CASE Darkened(n)
  BY <1>1, <1>7 DEF Darkened, OverlaySSH
<1>8. ~Restarted(n)
  BY DEF Restarted, NoRules
<1> QED
  BY <1>4, <1>5, <1>6, <1>7, <1>8, NodeStep

-----------------------------------------------------------------------------
LEMMA PostureInit == Init => PostureInv
<1> SUFFICES ASSUME Init PROVE PostureInv
  OBVIOUS
<1>1. TypeOK
  BY NodeFacts, RulesetTypes DEF Init, TypeOK, Phase
<1>2. QuietInv /\ NeverLockedOut
  BY DEF Init, QuietInv, NeverLockedOut, NoRules
<1>3. MeshInv /\ LockdownInv /\ RelayInv /\ ProgressInv /\ DarkAfterLockdown
  BY DEF Init, MeshInv, LockdownInv, RelayInv, ProgressInv, DarkAfterLockdown
<1> QED
  BY <1>1, <1>2, <1>3 DEF PostureInv

LEMMA PostureStep == PostureInv /\ [Next]_vars => PostureInv'
<1> SUFFICES ASSUME PostureInv, [Next]_vars PROVE PostureInv'
  OBVIOUS
<1>1. TypeOK'
  BY TypeStep DEF PostureInv
<1>2. CASE Next
  BY <1>1, <1>2, QuietStep, MeshStep, LockdownStep, RelayStep, ProgressStep, DarkStep, WayInStep
      DEF PostureInv
<1>3. CASE UNCHANGED vars
  BY <1>3 DEF vars, upVars, lkVars, relayVars, nodeVars, homeVars, histVars, PostureInv,
      TypeOK, QuietInv, MeshInv, Meshed, LockdownInv, RelayInv, Dark, ProgressInv, Closed,
      NeverLockedOut, OverlaySSH, DarkAfterLockdown
<1> QED
  BY <1>2, <1>3

LEMMA PostureInvariant == Spec => []PostureInv
  BY PostureInit, PostureStep, PTL DEF Spec

\* Every variable of the posture keeps its type through up, lockdown, relay up,
\* start and reboots.
THEOREM PostureTypes == Spec => []TypeOK
<1>1. PostureInv => TypeOK
  BY DEF PostureInv
<1> QED
  BY <1>1, PostureInvariant, PTL

\* "You cannot lock yourself out": whatever fails, is interrupted or reboots, a
\* node that closes or narrows public SSH is one the operator reaches over
\* WireGuard, with a key it has; only a node that rebooted between up's mesh and its
\* firewall, and those of an up that ended before it wrote the operator's config,
\* are not, and they still admit the operator's address.
THEOREM OperatorKeepsAWayIn == Spec => []NeverLockedOut
<1>1. PostureInv => NeverLockedOut
  BY DEF PostureInv
<1> QED
  BY <1>1, PostureInvariant, PTL

\* After a lockdown that exited 0 no node has a public port open but WireGuard's,
\* whatever a relay up that ran beside it did, unless the very call that opens the
\* relay's port had dialled before lockdown closed the node.
THEOREM LockdownHolds == Spec => []DarkAfterLockdown
<1>1. PostureInv => DarkAfterLockdown
  BY DEF PostureInv
<1> QED
  BY <1>1, PostureInvariant, PTL

\* While up is at work no step of it, of a lockdown or of a relay flushes ARP
\* inspection that was loaded: the firewall's phase is over by then.
THEOREM InspectionHolds == Spec => InspectionStays
<1>1. ASSUME PostureInv, [Next]_vars, NEW n \in Node, pc # "ended", rules[n].dai
      PROVE  rules'[n].dai \/ rules'[n] = NoRules
  <2>1. CASE UNCHANGED vars
    BY <1>1, <2>1 DEF vars, nodeVars
  <2>2. CASE Next
    <3>1. ~Walled(n) /\ ~Darkened(n)
      BY <1>1 DEF Walled, Darkened, PostureInv, QuietInv, LockdownInv
    <3>2. rules[n] \in Ruleset
      BY <1>1 DEF PostureInv, TypeOK
    <3>3. Inspected(n) \/ Ported(n) => rules'[n].dai
      BY <1>1, <3>2 DEF Inspected, Ported, Ruleset
    <3>4. Kept(n) \/ Peered(n) => rules'[n].dai
      BY <1>1 DEF Kept, Peered
    <3>5. Restarted(n) => rules'[n] = NoRules
      BY DEF Restarted
    <3> QED
      BY <1>1, <2>2, <3>1, <3>3, <3>4, <3>5, NodeStep DEF PostureInv
  <2> QED
    BY <1>1, <2>1, <2>2
<1>2. PostureInv /\ [Next]_vars =>
        [\A n \in Node : pc # "ended" /\ rules[n].dai
                           => rules'[n].dai \/ rules'[n] = NoRules]_vars
  BY <1>1
<1> QED
  BY <1>2, PostureInvariant, PTL DEF Spec, InspectionStays

=============================================================================
