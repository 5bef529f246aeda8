---------------------------- MODULE GrantsProofs ----------------------------
(***************************************************************************)
(* Proofs about Grants: however share commands, unshare, down, lockdown,   *)
(* reboots and guests interleave, no grant escapes the records, no later   *)
(* share takes the address of a recorded one and nobody gets in on a grant *)
(* that is over, for any set of share ids and any range of addresses.      *)
(***************************************************************************)
EXTENDS Grants, WellFoundedInduction, TLAPS

\* s has something on a node.
OnNode(s) == s \in key \cup pidFile \cup spool \/ \E a \in Addr : route[a] = s

\* What the state of a share's command says about the share: its kind and its
\* address; that it is recorded, and revoked, only once it is live; and that it
\* has nothing on the nodes before its script has run.
StageInv ==
    \A s \in Share :
        /\ st[s] = "new" => kind[s] = "none"
        /\ st[s] \in {"alloc", "granted"} => kind[s] = "debug"
        /\ st[s] \in {"keyed", "spooled"} => kind[s] = "relay"
        /\ kind[s] = "debug" => addr[s] \in Addr
        /\ s \in rec \cup cut \cup swept => st[s] = "live"
        /\ rev[s] # "no" => s \in rec
        /\ rev[s] = "relay" => kind[s] = "relay"
        /\ st[s] \in {"new", "alloc"} => ~OnNode(s)

\* Destroyed nodes hold nothing; only debug shares have a peer; a key line or a
\* session file that a revocation removed is gone for good.
NodesInv ==
    /\ ~alive => \A s \in Share : ~OnNode(s)
    /\ \A a \in Addr : route[a] # NoShare => kind[route[a]] = "debug"
    /\ cut \cap key = {}
    /\ swept \cap spool = {}

\* A revocation has taken off what it has passed, or knows that it has not.
RevokeInv ==
    \A s \in Share \ loose :
        /\ rev[s] = "relay" => s \notin key
        /\ rev[s] = "record" => ~OnNode(s)

\* Two debug shares in the making raced, and so did one in the making and a
\* recorded one that has the same address.
RaceInv ==
    \A s, t \in Share :
        /\ alive /\ s # t /\ kind[s] = "debug" /\ kind[t] = "debug"
        /\ st[t] \in Making
        /\ st[s] \in Making \/ (s \in rec /\ addr[s] = addr[t])
        => s \in raced /\ t \in raced

\* OwnAddress, from the moment the peer is set.
HeldInv ==
    \A s \in Share :
        /\ kind[s] = "debug" /\ alive
        /\ st[s] = "granted" \/ (st[s] = "live" /\ s \in rec)
        => \/ route[addr[s]] = s
           \/ route[addr[s]] = NoShare /\ s \in lost \cup cut \cup raced
           \/ route[addr[s]] \in raced /\ s \in raced

\* The inductive invariant.
GrantsInv ==
    TypeOK /\ Accounted /\ StageInv /\ NodesInv /\ RevokeInv /\ RaceInv /\ HeldInv

-----------------------------------------------------------------------------
USE GrantsAssumption

\* A nonempty set of guest addresses has a highest one, so allocGuestIP finds it.
LEMMA Highest ==
  ASSUME NEW T \in SUBSET Addr, T # {}
  PROVE  \E a \in T : \A b \in T : b <= a
<1> DEFINE below == {GuestHi - a : a \in T}
<1>1. T \subseteq Nat /\ \A a \in T : a <= GuestHi
  BY DEF Addr
<1>2. below \subseteq Nat /\ below # {}
  <2>1. \A a \in T : GuestHi - a \in Nat
    BY <1>1
  <2> QED
    BY <2>1
<1>3. PICK x \in below : \A y \in below : ~(<<y, x>> \in OpToRel(<, Nat))
  BY <1>2, NatLessThanWellFounded, WFMin
<1>4. \A y \in below : ~(y < x)
  BY <1>2, <1>3 DEF OpToRel
<1>5. PICK a \in T : x = GuestHi - a
  OBVIOUS
<1>6. ASSUME NEW b \in T PROVE b <= a
  <2>1. ~(GuestHi - b < GuestHi - a)
    BY <1>4, <1>5
  <2> QED
    BY <1>1, <2>1
<1> QED
  BY <1>6

LEMMA AllocTyped ==
  ASSUME freeGuestIPs # {}
  PROVE  allocGuestIP \in freeGuestIPs /\ allocGuestIP \in Addr
<1>1. freeGuestIPs \in SUBSET Addr
  BY DEF freeGuestIPs
<1>2. \E a \in freeGuestIPs : \A b \in freeGuestIPs : b <= a
  BY <1>1, Highest
<1> QED
  BY <1>1, <1>2 DEF allocGuestIP

LEMMA GrantsInit == Init => GrantsInv
<1> SUFFICES ASSUME Init PROVE GrantsInv
  OBVIOUS
<1>1. TypeOK
  BY DEF Init, TypeOK, Status, DebugShare, RelayShare, Machine
<1>2. \A s \in Share : ~OnNode(s)
  BY DEF Init, OnNode
<1>3. StageInv /\ NodesInv
  BY <1>2 DEF Init, StageInv, NodesInv
<1>4. Accounted /\ RevokeInv /\ RaceInv /\ HeldInv
  BY DEF Init, Accounted, OnNodes, RevokeInv, RaceInv, HeldInv, Making
<1> QED
  BY <1>1, <1>3, <1>4 DEF GrantsInv

\* The two scripts, once it is known how far they ran.
provisioned(s, done) ==
    /\ pidFile' = IF done >= 1 THEN pidFile \cup {s} ELSE pidFile
    /\ key' = IF done >= 2 THEN key \cup {s} ELSE key
    /\ IF done = 3 THEN SetPeer(s) ELSE UNCHANGED route
    /\ \/ done = 3 /\ To(s, "granted") /\ UNCHANGED loose
       \/ To(s, "ended") /\ loose' = IF done = 0 THEN loose ELSE loose \cup {s}
    /\ ~Reachable("target") => done = 0

revoked(s, done) ==
    /\ key' = IF done >= 1 THEN key \ {s} ELSE key
    /\ cut' = IF done >= 1 THEN cut \cup {s} ELSE cut
    /\ pidFile' = IF done >= 2 THEN pidFile \ {s} ELSE pidFile
    /\ IF done = 3
       THEN RemovePeer(s) /\ sess' = sess \ {s} /\ UNCHANGED loose
       ELSE UNCHANGED <<route, sess>> /\ Missed(s)

\* Every variable keeps its type.
LEMMA TypeStep ==
  ASSUME GrantsInv, Next
  PROVE  TypeOK'
<1> USE DEF GrantsInv, TypeOK, DebugShare, RelayShare, Status, machines, node, hist, To
<1>1. ASSUME NEW s \in Share, runDebugShare(s) PROVE TypeOK'
  <2>1. allocGuestIP \in Addr
    BY <1>1, AllocTyped DEF runDebugShare
  <2>2. kind[s] = "none"
    BY <1>1 DEF runDebugShare, StageInv
  <2>3. raced' \subseteq Share
    BY <1>1 DEF runDebugShare
  <2>4. addr' \in [Share -> Addr \cup {0}] /\ st' \in [Share -> Status]
    BY <1>1, <2>1 DEF runDebugShare
  <2> QED
    BY <1>1, <2>2, <2>3, <2>4 DEF runDebugShare
<1>2. ASSUME NEW s \in Share, provisionScript(s) PROVE TypeOK'
  <2>1. PICK done \in 0..3 : provisioned(s, done)
    BY <1>2 DEF provisionScript, provisioned
  <2>2. kind[s] = "debug" /\ addr[s] \in Addr
    BY <1>2 DEF provisionScript, StageInv
  <2>3. route' \in [Addr -> Share \cup {NoShare}]
    BY <2>1, <2>2 DEF provisioned, SetPeer
  <2>4. st' \in [Share -> Status]
    BY <2>1 DEF provisioned
  <2>5. pidFile' \subseteq DebugShare /\ key' \subseteq Share /\ loose' \subseteq Share
    BY <2>1, <2>2 DEF provisioned
  <2> QED
    BY <1>2, <2>3, <2>4, <2>5 DEF provisionScript
<1>3. ASSUME NEW s \in Share, saveShareRecord(s) PROVE TypeOK'
  BY <1>3 DEF saveShareRecord
<1>4. ASSUME NEW s \in Share, runRelayShare(s) PROVE TypeOK'
  <2>1. kind[s] = "none"
    BY <1>4 DEF runRelayShare, StageInv
  <2> QED
    BY <1>4, <2>1 DEF runRelayShare
<1>5. ASSUME NEW s \in Share, writeSpool(s) PROVE TypeOK'
  <2>1. kind[s] = "relay"
    BY <1>5 DEF writeSpool, StageInv
  <2> QED
    BY <1>5, <2>1 DEF writeSpool
<1>6. ASSUME NEW s \in Share, saveRelayRecord(s) PROVE TypeOK'
  BY <1>6 DEF saveRelayRecord
<1>7. ASSUME NEW s \in Share, ShareCrash(s) PROVE TypeOK'
  BY <1>7 DEF ShareCrash
<1>8. ASSUME NEW s \in Share, revokeDebug(s) PROVE TypeOK'
  <2>1. PICK done \in 0..3 : revoked(s, done)
    BY <1>8 DEF revokeDebug, revoked
  <2>2. route' \in [Addr -> Share \cup {NoShare}]
    BY <2>1 DEF revoked, RemovePeer
  <2>3. /\ pidFile' \subseteq DebugShare /\ key' \subseteq Share /\ loose' \subseteq Share
        /\ cut' \subseteq Share /\ sess' \subseteq Share
    BY <2>1 DEF revoked, Missed
  <2> QED
    BY <1>8, <2>2, <2>3 DEF revokeDebug
<1>9. ASSUME NEW s \in Share, revokeRelayKey(s) PROVE TypeOK'
  BY <1>9 DEF revokeRelayKey, Missed
<1>10. ASSUME NEW s \in Share, revokeRelaySpool(s) PROVE TypeOK'
  BY <1>10 DEF revokeRelaySpool, Missed
<1>11. ASSUME NEW s \in Share, removeRecord(s) PROVE TypeOK'
  BY <1>11 DEF removeRecord
<1>12. ASSUME NEW s \in Share, RevokeCrash(s) PROVE TypeOK'
  BY <1>12 DEF RevokeCrash
<1>13. ASSUME NEW s \in Share, debugAttach(s) PROVE TypeOK'
  BY <1>13 DEF debugAttach
<1>14. ASSUME NEW s \in Share, handleWS(s) PROVE TypeOK'
  BY <1>14 DEF handleWS, Get, GetExpired
<1>15. ASSUME NEW s \in Share, bridge(s) PROVE TypeOK'
  BY <1>15 DEF bridge
<1>16. ASSUME NEW s \in Share, SessionDeadline(s) PROVE TypeOK'
  BY <1>16 DEF SessionDeadline
<1>17. ASSUME NEW s \in Share, SessionEnds(s) PROVE TypeOK'
  BY <1>17 DEF SessionEnds
<1>18. ASSUME NEW s \in Share, Expire(s) PROVE TypeOK'
  BY <1>18 DEF Expire
<1>19. ASSUME NEW s \in Share, Forget(s) PROVE TypeOK'
  BY <1>19 DEF Forget
<1>20. ASSUME NEW S \in SUBSET rec, Unshare(S) PROVE TypeOK'
  BY <1>20 DEF Unshare
<1>21. ASSUME Down PROVE TypeOK'
  BY <1>21 DEF Down
<1>22. ASSUME reapShares PROVE TypeOK'
  BY <1>22 DEF reapShares
<1>23. ASSUME Lockdown PROVE TypeOK'
  BY <1>23 DEF Lockdown
<1>24. ASSUME Reap PROVE TypeOK'
  BY <1>24 DEF Reap, Expired
<1>25. ASSUME NEW m \in Machine, Reboot(m) PROVE TypeOK'
  <2>1. open' \subseteq Machine /\ mesh' \in BOOLEAN
    BY <1>25 DEF Reboot
  <2>2. route' \in [Addr -> Share \cup {NoShare}] /\ lost' \subseteq Share
    BY <1>25 DEF Reboot
  <2>3. opening' \subseteq RelayShare /\ sess' \subseteq Share
    BY <1>25 DEF Reboot
  <2> QED
    BY <1>25, <2>1, <2>2, <2>3 DEF Reboot
<1> QED
  BY <1>1, <1>2, <1>3, <1>4, <1>5, <1>6, <1>7, <1>8, <1>9, <1>10, <1>11,
      <1>12, <1>13, <1>14, <1>15, <1>16, <1>17, <1>18, <1>19, <1>20, <1>21, <1>22,
      <1>23, <1>24, <1>25 DEF Next

\* A share command goes through its states in order and unshare works from its
\* record.
LEMMA StageStep ==
  ASSUME GrantsInv, Next
  PROVE  StageInv'
<1> USE DEF GrantsInv, TypeOK, StageInv, OnNode, DebugShare, RelayShare, machines, node, hist, To
<1>1. ASSUME NEW s \in Share, runDebugShare(s) PROVE StageInv'
  <2>1. allocGuestIP \in Addr
    BY <1>1, AllocTyped DEF runDebugShare
  <2> QED
    BY <1>1, <2>1 DEF runDebugShare
<1>2. ASSUME NEW s \in Share, provisionScript(s) PROVE StageInv'
  <2>1. PICK done \in 0..3 : provisioned(s, done)
    BY <1>2 DEF provisionScript, provisioned
  <2>2. st[s] = "alloc" /\ kind[s] = "debug" /\ addr[s] \in Addr
    BY <1>2 DEF provisionScript
  <2> QED
    BY <1>2, <2>1, <2>2 DEF provisionScript, provisioned, SetPeer, Reachable
<1>3. ASSUME NEW s \in Share, saveShareRecord(s) PROVE StageInv'
  BY <1>3 DEF saveShareRecord
<1>4. ASSUME NEW s \in Share, runRelayShare(s) PROVE StageInv'
  BY <1>4 DEF runRelayShare
<1>5. ASSUME NEW s \in Share, writeSpool(s) PROVE StageInv'
  BY <1>5 DEF writeSpool
<1>6. ASSUME NEW s \in Share, saveRelayRecord(s) PROVE StageInv'
  BY <1>6 DEF saveRelayRecord
<1>7. ASSUME NEW s \in Share, ShareCrash(s) PROVE StageInv'
  BY <1>7 DEF ShareCrash, Making
<1>8. ASSUME NEW s \in Share, revokeDebug(s) PROVE StageInv'
  <2>1. PICK done \in 0..3 : revoked(s, done)
    BY <1>8 DEF revokeDebug, revoked
  <2>2. kind[s] = "debug" /\ s \in rec /\ st[s] = "live"
    BY <1>8 DEF revokeDebug
  <2> QED
    BY <1>8, <2>1, <2>2 DEF revokeDebug, revoked, RemovePeer, Missed
<1>9. ASSUME NEW s \in Share, revokeRelayKey(s) PROVE StageInv'
  BY <1>9 DEF revokeRelayKey
<1>10. ASSUME NEW s \in Share, revokeRelaySpool(s) PROVE StageInv'
  BY <1>10 DEF revokeRelaySpool
<1>11. ASSUME NEW s \in Share, removeRecord(s) PROVE StageInv'
  BY <1>11 DEF removeRecord
<1>12. ASSUME NEW s \in Share, RevokeCrash(s) PROVE StageInv'
  BY <1>12 DEF RevokeCrash
<1>13. ASSUME NEW s \in Share, debugAttach(s) PROVE StageInv'
  BY <1>13 DEF debugAttach
<1>14. ASSUME NEW s \in Share, handleWS(s) PROVE StageInv'
  BY <1>14 DEF handleWS, Get, GetExpired
<1>15. ASSUME NEW s \in Share, bridge(s) PROVE StageInv'
  BY <1>15 DEF bridge
<1>16. ASSUME NEW s \in Share, SessionDeadline(s) PROVE StageInv'
  BY <1>16 DEF SessionDeadline
<1>17. ASSUME NEW s \in Share, SessionEnds(s) PROVE StageInv'
  BY <1>17 DEF SessionEnds
<1>18. ASSUME NEW s \in Share, Expire(s) PROVE StageInv'
  BY <1>18 DEF Expire
<1>19. ASSUME NEW s \in Share, Forget(s) PROVE StageInv'
  BY <1>19 DEF Forget
<1>20. ASSUME NEW S \in SUBSET rec, Unshare(S) PROVE StageInv'
  BY <1>20 DEF Unshare
<1>21. ASSUME Down PROVE StageInv'
  BY <1>21 DEF Down
<1>22. ASSUME reapShares PROVE StageInv'
  BY <1>22 DEF reapShares
<1>23. ASSUME Lockdown PROVE StageInv'
  BY <1>23 DEF Lockdown
<1>24. ASSUME Reap PROVE StageInv'
  BY <1>24 DEF Reap, Expired
<1>25. ASSUME NEW m \in Machine, Reboot(m) PROVE StageInv'
  BY <1>25 DEF Reboot, Machine
<1> QED
  BY <1>1, <1>2, <1>3, <1>4, <1>5, <1>6, <1>7, <1>8, <1>9, <1>10, <1>11,
      <1>12, <1>13, <1>14, <1>15, <1>16, <1>17, <1>18, <1>19, <1>20, <1>21, <1>22,
      <1>23, <1>24, <1>25 DEF Next

\* Nothing is put on a destroyed node, and nothing that was revoked is put back.
LEMMA NodesStep ==
  ASSUME GrantsInv, Next
  PROVE  NodesInv'
<1> USE DEF GrantsInv, TypeOK, StageInv, NodesInv, OnNode, DebugShare,
        RelayShare, machines, node, hist, To
<1>1. ASSUME NEW s \in Share, runDebugShare(s) PROVE NodesInv'
  BY <1>1 DEF runDebugShare
<1>2. ASSUME NEW s \in Share, provisionScript(s) PROVE NodesInv'
  <2>1. PICK done \in 0..3 : provisioned(s, done)
    BY <1>2 DEF provisionScript, provisioned
  <2>2. st[s] = "alloc" /\ kind[s] = "debug" /\ addr[s] \in Addr
    BY <1>2 DEF provisionScript
  <2> QED
    BY <1>2, <2>1, <2>2 DEF provisionScript, provisioned, SetPeer, Reachable
<1>3. ASSUME NEW s \in Share, saveShareRecord(s) PROVE NodesInv'
  BY <1>3 DEF saveShareRecord
<1>4. ASSUME NEW s \in Share, runRelayShare(s) PROVE NodesInv'
  BY <1>4 DEF runRelayShare, Reachable
<1>5. ASSUME NEW s \in Share, writeSpool(s) PROVE NodesInv'
  BY <1>5 DEF writeSpool, Reachable
<1>6. ASSUME NEW s \in Share, saveRelayRecord(s) PROVE NodesInv'
  BY <1>6 DEF saveRelayRecord
<1>7. ASSUME NEW s \in Share, ShareCrash(s) PROVE NodesInv'
  BY <1>7 DEF ShareCrash
<1>8. ASSUME NEW s \in Share, revokeDebug(s) PROVE NodesInv'
  <2>1. PICK done \in 0..3 : revoked(s, done)
    BY <1>8 DEF revokeDebug, revoked
  <2>2. kind[s] = "debug" /\ s \in rec /\ st[s] = "live"
    BY <1>8 DEF revokeDebug
  <2> QED
    BY <1>8, <2>1, <2>2 DEF revokeDebug, revoked, RemovePeer, Missed
<1>9. ASSUME NEW s \in Share, revokeRelayKey(s) PROVE NodesInv'
  BY <1>9 DEF revokeRelayKey
<1>10. ASSUME NEW s \in Share, revokeRelaySpool(s) PROVE NodesInv'
  BY <1>10 DEF revokeRelaySpool
<1>11. ASSUME NEW s \in Share, removeRecord(s) PROVE NodesInv'
  BY <1>11 DEF removeRecord
<1>12. ASSUME NEW s \in Share, RevokeCrash(s) PROVE NodesInv'
  BY <1>12 DEF RevokeCrash
<1>13. ASSUME NEW s \in Share, debugAttach(s) PROVE NodesInv'
  BY <1>13 DEF debugAttach
<1>14. ASSUME NEW s \in Share, handleWS(s) PROVE NodesInv'
  BY <1>14 DEF handleWS, Get, GetExpired
<1>15. ASSUME NEW s \in Share, bridge(s) PROVE NodesInv'
  BY <1>15 DEF bridge
<1>16. ASSUME NEW s \in Share, SessionDeadline(s) PROVE NodesInv'
  BY <1>16 DEF SessionDeadline
<1>17. ASSUME NEW s \in Share, SessionEnds(s) PROVE NodesInv'
  BY <1>17 DEF SessionEnds
<1>18. ASSUME NEW s \in Share, Expire(s) PROVE NodesInv'
  BY <1>18 DEF Expire
<1>19. ASSUME NEW s \in Share, Forget(s) PROVE NodesInv'
  BY <1>19 DEF Forget
<1>20. ASSUME NEW S \in SUBSET rec, Unshare(S) PROVE NodesInv'
  BY <1>20 DEF Unshare
<1>21. ASSUME Down PROVE NodesInv'
  BY <1>21 DEF Down
<1>22. ASSUME reapShares PROVE NodesInv'
  BY <1>22 DEF reapShares
<1>23. ASSUME Lockdown PROVE NodesInv'
  BY <1>23 DEF Lockdown
<1>24. ASSUME Reap PROVE NodesInv'
  BY <1>24 DEF Reap, Expired
<1>25. ASSUME NEW m \in Machine, Reboot(m) PROVE NodesInv'
  BY <1>25 DEF Reboot, Machine
<1> QED
  BY <1>1, <1>2, <1>3, <1>4, <1>5, <1>6, <1>7, <1>8, <1>9, <1>10, <1>11,
      <1>12, <1>13, <1>14, <1>15, <1>16, <1>17, <1>18, <1>19, <1>20, <1>21, <1>22,
      <1>23, <1>24, <1>25 DEF Next

\* A live share gets nothing new on the nodes while it is being revoked.
LEMMA RevokeStep ==
  ASSUME GrantsInv, Next
  PROVE  RevokeInv'
<1> USE DEF GrantsInv, TypeOK, StageInv, NodesInv, RevokeInv, OnNode,
        DebugShare, RelayShare, machines, node, hist, To
<1>1. ASSUME NEW s \in Share, runDebugShare(s) PROVE RevokeInv'
  BY <1>1 DEF runDebugShare
<1>2. ASSUME NEW s \in Share, provisionScript(s) PROVE RevokeInv'
  <2>1. PICK done \in 0..3 : provisioned(s, done)
    BY <1>2 DEF provisionScript, provisioned
  <2>2. st[s] = "alloc" /\ kind[s] = "debug" /\ addr[s] \in Addr
    BY <1>2 DEF provisionScript
  <2> QED
    BY <1>2, <2>1, <2>2 DEF provisionScript, provisioned, SetPeer, Reachable
<1>3. ASSUME NEW s \in Share, saveShareRecord(s) PROVE RevokeInv'
  BY <1>3 DEF saveShareRecord
<1>4. ASSUME NEW s \in Share, runRelayShare(s) PROVE RevokeInv'
  BY <1>4 DEF runRelayShare
<1>5. ASSUME NEW s \in Share, writeSpool(s) PROVE RevokeInv'
  BY <1>5 DEF writeSpool
<1>6. ASSUME NEW s \in Share, saveRelayRecord(s) PROVE RevokeInv'
  BY <1>6 DEF saveRelayRecord
<1>7. ASSUME NEW s \in Share, ShareCrash(s) PROVE RevokeInv'
  BY <1>7 DEF ShareCrash
<1>8. ASSUME NEW s \in Share, revokeDebug(s) PROVE RevokeInv'
  <2>1. PICK done \in 0..3 : revoked(s, done)
    BY <1>8 DEF revokeDebug, revoked
  <2>2. kind[s] = "debug" /\ s \in rec /\ st[s] = "live"
    BY <1>8 DEF revokeDebug
  <2> QED
    BY <1>8, <2>1, <2>2 DEF revokeDebug, revoked, RemovePeer, Missed
<1>9. ASSUME NEW s \in Share, revokeRelayKey(s) PROVE RevokeInv'
  BY <1>9 DEF revokeRelayKey, Missed, Reachable
<1>10. ASSUME NEW s \in Share, revokeRelaySpool(s) PROVE RevokeInv'
  BY <1>10 DEF revokeRelaySpool, Missed, Reachable
<1>11. ASSUME NEW s \in Share, removeRecord(s) PROVE RevokeInv'
  BY <1>11 DEF removeRecord
<1>12. ASSUME NEW s \in Share, RevokeCrash(s) PROVE RevokeInv'
  BY <1>12 DEF RevokeCrash
<1>13. ASSUME NEW s \in Share, debugAttach(s) PROVE RevokeInv'
  BY <1>13 DEF debugAttach
<1>14. ASSUME NEW s \in Share, handleWS(s) PROVE RevokeInv'
  BY <1>14 DEF handleWS, Get, GetExpired
<1>15. ASSUME NEW s \in Share, bridge(s) PROVE RevokeInv'
  BY <1>15 DEF bridge
<1>16. ASSUME NEW s \in Share, SessionDeadline(s) PROVE RevokeInv'
  BY <1>16 DEF SessionDeadline
<1>17. ASSUME NEW s \in Share, SessionEnds(s) PROVE RevokeInv'
  BY <1>17 DEF SessionEnds
<1>18. ASSUME NEW s \in Share, Expire(s) PROVE RevokeInv'
  BY <1>18 DEF Expire
<1>19. ASSUME NEW s \in Share, Forget(s) PROVE RevokeInv'
  BY <1>19 DEF Forget
<1>20. ASSUME NEW S \in SUBSET rec, Unshare(S) PROVE RevokeInv'
  BY <1>20 DEF Unshare
<1>21. ASSUME Down PROVE RevokeInv'
  BY <1>21 DEF Down
<1>22. ASSUME reapShares PROVE RevokeInv'
  BY <1>22 DEF reapShares
<1>23. ASSUME Lockdown PROVE RevokeInv'
  BY <1>23 DEF Lockdown
<1>24. ASSUME Reap PROVE RevokeInv'
  BY <1>24 DEF Reap, Expired
<1>25. ASSUME NEW m \in Machine, Reboot(m) PROVE RevokeInv'
  BY <1>25 DEF Reboot, Machine
<1> QED
  BY <1>1, <1>2, <1>3, <1>4, <1>5, <1>6, <1>7, <1>8, <1>9, <1>10, <1>11,
      <1>12, <1>13, <1>14, <1>15, <1>16, <1>17, <1>18, <1>19, <1>20, <1>21, <1>22,
      <1>23, <1>24, <1>25 DEF Next

\* An address is allocated among those that no record names, at a moment when the
\* shares in the making are known.
LEMMA RaceStep ==
  ASSUME GrantsInv, Next
  PROVE  RaceInv'
<1> USE DEF GrantsInv, TypeOK, StageInv, RaceInv, DebugShare, RelayShare,
        machines, node, hist, To, Making
<1>1. ASSUME NEW s \in Share, runDebugShare(s) PROVE RaceInv'
  <2>1. \A t \in rec \cap DebugShare : addr[t] # allocGuestIP
    BY <1>1, AllocTyped DEF runDebugShare, freeGuestIPs
  <2> QED
    BY <1>1, <2>1 DEF runDebugShare
<1>2. ASSUME NEW s \in Share, provisionScript(s) PROVE RaceInv'
  BY <1>2 DEF provisionScript
<1>3. ASSUME NEW s \in Share, saveShareRecord(s) PROVE RaceInv'
  BY <1>3 DEF saveShareRecord
<1>4. ASSUME NEW s \in Share, runRelayShare(s) PROVE RaceInv'
  BY <1>4 DEF runRelayShare
<1>5. ASSUME NEW s \in Share, writeSpool(s) PROVE RaceInv'
  BY <1>5 DEF writeSpool
<1>6. ASSUME NEW s \in Share, saveRelayRecord(s) PROVE RaceInv'
  BY <1>6 DEF saveRelayRecord
<1>7. ASSUME NEW s \in Share, ShareCrash(s) PROVE RaceInv'
  BY <1>7 DEF ShareCrash
<1>8. ASSUME NEW s \in Share, revokeDebug(s) PROVE RaceInv'
  BY <1>8 DEF revokeDebug
<1>9. ASSUME NEW s \in Share, revokeRelayKey(s) PROVE RaceInv'
  BY <1>9 DEF revokeRelayKey
<1>10. ASSUME NEW s \in Share, revokeRelaySpool(s) PROVE RaceInv'
  BY <1>10 DEF revokeRelaySpool
<1>11. ASSUME NEW s \in Share, removeRecord(s) PROVE RaceInv'
  BY <1>11 DEF removeRecord
<1>12. ASSUME NEW s \in Share, RevokeCrash(s) PROVE RaceInv'
  BY <1>12 DEF RevokeCrash
<1>13. ASSUME NEW s \in Share, debugAttach(s) PROVE RaceInv'
  BY <1>13 DEF debugAttach
<1>14. ASSUME NEW s \in Share, handleWS(s) PROVE RaceInv'
  BY <1>14 DEF handleWS
<1>15. ASSUME NEW s \in Share, bridge(s) PROVE RaceInv'
  BY <1>15 DEF bridge
<1>16. ASSUME NEW s \in Share, SessionDeadline(s) PROVE RaceInv'
  BY <1>16 DEF SessionDeadline
<1>17. ASSUME NEW s \in Share, SessionEnds(s) PROVE RaceInv'
  BY <1>17 DEF SessionEnds
<1>18. ASSUME NEW s \in Share, Expire(s) PROVE RaceInv'
  BY <1>18 DEF Expire
<1>19. ASSUME NEW s \in Share, Forget(s) PROVE RaceInv'
  BY <1>19 DEF Forget
<1>20. ASSUME NEW S \in SUBSET rec, Unshare(S) PROVE RaceInv'
  BY <1>20 DEF Unshare
<1>21. ASSUME Down PROVE RaceInv'
  BY <1>21 DEF Down
<1>22. ASSUME reapShares PROVE RaceInv'
  BY <1>22 DEF reapShares
<1>23. ASSUME Lockdown PROVE RaceInv'
  BY <1>23 DEF Lockdown
<1>24. ASSUME Reap PROVE RaceInv'
  BY <1>24 DEF Reap, Expired
<1>25. ASSUME NEW m \in Machine, Reboot(m) PROVE RaceInv'
  BY <1>25 DEF Reboot, Machine
<1> QED
  BY <1>1, <1>2, <1>3, <1>4, <1>5, <1>6, <1>7, <1>8, <1>9, <1>10, <1>11,
      <1>12, <1>13, <1>14, <1>15, <1>16, <1>17, <1>18, <1>19, <1>20, <1>21, <1>22,
      <1>23, <1>24, <1>25 DEF Next

\* A peer set later takes another address, or its share raced the first.
LEMMA HeldStep ==
  ASSUME GrantsInv, Next
  PROVE  HeldInv'
<1> USE DEF GrantsInv, TypeOK, StageInv, HeldInv, DebugShare, RelayShare, machines, node, hist, To
<1>1. ASSUME NEW s \in Share, runDebugShare(s) PROVE HeldInv'
  BY <1>1 DEF runDebugShare
<1>2. ASSUME NEW s \in Share, provisionScript(s) PROVE HeldInv'
  <2>1. PICK done \in 0..3 : provisioned(s, done)
    BY <1>2 DEF provisionScript, provisioned
  <2>2. st[s] = "alloc" /\ kind[s] = "debug" /\ addr[s] \in Addr
    BY <1>2 DEF provisionScript
  <2> QED
    BY <1>2, <2>1, <2>2 DEF provisionScript, provisioned, SetPeer, Reachable,
        RaceInv, Making
<1>3. ASSUME NEW s \in Share, saveShareRecord(s) PROVE HeldInv'
  BY <1>3 DEF saveShareRecord
<1>4. ASSUME NEW s \in Share, runRelayShare(s) PROVE HeldInv'
  BY <1>4 DEF runRelayShare
<1>5. ASSUME NEW s \in Share, writeSpool(s) PROVE HeldInv'
  BY <1>5 DEF writeSpool
<1>6. ASSUME NEW s \in Share, saveRelayRecord(s) PROVE HeldInv'
  BY <1>6 DEF saveRelayRecord
<1>7. ASSUME NEW s \in Share, ShareCrash(s) PROVE HeldInv'
  BY <1>7 DEF ShareCrash
<1>8. ASSUME NEW s \in Share, revokeDebug(s) PROVE HeldInv'
  <2>1. PICK done \in 0..3 : revoked(s, done)
    BY <1>8 DEF revokeDebug, revoked
  <2>2. kind[s] = "debug" /\ s \in rec /\ st[s] = "live"
    BY <1>8 DEF revokeDebug
  <2> QED
    BY <1>8, <2>1, <2>2 DEF revokeDebug, revoked, RemovePeer, Missed
<1>9. ASSUME NEW s \in Share, revokeRelayKey(s) PROVE HeldInv'
  BY <1>9 DEF revokeRelayKey, Missed, Reachable
<1>10. ASSUME NEW s \in Share, revokeRelaySpool(s) PROVE HeldInv'
  BY <1>10 DEF revokeRelaySpool, Missed, Reachable
<1>11. ASSUME NEW s \in Share, removeRecord(s) PROVE HeldInv'
  BY <1>11 DEF removeRecord
<1>12. ASSUME NEW s \in Share, RevokeCrash(s) PROVE HeldInv'
  BY <1>12 DEF RevokeCrash
<1>13. ASSUME NEW s \in Share, debugAttach(s) PROVE HeldInv'
  BY <1>13 DEF debugAttach
<1>14. ASSUME NEW s \in Share, handleWS(s) PROVE HeldInv'
  BY <1>14 DEF handleWS
<1>15. ASSUME NEW s \in Share, bridge(s) PROVE HeldInv'
  BY <1>15 DEF bridge
<1>16. ASSUME NEW s \in Share, SessionDeadline(s) PROVE HeldInv'
  BY <1>16 DEF SessionDeadline
<1>17. ASSUME NEW s \in Share, SessionEnds(s) PROVE HeldInv'
  BY <1>17 DEF SessionEnds
<1>18. ASSUME NEW s \in Share, Expire(s) PROVE HeldInv'
  BY <1>18 DEF Expire
<1>19. ASSUME NEW s \in Share, Forget(s) PROVE HeldInv'
  BY <1>19 DEF Forget
<1>20. ASSUME NEW S \in SUBSET rec, Unshare(S) PROVE HeldInv'
  BY <1>20 DEF Unshare
<1>21. ASSUME Down PROVE HeldInv'
  BY <1>21 DEF Down
<1>22. ASSUME reapShares PROVE HeldInv'
  BY <1>22 DEF reapShares
<1>23. ASSUME Lockdown PROVE HeldInv'
  BY <1>23 DEF Lockdown
<1>24. ASSUME Reap PROVE HeldInv'
  BY <1>24 DEF Reap, Expired
<1>25. ASSUME NEW m \in Machine, Reboot(m) PROVE HeldInv'
  BY <1>25 DEF Reboot, Machine
<1> QED
  BY <1>1, <1>2, <1>3, <1>4, <1>5, <1>6, <1>7, <1>8, <1>9, <1>10, <1>11,
      <1>12, <1>13, <1>14, <1>15, <1>16, <1>17, <1>18, <1>19, <1>20, <1>21, <1>22,
      <1>23, <1>24, <1>25 DEF Next

\* Accounted, share by share.
AccountedFor == \A s \in Share : OnNode(s) => s \in rec \/ st[s] \in Making \/ s \in loose

LEMMA AccountedByShare == Accounted <=> AccountedFor
  BY DEF Accounted, OnNodes, OnNode, AccountedFor

\* A record goes only after a revocation that took everything off the nodes or
\* gave up on it, or with the nodes themselves.
LEMMA AccountedStep ==
  ASSUME GrantsInv, Next, AccountedFor
  PROVE  AccountedFor'
<1> USE DEF GrantsInv, TypeOK, StageInv, NodesInv, RevokeInv, AccountedFor, OnNode,
        DebugShare, RelayShare, machines, node, hist, To, Making
<1>1. ASSUME NEW s \in Share, runDebugShare(s) PROVE AccountedFor'
  BY <1>1 DEF runDebugShare
<1>2. ASSUME NEW s \in Share, provisionScript(s) PROVE AccountedFor'
  <2>1. PICK done \in 0..3 : provisioned(s, done)
    BY <1>2 DEF provisionScript, provisioned
  <2>2. st[s] = "alloc" /\ kind[s] = "debug" /\ addr[s] \in Addr
    BY <1>2 DEF provisionScript
  <2> QED
    BY <1>2, <2>1, <2>2 DEF provisionScript, provisioned, SetPeer, Reachable
<1>3. ASSUME NEW s \in Share, saveShareRecord(s) PROVE AccountedFor'
  BY <1>3 DEF saveShareRecord
<1>4. ASSUME NEW s \in Share, runRelayShare(s) PROVE AccountedFor'
  BY <1>4 DEF runRelayShare
<1>5. ASSUME NEW s \in Share, writeSpool(s) PROVE AccountedFor'
  BY <1>5 DEF writeSpool
<1>6. ASSUME NEW s \in Share, saveRelayRecord(s) PROVE AccountedFor'
  BY <1>6 DEF saveRelayRecord
<1>7. ASSUME NEW s \in Share, ShareCrash(s) PROVE AccountedFor'
  BY <1>7 DEF ShareCrash
<1>8. ASSUME NEW s \in Share, revokeDebug(s) PROVE AccountedFor'
  <2>1. PICK done \in 0..3 : revoked(s, done)
    BY <1>8 DEF revokeDebug, revoked
  <2>2. kind[s] = "debug" /\ s \in rec /\ st[s] = "live"
    BY <1>8 DEF revokeDebug
  <2> QED
    BY <1>8, <2>1, <2>2 DEF revokeDebug, revoked, RemovePeer, Missed
<1>9. ASSUME NEW s \in Share, revokeRelayKey(s) PROVE AccountedFor'
  BY <1>9 DEF revokeRelayKey, Missed, Reachable
<1>10. ASSUME NEW s \in Share, revokeRelaySpool(s) PROVE AccountedFor'
  BY <1>10 DEF revokeRelaySpool, Missed, Reachable
<1>11. ASSUME NEW s \in Share, removeRecord(s) PROVE AccountedFor'
  BY <1>11 DEF removeRecord
<1>12. ASSUME NEW s \in Share, RevokeCrash(s) PROVE AccountedFor'
  BY <1>12 DEF RevokeCrash
<1>13. ASSUME NEW s \in Share, debugAttach(s) PROVE AccountedFor'
  BY <1>13 DEF debugAttach
<1>14. ASSUME NEW s \in Share, handleWS(s) PROVE AccountedFor'
  BY <1>14 DEF handleWS, Get, GetExpired
<1>15. ASSUME NEW s \in Share, bridge(s) PROVE AccountedFor'
  BY <1>15 DEF bridge
<1>16. ASSUME NEW s \in Share, SessionDeadline(s) PROVE AccountedFor'
  BY <1>16 DEF SessionDeadline
<1>17. ASSUME NEW s \in Share, SessionEnds(s) PROVE AccountedFor'
  BY <1>17 DEF SessionEnds
<1>18. ASSUME NEW s \in Share, Expire(s) PROVE AccountedFor'
  BY <1>18 DEF Expire
<1>19. ASSUME NEW s \in Share, Forget(s) PROVE AccountedFor'
  BY <1>19 DEF Forget
<1>20. ASSUME NEW S \in SUBSET rec, Unshare(S) PROVE AccountedFor'
  BY <1>20 DEF Unshare
<1>21. ASSUME Down PROVE AccountedFor'
  BY <1>21 DEF Down
<1>22. ASSUME reapShares PROVE AccountedFor'
  BY <1>22 DEF reapShares
<1>23. ASSUME Lockdown PROVE AccountedFor'
  BY <1>23 DEF Lockdown
<1>24. ASSUME Reap PROVE AccountedFor'
  BY <1>24 DEF Reap, Expired
<1>25. ASSUME NEW m \in Machine, Reboot(m) PROVE AccountedFor'
  BY <1>25 DEF Reboot, Machine
<1> QED
  BY <1>1, <1>2, <1>3, <1>4, <1>5, <1>6, <1>7, <1>8, <1>9, <1>10, <1>11,
      <1>12, <1>13, <1>14, <1>15, <1>16, <1>17, <1>18, <1>19, <1>20, <1>21, <1>22,
      <1>23, <1>24, <1>25 DEF Next

-----------------------------------------------------------------------------
LEMMA GrantsStep == GrantsInv /\ [Next]_vars => GrantsInv'
<1> SUFFICES ASSUME GrantsInv, [Next]_vars PROVE GrantsInv'
  OBVIOUS
<1>1. CASE Next
  <2>1. Accounted'
    <3>1. AccountedFor
      BY AccountedByShare DEF GrantsInv
    <3>2. AccountedFor'
      BY <1>1, <3>1, AccountedStep
    <3>3. (Accounted <=> AccountedFor)'
      BY DEF Accounted, OnNodes, OnNode, AccountedFor
    <3> QED
      BY <3>2, <3>3
  <2> QED
    BY <1>1, <2>1, TypeStep, StageStep, NodesStep, RevokeStep, RaceStep, HeldStep
        DEF GrantsInv
<1>2. CASE UNCHANGED vars
  <2>1. /\ (TypeOK' <=> TypeOK) /\ (StageInv' <=> StageInv) /\ (NodesInv' <=> NodesInv)
    BY <1>2 DEF vars, machines, node, hist, TypeOK, StageInv, NodesInv, OnNode, DebugShare,
        RelayShare
  <2>2. /\ (Accounted' <=> Accounted) /\ (RevokeInv' <=> RevokeInv)
        /\ (RaceInv' <=> RaceInv) /\ (HeldInv' <=> HeldInv)
    BY <1>2 DEF vars, machines, node, hist, Accounted, OnNodes, RevokeInv, OnNode, RaceInv, HeldInv
  <2> QED
    BY <2>1, <2>2 DEF GrantsInv
<1> QED
  BY <1>1, <1>2

LEMMA GrantsInvariant == Spec => []GrantsInv
  BY GrantsInit, GrantsStep, PTL DEF Spec

\* Every variable of the grants keeps its type; in particular allocGuestIP
\* returns a guest address whenever one is free.
THEOREM GrantsTypes == Spec => []TypeOK
<1>1. GrantsInv => TypeOK
  BY DEF GrantsInv
<1> QED
  BY <1>1, GrantsInvariant, PTL

\* Every grant on a node has a record to revoke it by, a command still at work
\* on it, or is one the code knows it gave up on, however share, unshare,
\* lockdown and down overlap.
THEOREM GrantsAccounted == Spec => []Accounted
<1>1. GrantsInv => Accounted
  BY DEF GrantsInv
<1> QED
  BY <1>1, GrantsInvariant, PTL

\* The guest address of a recorded debug share is routed to its own peer until it is
\* revoked, or after a reboot of the target to none; never to a share that was not
\* made at the same time.
THEOREM AddressesKept == Spec => []OwnAddress
<1>1. GrantsInv => OwnAddress
  BY DEF GrantsInv, TypeOK, HeldInv, OwnAddress, DebugShare
<1> QED
  BY <1>1, GrantsInvariant, PTL

\* No session begins on an expired or revoked grant, and no request is let in
\* once the session file was removed.
THEOREM NoWayBackIn == Spec => NoWayBack
<1> DEFINE A == /\ \A s \in sess' \ sess : s \notin past \cup cut
                /\ \A s \in opening' \ opening : s \notin past \cup swept
<1>1. ASSUME GrantsInv, Next PROVE A
  <2> USE <1>1 DEF GrantsInv, NodesInv, machines, node, hist
  <2>1. CASE \E s \in Share :
               \/ runDebugShare(s) \/ provisionScript(s) \/ saveShareRecord(s)
               \/ runRelayShare(s) \/ writeSpool(s) \/ saveRelayRecord(s) \/ ShareCrash(s)
    BY <2>1 DEF runDebugShare, provisionScript, saveShareRecord, runRelayShare,
        writeSpool, saveRelayRecord, ShareCrash
  <2>2. CASE \E s \in Share :
               \/ revokeDebug(s) \/ revokeRelayKey(s) \/ revokeRelaySpool(s)
               \/ removeRecord(s) \/ RevokeCrash(s)
    BY <2>2 DEF revokeDebug, revokeRelayKey, revokeRelaySpool, removeRecord, RevokeCrash
  <2>3. CASE \E s \in Share : debugAttach(s) \/ bridge(s)
    BY <2>3 DEF debugAttach, bridge, dial, KeyAccepted
  <2>4. CASE \E s \in Share : handleWS(s)
    BY <2>4 DEF handleWS, Get
  <2>5. CASE \E s \in Share :
               SessionDeadline(s) \/ SessionEnds(s) \/ Expire(s) \/ Forget(s)
    BY <2>5 DEF SessionDeadline, SessionEnds, Expire, Forget
  <2>6. CASE \/ (\E S \in SUBSET rec : Unshare(S)) \/ Down \/ reapShares \/ Lockdown
             \/ Reap \/ \E m \in Machine : Reboot(m)
    BY <2>6 DEF Unshare, Down, reapShares, Lockdown, Reap, Reboot
  <2> QED
    BY <2>1, <2>2, <2>3, <2>4, <2>5, <2>6 DEF Next
<1>2. GrantsInv /\ [Next]_vars => [A]_vars
  BY <1>1
<1> QED
  BY <1>2, GrantsInvariant, PTL DEF Spec, NoWayBack

=============================================================================
