--------------------------- MODULE DriversProofs ---------------------------
(***************************************************************************)
(* Proofs about Drivers: what a Down that reports success leaves, what     *)
(* becomes of block volumes, how many servers a node has and which login   *)
(* key they carry, for any of the six drivers, any nodes, any number of    *)
(* lives, servers and failing calls, and any retry limits.                 *)
(***************************************************************************)
EXTENDS Drivers, WellFoundedInduction, TLAPS

\* What belongs to one driver only: block volumes to scaleway, instances that
\* die or terminate by and by to lambda, a firewall of the cluster to hetzner.
CloudInv ==
    /\ drv # "scaleway" => vol = {}
    /\ drv # "lambda" => \A s \in Sid : srv[s].st \notin {"terminating", "error"}
    /\ fw = "cluster" => drv = "hetzner"
    /\ \A s \in vol : srv[s].st # "none"

\* A create that waits has the server it waits for, and volumes are deleted of
\* the server that was terminated last.
WaitInv ==
    /\ cmd = "up" => life > 0 /\ \A n \in Node : pc[n] = "boot" => mine[n] \in Sid
    /\ cmd = "volumes" => target \in Sid

\* A life that began with a clean name has only its own key, and launches with it.
KeyInv ==
    cmd = "up" /\ life \notin dirty =>
        /\ drv \in KeyByName => keys \subseteq {life}
        /\ \A n \in Node : pc[n] = "launch" => key[n] = life

\* LoginKeyCurrent, of the servers to come as well.
KeyedInv == \A s \in Sid : srv[s].of \notin dirty => srv[s].key = srv[s].of

\* Servers are of the lives begun, and those of an earlier life are at work during a
\* life only if that began blind.
LifeInv ==
    /\ \A s \in Sid : srv[s].of <= life
    /\ cmd = "up" => \A s \in Working : srv[s].of = life \/ life \in blind

\* A create that has not launched yet has no working server of its life but those
\* it asked for again, one that waits has no other than that.
CreateInv ==
    cmd = "up" =>
        \A n \in Node, s \in Working \ doubled :
            srv[s].node = n /\ srv[s].of = life =>
                /\ pc[n] \notin {"key", "register", "launch"}
                /\ pc[n] = "boot" => s = mine[n]

\* Once the listing was empty nothing works; once the reaper is through, the key
\* and the firewall are gone as well.
EmptyInv ==
    /\ cmd \in {"aux", "done"} =>
         \A s \in Sid : srv[s].st \in {"none", "terminating", "gone"}
    /\ cmd = "done" => (drv \in KeyByName => keys = {}) /\ fw # "cluster"

\* The inductive invariant.
DriversInv ==
    /\ TypeOK /\ CloudInv /\ WaitInv /\ KeyInv /\ LifeInv /\ CreateInv /\ EmptyInv
    /\ LeftoverExplained /\ OneServerPerNode /\ KeyedInv

-----------------------------------------------------------------------------
USE DriversAssumption

LEMMA Bounds ==
  /\ MaxLife \in Nat /\ MaxServer \in Nat /\ MaxFault \in Nat
  /\ MaxAttempts \in Nat \ {0} /\ DestroyAttempts \in Nat \ {0}
  /\ 0 \in 0..(DestroyAttempts - 1) /\ 1 \in 1..MaxAttempts
  OBVIOUS

ServerState == {"none", "stopped", "booting", "running", "error", "terminating", "gone"}
Server == [st : ServerState, node : Node \cup {None}, of : 0..MaxLife, key : 0..MaxLife]

\* TypeOK, with the servers' type named.
Typed ==
    /\ drv \in Driver /\ life \in 0..MaxLife /\ faults \in 0..MaxFault
    /\ cmd \in {"idle", "up", "firewall", "list", "destroy", "volumes", "verify", "aux", "done"}
    /\ pc \in [Node -> {"idle", "key", "register", "launch", "boot", "ok", "failed"}]
    /\ attempt \in [Node -> 1..MaxAttempts]
    /\ mine \in [Node -> Sid \cup {None}] /\ key \in [Node -> 0..MaxLife]
    /\ srv \in [Sid -> Server]
    /\ vol \subseteq Sid /\ keys \subseteq 1..MaxLife
    /\ fw \in {"none", "cluster", "account"}
    /\ todo \subseteq Sid /\ target \in Sid \cup {None}
    /\ tries \in 0..(DestroyAttempts - 1) /\ firstErr \in BOOLEAN
    /\ slipped \subseteq Sid /\ doubled \subseteq Sid
    /\ blind \subseteq 1..MaxLife /\ dirty \subseteq 1..MaxLife

LEMMA TypedIsTypeOK == Typed <=> TypeOK
  BY DEF Typed, TypeOK, Server, ServerState

\* None is no server.
LEMMA SidFacts == Sid \subseteq Nat /\ None \notin Sid
  BY DEF Sid, None

\* Changing a server's state leaves a server, with the rest of its record.
LEMMA StateChange ==
  ASSUME NEW s \in Sid, NEW x \in ServerState, srv \in [Sid -> Server],
         NEW new, new = [srv EXCEPT ![s].st = x]
  PROVE  /\ new \in [Sid -> Server]
         /\ new[s].st = x
         /\ \A t \in Sid : /\ new[t].node = srv[t].node /\ new[t].of = srv[t].of
                           /\ new[t].key = srv[t].key
                           /\ t # s => new[t] = srv[t]
<1>1. [srv[s] EXCEPT !.st = x] \in Server
  BY DEF Server
<1>2. new = [srv EXCEPT ![s] = [srv[s] EXCEPT !.st = x]]
  OBVIOUS
<1>3. srv[s] \in Server
  OBVIOUS
<1>4. /\ [srv[s] EXCEPT !.st = x].node = srv[s].node
      /\ [srv[s] EXCEPT !.st = x].of = srv[s].of
      /\ [srv[s] EXCEPT !.st = x].key = srv[s].key
      /\ [srv[s] EXCEPT !.st = x].st = x
  BY <1>3 DEF Server
<1> QED
  BY <1>1, <1>2, <1>4

LEMMA StateTyped ==
  ASSUME NEW s \in Sid, NEW x \in ServerState, srv \in [Sid -> Server]
  PROVE  [srv EXCEPT ![s].st = x] \in [Sid -> Server]
  BY StateChange

\* The servers left have a first one, so the loop of Down finds it.
LEMMA Next1Typed ==
  ASSUME NEW rest \in SUBSET Sid
  PROVE  Next1(rest) \in Sid \cup {None} /\ (rest # {} => Next1(rest) \in rest)
<1>1. CASE rest = {}
  BY <1>1 DEF Next1
<1>2. CASE rest # {}
  <2>1. rest \subseteq Nat
    BY SidFacts
  <2>2. PICK x \in rest : \A y \in rest : ~(<<y, x>> \in OpToRel(<, Nat))
    BY <1>2, <2>1, NatLessThanWellFounded, WFMin
  <2>3. \A y \in rest : ~(y < x)
    BY <2>1, <2>2 DEF OpToRel
  <2>4. \E x0 \in rest : \A t \in rest : x0 <= t
    BY <2>1, <2>3
  <2> QED
    BY <1>2, <2>4 DEF Next1
<1> QED
  BY <1>1, <1>2

LEMMA ListedTyped == ListByTag \in SUBSET Sid
  BY DEF ListByTag, instancesByTag, listInstances

LEMMA FaultTyped ==
  ASSUME faults \in 0..MaxFault, Fault \/ NoFault
  PROVE  faults' \in 0..MaxFault
  BY DEF Fault, NoFault

\* The destroy loop goes on, or tries again.
LEMMA DestroyTyped ==
  ASSUME Typed, DestroyOk \/ DestroyErr
  PROVE  /\ cmd' = "destroy" /\ todo' \subseteq Sid /\ target' \in Sid \cup {None}
         /\ tries' \in 0..(DestroyAttempts - 1) /\ firstErr' \in BOOLEAN
<1>1. Next1(todo \ {target}) \in Sid \cup {None}
  BY Next1Typed DEF Typed
<1>2. tries \in Nat /\ tries < DestroyAttempts
  BY DEF Typed
<1>3. CASE DestroyOk
  BY <1>1, <1>3, Bounds DEF DestroyOk, Done1, Typed
<1>4. CASE DestroyErr
  <2>1. tries + 1 < DestroyAttempts => tries + 1 \in 0..(DestroyAttempts - 1)
    BY <1>2, Bounds
  <2> QED
    BY <1>1, <1>4, <2>1, Bounds DEF DestroyErr, Done1, Typed
<1> QED
  BY <1>3, <1>4

\* All that ensureLoginKey and registerKey do: node n goes on with a key, goes to
\* register one, or fails, and the life's key may be registered meanwhile.
KeyChosen(n) ==
    /\ cmd = "up" /\ pc[n] \in {"key", "register"}
    /\ keys' \in {keys, keys \cup {life}}
    /\ \/ \E k \in keys \cup {life} :
            Using(n, k) /\ (drv \in KeyByName \/ k = life)
       \/ \E at \in {"register", "failed"} : Goto(n, at) /\ UNCHANGED key
    /\ Fault \/ NoFault

LEMMA KeyStep ==
  ASSUME Typed, NEW n \in Node, ensureLoginKey(n) \/ registerKey(n)
  PROVE  KeyChosen(n) /\ KeyFrame
<1>1. CASE registerKey(n)
  BY <1>1 DEF registerKey, KeyChosen, Register, NoKey
<1>2. CASE ensureLoginKey(n)
  <2>1. cmd = "up" /\ pc[n] = "key" /\ KeyFrame
    BY <1>2 DEF ensureLoginKey
  <2>2. CASE drv = "hetzner" /\ keyHetzner(n)
    BY <2>1, <2>2 DEF keyHetzner, KeyChosen, Register, NoKey, KeyByName
  <2>3. CASE drv \in {"vultr", "digitalocean"} /\ keyByName(n)
    BY <2>1, <2>3 DEF keyByName, KeyChosen, Register, NoKey, KeyByName
  <2>4. CASE drv = "scaleway" /\ keyScaleway(n)
    BY <2>1, <2>4 DEF keyScaleway, KeyChosen, Register, NoKey, KeyByName
  <2>5. CASE drv = "linode" /\ keyLinode(n)
    BY <2>1, <2>5 DEF keyLinode, KeyChosen, KeyByName
  <2>6. CASE drv = "lambda" /\ keyLambda(n)
    BY <2>1, <2>6 DEF keyLambda, findKey, KeyChosen, NoKey, KeyByName
  <2> QED
    BY <1>2, <2>2, <2>3, <2>4, <2>5, <2>6 DEF ensureLoginKey
<1> QED
  BY <1>1, <1>2

\* All that launch does: a new server of the node, awaited, lost or doubled; or
\* nothing but the node's failure.
New(n) ==
    [st |-> IF drv = "scaleway" THEN "stopped" ELSE "booting", node |-> n,
     of |-> life, key |-> key[n]]
Made(n, s) ==
    /\ srv[s].st = "none" /\ srv' = [srv EXCEPT ![s] = New(n)]
    /\ vol' = IF drv = "scaleway" THEN vol \cup {s} ELSE vol
    /\ \/ mine' = [mine EXCEPT ![n] = s] /\ Goto(n, "boot") /\ UNCHANGED doubled
       \/ Goto(n, "failed") /\ UNCHANGED <<mine, doubled>>
       \/ doubled' = doubled \cup {s} /\ UNCHANGED <<pc, mine>>
LaunchRefused(n) == Goto(n, "failed") /\ UNCHANGED <<srv, vol, mine, doubled>>

LEMMA LaunchStep ==
  ASSUME NEW n \in Node, launch(n)
  PROVE  /\ cmd = "up" /\ pc[n] = "launch" /\ LaunchFrame /\ (Fault \/ NoFault)
         /\ (\E s \in Sid : Made(n, s)) \/ LaunchRefused(n)
<1>1. CASE Accepted(n)
  BY <1>1 DEF launch, Accepted, Launched, Made, New
<1>2. CASE Refused(n)
  BY <1>2 DEF launch, Refused, LaunchRefused
<1>3. CASE Unanswered(n)
  BY <1>3 DEF launch, Unanswered, Launched, Made, New
<1>4. CASE isAvailabilityErr(n) \/ Relaunched(n)
  BY <1>4 DEF launch, isAvailabilityErr, Relaunched, AskedAgain, Launched, Made, New
<1> QED
  BY <1>1, <1>2, <1>3, <1>4 DEF launch

LEMMA NewTyped ==
  ASSUME Typed, NEW n \in Node
  PROVE  New(n) \in Server
  BY DEF Typed, New, Server, ServerState

\* The state a delete leads to.
LEMMA DeletedTyped ==
  ASSUME Typed, target # None
  PROVE  /\ target \in Sid /\ Deleted \in [Sid -> Server] /\ Terminated \in [Sid -> Server]
<1>1. target \in Sid
  BY DEF Typed
<1>2. Deleted \in [Sid -> Server]
  BY <1>1, StateTyped DEF Typed, Deleted, ServerState
<1>3. [srv EXCEPT ![target].st = "gone"] \in [Sid -> Server]
  BY <1>2 DEF Deleted
<1>4. [srv EXCEPT ![target].st = "terminating"] \in [Sid -> Server]
  BY <1>1, StateTyped DEF Typed, ServerState
<1> QED
  BY <1>1, <1>2, <1>3, <1>4 DEF Typed, Terminated

\* Every variable keeps its type.
LEMMA TypedStep ==
  ASSUME Typed, WaitInv, Next
  PROVE  Typed'
<1> USE SidFacts DEF Typed, upVars, cloudVars, downVars, histVars
<1>1. ASSUME upBegins PROVE Typed'
  <2>1. life' \in 1..MaxLife /\ life' = life + 1
    BY <1>1 DEF upBegins
  <2>2. blind' \subseteq 1..MaxLife /\ faults' \in 0..MaxFault /\ dirty' \subseteq 1..MaxLife
    BY <1>1, <2>1, FaultTyped DEF upBegins, upPreflight
  <2> QED
    BY <1>1, <2>1, <2>2 DEF upBegins
<1>2. ASSUME upSettles PROVE Typed'
  BY <1>2 DEF upSettles
<1>3. ASSUME ensureCloudFirewall PROVE Typed'
  BY <1>3, FaultTyped DEF ensureCloudFirewall, EnsureClusterFirewall, openAccountPort
<1>4. ASSUME NEW n \in Node, ensureLoginKey(n) PROVE Typed'
  <2>1. KeyChosen(n) /\ KeyFrame
    BY <1>4, KeyStep
  <2>2. life \in 1..MaxLife
    BY <2>1 DEF KeyChosen, WaitInv
  <2>3. keys' \subseteq 1..MaxLife /\ faults' \in 0..MaxFault
    BY <2>1, <2>2, FaultTyped DEF KeyChosen
  <2>4. /\ key' \in [Node -> 0..MaxLife]
        /\ pc' \in [Node -> {"idle", "key", "register", "launch", "boot", "ok", "failed"}]
    BY <2>1, <2>2 DEF KeyChosen, Using, Goto
  <2> QED
    BY <2>1, <2>3, <2>4 DEF KeyFrame
<1>5. ASSUME NEW n \in Node, registerKey(n) PROVE Typed'
  <2>1. KeyChosen(n) /\ KeyFrame
    BY <1>5, KeyStep
  <2>2. life \in 1..MaxLife
    BY <2>1 DEF KeyChosen, WaitInv
  <2>3. keys' \subseteq 1..MaxLife /\ faults' \in 0..MaxFault
    BY <2>1, <2>2, FaultTyped DEF KeyChosen
  <2>4. /\ key' \in [Node -> 0..MaxLife]
        /\ pc' \in [Node -> {"idle", "key", "register", "launch", "boot", "ok", "failed"}]
    BY <2>1, <2>2 DEF KeyChosen, Using, Goto
  <2> QED
    BY <2>1, <2>3, <2>4 DEF KeyFrame
<1>6. ASSUME NEW n \in Node, launch(n) PROVE Typed'
  <2>1. faults' \in 0..MaxFault /\ LaunchFrame
    BY <1>6, LaunchStep, FaultTyped
  <2>2. CASE LaunchRefused(n)
    BY <2>1, <2>2 DEF LaunchRefused, Goto, LaunchFrame
  <2>3. ASSUME NEW s \in Sid, Made(n, s) PROVE Typed'
    <3>1. srv' \in [Sid -> Server]
      BY <2>3, NewTyped DEF Made
    <3>2. vol' \subseteq Sid /\ mine' \in [Node -> Sid \cup {None}] /\ doubled' \subseteq Sid
      BY <2>3 DEF Made
    <3>3. pc' \in [Node -> {"idle", "key", "register", "launch", "boot", "ok", "failed"}]
      BY <2>3 DEF Made, Goto
    <3> QED
      BY <2>1, <3>1, <3>2, <3>3 DEF LaunchFrame
  <2> QED
    BY <1>6, <2>2, <2>3, LaunchStep
<1>7. ASSUME NEW n \in Node, finishBoot(n) PROVE Typed'
  <2>1. mine[n] \in Sid
    BY <1>7 DEF finishBoot, WaitInv
  <2>2. [srv EXCEPT ![mine[n]].st = "booting"] \in [Sid -> Server]
    BY <2>1, StateTyped DEF ServerState
  <2>3. srv' \in [Sid -> Server] /\ faults' \in 0..MaxFault
    BY <1>7, <2>2, FaultTyped DEF finishBoot
  <2> QED
    BY <1>7, <2>3 DEF finishBoot, Goto, BootFrame
<1>8. ASSUME NEW n \in Node, waitRunning(n) PROVE Typed'
  <2>1. mine[n] \in Sid
    BY <1>8 DEF waitRunning, WaitInv
  <2>2. [srv EXCEPT ![mine[n]].st = "terminating"] \in [Sid -> Server]
    BY <2>1, StateTyped DEF ServerState
  <2>3. srv' \in [Sid -> Server] /\ faults' \in 0..MaxFault
    BY <1>8, <2>2, FaultTyped DEF waitRunning, bootDone, bootDied, bootGivenUp
  <2>4. attempt' \in [Node -> 1..MaxAttempts]
    BY <1>8 DEF waitRunning, bootDone, bootDied, bootGivenUp
  <2>5. pc' \in [Node -> {"idle", "key", "register", "launch", "boot", "ok", "failed"}]
    BY <1>8 DEF waitRunning, bootDone, bootDied, bootGivenUp, Goto
  <2> QED
    BY <1>8, <2>3, <2>4, <2>5 DEF waitRunning, BootFrame
<1>9. ASSUME NEW s \in Sid, Boots(s) PROVE Typed'
  <2>1. srv' \in [Sid -> Server]
    BY <1>9, StateTyped DEF Boots, ServerState
  <2> QED
    BY <1>9, <2>1 DEF Boots, BootFrame
<1>10. ASSUME NEW s \in Sid, Reclaims(s) PROVE Typed'
  <2>1. \A x \in {"terminating", "error"} : [srv EXCEPT ![s].st = x] \in [Sid -> Server]
    BY StateTyped DEF ServerState
  <2>2. srv' \in [Sid -> Server]
    BY <1>10, <2>1 DEF Reclaims
  <2> QED
    BY <1>10, <2>2 DEF Reclaims, BootFrame
<1>11. ASSUME NEW s \in Sid, Vanishes(s) PROVE Typed'
  <2>1. srv' \in [Sid -> Server]
    BY <1>11, StateTyped DEF Vanishes, ServerState
  <2> QED
    BY <1>11, <2>1 DEF Vanishes, DownFrame
<1>12. ASSUME downBegins PROVE Typed'
  BY <1>12 DEF downBegins, DownFrame
<1>13. ASSUME downLists PROVE Typed'
  BY <1>13, ListedTyped, Next1Typed, FaultTyped, Bounds DEF downLists, DownFrame
<1>14. ASSUME DestroyServer PROVE Typed'
  <2>1. Deleted \in [Sid -> Server] /\ Terminated \in [Sid -> Server]
    BY <1>14, DeletedTyped DEF DestroyServer
  <2>2. srv' \in [Sid -> Server] /\ faults' \in 0..MaxFault
    BY <1>14, <2>1, FaultTyped DEF DestroyServer
  <2>3. DestroyOk \/ DestroyErr
    BY <1>14 DEF DestroyServer
  <2> QED
    BY <1>14, <2>2, <2>3, DestroyTyped DEF DestroyServer, DownFrame
<1>15. ASSUME terminate PROVE Typed'
  <2>1. Deleted \in [Sid -> Server] /\ target \in Sid
    BY <1>15, DeletedTyped DEF terminate
  <2>2. srv' \in [Sid -> Server] /\ faults' \in 0..MaxFault /\ slipped' \subseteq Sid
    BY <1>15, <2>1, FaultTyped DEF terminate
  <2>3. CASE DestroyOk \/ DestroyErr
    BY <1>15, <2>2, <2>3, DestroyTyped DEF terminate, DownFrame
  <2>4. CASE ~(DestroyOk \/ DestroyErr)
    <3>1. Next1(todo \ {target}) \in Sid \cup {None}
      BY Next1Typed
    <3> QED
      BY <1>15, <2>2, <2>4, <3>1, Bounds DEF terminate, Done1, DownFrame
  <2> QED
    BY <2>3, <2>4
<1>16. ASSUME DeleteVolume PROVE Typed'
  <2>1. DestroyOk \/ DestroyErr
    BY <1>16 DEF DeleteVolume
  <2>2. faults' \in 0..MaxFault
    BY <1>16, FaultTyped DEF DeleteVolume
  <2>3. slipped' \subseteq Sid /\ vol' \subseteq Sid
    BY <1>16 DEF DeleteVolume, WaitInv
  <2> QED
    BY <1>16, <2>1, <2>2, <2>3, DestroyTyped DEF DeleteVolume, DownFrame
<1>17. ASSUME verifyEmpty PROVE Typed'
  BY <1>17, FaultTyped DEF verifyEmpty, DownFrame
<1>18. ASSUME ReapAux PROVE Typed'
  BY <1>18, FaultTyped DEF ReapAux, reapHetzner, reapKeys, deleteFirewall, DownFrame
<1>19. ASSUME Crash PROVE Typed'
  <2>1. slipped' \subseteq Sid
    BY <1>19 DEF Crash, WaitInv
  <2> QED
    BY <1>19, <2>1, FaultTyped, Bounds DEF Crash
<1> QED
  BY <1>1, <1>2, <1>3, <1>4, <1>5, <1>6, <1>7, <1>8, <1>9, <1>10, <1>11,
      <1>12, <1>13, <1>14, <1>15, <1>16, <1>17, <1>18, <1>19 DEF Next

-----------------------------------------------------------------------------
\* All that a step does to server x: nothing, its launch, or a change of state,
\* which never brings it back to work, kills it only at lambda, and deletes it
\* only as the target of a destroy or at the end of its termination.
AtWork == {"stopped", "booting", "running"}
Kept(x) == srv'[x] = srv[x]
Begun(x) ==
    \E n \in Node : /\ cmd = "up" /\ pc[n] = "launch" /\ srv[x].st = "none"
                    /\ srv'[x] = New(n) /\ UNCHANGED <<cmd, life, dirty>>
Moved(x) ==
    /\ srv'[x].node = srv[x].node /\ srv'[x].of = srv[x].of /\ srv'[x].key = srv[x].key
    /\ srv'[x].st # "none"
    /\ srv'[x].st \in AtWork => srv[x].st \in AtWork
    /\ srv'[x].st \in {"terminating", "error"} => drv = "lambda"
    /\ srv'[x].st = "error" => srv[x].st = "booting"
    /\ srv'[x].st = "gone" =>
         srv[x].st \in {"terminating", "gone"} \/ (cmd = "destroy" /\ target = x)

\* Every action but launch.
Elsewhere ==
    \/ upBegins \/ upSettles \/ ensureCloudFirewall
    \/ \E n \in Node : ensureLoginKey(n) \/ registerKey(n) \/ finishBoot(n) \/ waitRunning(n)
    \/ \E s \in Sid : Boots(s) \/ Reclaims(s) \/ Vanishes(s)
    \/ downBegins \/ downLists \/ DestroyServer \/ terminate \/ DeleteVolume
    \/ verifyEmpty \/ ReapAux \/ Crash

LEMMA MovedStep ==
  ASSUME Typed, WaitInv, Elsewhere, NEW x \in Sid
  PROVE  Kept(x) \/ Moved(x)
<1> USE SidFacts DEF upVars, cloudVars, downVars, histVars
<1>t. srv \in [Sid -> Server]
  BY DEF Typed
<1>1. ASSUME upBegins PROVE Kept(x) \/ Moved(x)
  <2>1. srv' = srv
    BY <1>1 DEF upBegins
  <2> QED
    BY <2>1 DEF Kept
<1>2. ASSUME upSettles PROVE Kept(x) \/ Moved(x)
  <2>1. srv' = srv
    BY <1>2 DEF upSettles
  <2> QED
    BY <2>1 DEF Kept
<1>3. ASSUME ensureCloudFirewall PROVE Kept(x) \/ Moved(x)
  <2>1. srv' = srv
    BY <1>3 DEF ensureCloudFirewall
  <2> QED
    BY <2>1 DEF Kept
<1>4. ASSUME NEW n \in Node, ensureLoginKey(n) PROVE Kept(x) \/ Moved(x)
  <2>1. srv' = srv
    BY <1>4 DEF ensureLoginKey, KeyFrame
  <2> QED
    BY <2>1 DEF Kept
<1>5. ASSUME NEW n \in Node, registerKey(n) PROVE Kept(x) \/ Moved(x)
  <2>1. srv' = srv
    BY <1>5 DEF registerKey, KeyFrame
  <2> QED
    BY <2>1 DEF Kept
<1>6. ASSUME NEW n \in Node, finishBoot(n) PROVE Kept(x) \/ Moved(x)
  <2>1. mine[n] \in Sid /\ srv[mine[n]].st = "stopped"
    BY <1>6 DEF finishBoot, WaitInv
  <2>2. srv' = srv \/ srv' = [srv EXCEPT ![mine[n]].st = "booting"]
    BY <1>6 DEF finishBoot
  <2>3. "booting" \in ServerState
    BY DEF ServerState
  <2> QED
    BY <1>t, <2>1, <2>2, <2>3, StateChange DEF Kept, Moved, AtWork
<1>7. ASSUME NEW n \in Node, waitRunning(n) PROVE Kept(x) \/ Moved(x)
  <2>1. mine[n] \in Sid
    BY <1>7 DEF waitRunning, WaitInv
  <2>2. srv' = srv \/ (drv = "lambda" /\ srv' = [srv EXCEPT ![mine[n]].st = "terminating"])
    BY <1>7 DEF waitRunning, bootDone, bootDied, bootGivenUp
  <2>3. "terminating" \in ServerState
    BY DEF ServerState
  <2> QED
    BY <1>t, <2>1, <2>2, <2>3, StateChange DEF Kept, Moved, AtWork
<1>8. ASSUME NEW s \in Sid, Boots(s) PROVE Kept(x) \/ Moved(x)
  <2>1. srv[s].st = "booting" /\ srv' = [srv EXCEPT ![s].st = "running"]
    BY <1>8 DEF Boots
  <2>2. "running" \in ServerState
    BY DEF ServerState
  <2> QED
    BY <1>t, <2>1, <2>2, StateChange DEF Kept, Moved, AtWork
<1>9. ASSUME NEW s \in Sid, Reclaims(s) PROVE Kept(x) \/ Moved(x)
  <2>1. PICK y \in {"terminating", "error"} : srv' = [srv EXCEPT ![s].st = y]
    BY <1>9 DEF Reclaims
  <2>2. y \in ServerState /\ drv = "lambda" /\ srv[s].st = "booting"
    BY <1>9 DEF Reclaims, ServerState
  <2> QED
    BY <1>t, <2>1, <2>2, StateChange DEF Kept, Moved, AtWork
<1>10. ASSUME NEW s \in Sid, Vanishes(s) PROVE Kept(x) \/ Moved(x)
  <2>1. srv[s].st = "terminating" /\ srv' = [srv EXCEPT ![s].st = "gone"]
    BY <1>10 DEF Vanishes
  <2>2. "gone" \in ServerState
    BY DEF ServerState
  <2> QED
    BY <1>t, <2>1, <2>2, StateChange DEF Kept, Moved, AtWork
<1>11. ASSUME downBegins PROVE Kept(x) \/ Moved(x)
  <2>1. srv' = srv
    BY <1>11 DEF downBegins, DownFrame
  <2> QED
    BY <2>1 DEF Kept
<1>12. ASSUME downLists PROVE Kept(x) \/ Moved(x)
  <2>1. srv' = srv
    BY <1>12 DEF downLists, DownFrame
  <2> QED
    BY <2>1 DEF Kept
<1>13. ASSUME DestroyServer PROVE Kept(x) \/ Moved(x)
  <2>1. target \in Sid /\ cmd = "destroy"
    BY <1>13, DeletedTyped DEF DestroyServer
  <2>2. \/ srv' = srv
        \/ srv' = Deleted
        \/ drv = "lambda" /\ srv' = Terminated
    BY <1>13 DEF DestroyServer
  <2>3. "gone" \in ServerState /\ "terminating" \in ServerState
    BY DEF ServerState
  <2>4. CASE srv' = [srv EXCEPT ![target].st = "gone"]
    BY <1>t, <2>1, <2>3, <2>4, StateChange DEF Kept, Moved, AtWork
  <2>5. CASE drv = "lambda" /\ srv' = [srv EXCEPT ![target].st = "terminating"]
    BY <1>t, <2>1, <2>3, <2>5, StateChange DEF Kept, Moved, AtWork
  <2> QED
    BY <1>t, <2>1, <2>2, <2>4, <2>5 DEF Deleted, Terminated, Kept
<1>14. ASSUME terminate PROVE Kept(x) \/ Moved(x)
  <2>1. target \in Sid /\ cmd = "destroy"
    BY <1>14, DeletedTyped DEF terminate
  <2>2. srv' = srv \/ srv' = [srv EXCEPT ![target].st = "gone"]
    BY <1>14 DEF terminate, Deleted
  <2>3. "gone" \in ServerState
    BY DEF ServerState
  <2> QED
    BY <1>t, <2>1, <2>2, <2>3, StateChange DEF Kept, Moved, AtWork
<1>15. ASSUME DeleteVolume PROVE Kept(x) \/ Moved(x)
  <2>1. srv' = srv
    BY <1>15 DEF DeleteVolume, DownFrame
  <2> QED
    BY <2>1 DEF Kept
<1>16. ASSUME verifyEmpty PROVE Kept(x) \/ Moved(x)
  <2>1. srv' = srv
    BY <1>16 DEF verifyEmpty, DownFrame
  <2> QED
    BY <2>1 DEF Kept
<1>17. ASSUME ReapAux PROVE Kept(x) \/ Moved(x)
  <2>1. srv' = srv
    BY <1>17 DEF ReapAux, DownFrame
  <2> QED
    BY <2>1 DEF Kept
<1>18. ASSUME Crash PROVE Kept(x) \/ Moved(x)
  <2>1. srv' = srv
    BY <1>18 DEF Crash
  <2> QED
    BY <2>1 DEF Kept
<1> QED
  BY <1>1, <1>2, <1>3, <1>4, <1>5, <1>6, <1>7, <1>8, <1>9, <1>10, <1>11,
      <1>12, <1>13, <1>14, <1>15, <1>16, <1>17, <1>18 DEF Elsewhere

LEMMA ServerStep ==
  ASSUME Typed, WaitInv, Next, NEW x \in Sid
  PROVE  Kept(x) \/ Begun(x) \/ Moved(x)
<1>1. CASE Elsewhere
  BY <1>1, MovedStep
<1>2. ASSUME NEW n \in Node, launch(n) PROVE Kept(x) \/ Begun(x)
  <2>1. cmd = "up" /\ pc[n] = "launch" /\ LaunchFrame
    BY <1>2, LaunchStep
  <2>2. CASE LaunchRefused(n)
    BY <2>2 DEF LaunchRefused, Kept
  <2>3. ASSUME NEW s \in Sid, Made(n, s) PROVE Kept(x) \/ Begun(x)
    BY <2>1, <2>3 DEF Made, LaunchFrame, Kept, Begun, Typed, histVars
  <2> QED
    BY <1>2, <2>2, <2>3, LaunchStep
<1> QED
  BY <1>1, <1>2 DEF Next, Elsewhere

\* What a step does to the rest, as far as the invariants need it.
Around ==
    /\ drv' = drv
    /\ \A s \in vol' : s \in vol \/ (drv = "scaleway" /\ s \in Sid /\ srv'[s].st = "stopped")
    /\ fw' \in {fw, "none", "account"} \/ drv = "hetzner"
    /\ slipped \subseteq slipped' /\ doubled \subseteq doubled'
    /\ blind \subseteq blind' /\ dirty \subseteq dirty'

LEMMA AroundStep ==
  ASSUME Typed, Next
  PROVE  Around
<1> USE DEF Around, upVars, cloudVars, downVars, histVars
<1>1. ASSUME upBegins PROVE Around
  BY <1>1 DEF upBegins, upPreflight
<1>2. ASSUME upSettles PROVE Around
  BY <1>2 DEF upSettles
<1>3. ASSUME ensureCloudFirewall PROVE Around
  BY <1>3 DEF ensureCloudFirewall, openAccountPort
<1>4. ASSUME NEW n \in Node, ensureLoginKey(n) PROVE Around
  BY <1>4, KeyStep DEF KeyFrame
<1>5. ASSUME NEW n \in Node, registerKey(n) PROVE Around
  BY <1>5, KeyStep DEF KeyFrame
<1>6. ASSUME NEW n \in Node, launch(n) PROVE Around
  <2>1. LaunchFrame
    BY <1>6, LaunchStep
  <2>2. CASE LaunchRefused(n)
    BY <2>1, <2>2 DEF LaunchRefused, LaunchFrame
  <2>3. ASSUME NEW s \in Sid, Made(n, s) PROVE Around
    BY <2>1, <2>3 DEF Made, New, LaunchFrame, Typed
  <2> QED
    BY <1>6, <2>2, <2>3, LaunchStep
<1>7. ASSUME NEW n \in Node, finishBoot(n) PROVE Around
  BY <1>7 DEF finishBoot, BootFrame
<1>8. ASSUME NEW n \in Node, waitRunning(n) PROVE Around
  BY <1>8 DEF waitRunning, BootFrame
<1>9. ASSUME NEW s \in Sid, Boots(s) PROVE Around
  BY <1>9 DEF Boots, BootFrame
<1>10. ASSUME NEW s \in Sid, Reclaims(s) PROVE Around
  BY <1>10 DEF Reclaims, BootFrame
<1>11. ASSUME NEW s \in Sid, Vanishes(s) PROVE Around
  BY <1>11 DEF Vanishes, DownFrame
<1>12. ASSUME downBegins PROVE Around
  BY <1>12 DEF downBegins, DownFrame
<1>13. ASSUME downLists PROVE Around
  BY <1>13 DEF downLists, DownFrame
<1>14. ASSUME DestroyServer PROVE Around
  BY <1>14 DEF DestroyServer, DownFrame
<1>15. ASSUME terminate PROVE Around
  BY <1>15 DEF terminate, DownFrame
<1>16. ASSUME DeleteVolume PROVE Around
  BY <1>16 DEF DeleteVolume, DownFrame
<1>17. ASSUME verifyEmpty PROVE Around
  BY <1>17 DEF verifyEmpty, DownFrame
<1>18. ASSUME ReapAux PROVE Around
  BY <1>18 DEF ReapAux, reapKeys, DownFrame
<1>19. ASSUME Crash PROVE Around
  BY <1>19 DEF Crash
<1> QED
  BY <1>1, <1>2, <1>3, <1>4, <1>5, <1>6, <1>7, <1>8, <1>9, <1>10, <1>11,
      <1>12, <1>13, <1>14, <1>15, <1>16, <1>17, <1>18, <1>19 DEF Next

\* No driver comes by what belongs to another.
LEMMA CloudStep ==
  ASSUME DriversInv, Next
  PROVE  CloudInv'
<1> USE DEF DriversInv
<1>1. Around /\ Typed
  BY AroundStep, TypedIsTypeOK
<1>2. drv # "scaleway" => vol' = {}
  BY <1>1 DEF Around, CloudInv
<1>3. ASSUME drv # "lambda", NEW s \in Sid
      PROVE  srv'[s].st \notin {"terminating", "error"}
  <2>1. CASE Begun(s)
    BY <2>1 DEF Begun, New
  <2>2. CASE Kept(s) \/ Moved(s)
    BY <1>3, <2>2 DEF CloudInv, Kept, Moved
  <2> QED
    BY <1>1, <2>1, <2>2, ServerStep
<1>4. fw' = "cluster" => drv = "hetzner"
  BY <1>1 DEF Around, CloudInv
<1>5. ASSUME NEW s \in vol' PROVE srv'[s].st # "none"
  <2>1. CASE s \in vol
    BY <1>1, <2>1, ServerStep DEF CloudInv, Kept, Begun, Moved, Typed
  <2> QED
    BY <1>1, <1>5, <2>1 DEF Around
<1> QED
  BY <1>1, <1>2, <1>3, <1>4, <1>5 DEF CloudInv, Around

\* The destroy loop is Down's own.
LEMMA DownStays ==
  ASSUME Typed, DestroyServer \/ terminate \/ DeleteVolume
  PROVE  /\ cmd' \in {"destroy", "volumes"}
         /\ cmd' = "volumes" => target' \in Sid /\ target' = target
         /\ UNCHANGED upVars
<1>1. CASE DestroyServer \/ DeleteVolume
  BY <1>1, DestroyTyped DEF DestroyServer, DeleteVolume, DownFrame
<1>2. CASE terminate
  <2>1. target \in Sid
    BY <1>2 DEF terminate, Typed
  <2> QED
    BY <1>2, <2>1 DEF terminate, DestroyOk, DestroyErr, DownFrame
<1> QED
  BY <1>1, <1>2

\* Only an accepted launch makes a create wait, and it names the server.
LEMMA WaitStep ==
  ASSUME DriversInv, Next
  PROVE  WaitInv'
<1>t. Typed /\ WaitInv
  BY TypedIsTypeOK DEF DriversInv
<1> USE <1>t DEF WaitInv, upVars, cloudVars, downVars, histVars
<1>1. ASSUME upBegins PROVE WaitInv'
  BY <1>1 DEF upBegins, Typed
<1>2. ASSUME upSettles PROVE WaitInv'
  BY <1>2 DEF upSettles
<1>3. ASSUME ensureCloudFirewall PROVE WaitInv'
  BY <1>3 DEF ensureCloudFirewall
<1>4. ASSUME NEW n \in Node, ensureLoginKey(n) PROVE WaitInv'
  BY <1>4, KeyStep DEF KeyChosen, Using, Goto, KeyFrame, Typed
<1>5. ASSUME NEW n \in Node, registerKey(n) PROVE WaitInv'
  BY <1>5, KeyStep DEF KeyChosen, Using, Goto, KeyFrame, Typed
<1>6. ASSUME NEW n \in Node, launch(n) PROVE WaitInv'
  <2>1. LaunchFrame /\ cmd = "up"
    BY <1>6, LaunchStep
  <2>2. CASE LaunchRefused(n)
    BY <2>1, <2>2 DEF LaunchRefused, Goto, LaunchFrame, Typed
  <2>3. ASSUME NEW s \in Sid, Made(n, s) PROVE WaitInv'
    BY <2>1, <2>3 DEF Made, Goto, LaunchFrame, Typed
  <2> QED
    BY <1>6, <2>2, <2>3, LaunchStep
<1>7. ASSUME NEW n \in Node, finishBoot(n) PROVE WaitInv'
  BY <1>7 DEF finishBoot, Goto, BootFrame, Typed
<1>8. ASSUME NEW n \in Node, waitRunning(n) PROVE WaitInv'
  BY <1>8 DEF waitRunning, bootDone, bootDied, bootGivenUp, Goto, BootFrame, Typed
<1>9. ASSUME NEW s \in Sid, Boots(s) PROVE WaitInv'
  BY <1>9 DEF Boots, BootFrame
<1>10. ASSUME NEW s \in Sid, Reclaims(s) PROVE WaitInv'
  BY <1>10 DEF Reclaims, BootFrame
<1>11. ASSUME NEW s \in Sid, Vanishes(s) PROVE WaitInv'
  BY <1>11 DEF Vanishes, DownFrame
<1>12. ASSUME downBegins PROVE WaitInv'
  BY <1>12 DEF downBegins, DownFrame
<1>13. ASSUME downLists PROVE WaitInv'
  BY <1>13 DEF downLists, DownFrame
<1>14. ASSUME DestroyServer PROVE WaitInv'
  BY <1>14, DownStays
<1>15. ASSUME terminate PROVE WaitInv'
  BY <1>15, DownStays
<1>16. ASSUME DeleteVolume PROVE WaitInv'
  BY <1>16, DownStays
<1>17. ASSUME verifyEmpty PROVE WaitInv'
  BY <1>17 DEF verifyEmpty, DownFrame
<1>18. ASSUME ReapAux PROVE WaitInv'
  BY <1>18 DEF ReapAux, DownFrame
<1>19. ASSUME Crash PROVE WaitInv'
  BY <1>19 DEF Crash
<1> QED
  BY <1>1, <1>2, <1>3, <1>4, <1>5, <1>6, <1>7, <1>8, <1>9, <1>10, <1>11,
      <1>12, <1>13, <1>14, <1>15, <1>16, <1>17, <1>18, <1>19 DEF Next

\* ensureLoginKey finds or registers a key of the life, if there is no other.
LEMMA KeyInvStep ==
  ASSUME DriversInv, Next
  PROVE  KeyInv'
<1>t. Typed /\ KeyInv
  BY TypedIsTypeOK DEF DriversInv
<1> USE <1>t DEF KeyInv, upVars, cloudVars, downVars, histVars
<1>1. ASSUME upBegins PROVE KeyInv'
  BY <1>1 DEF upBegins
<1>2. ASSUME upSettles PROVE KeyInv'
  BY <1>2 DEF upSettles
<1>3. ASSUME ensureCloudFirewall PROVE KeyInv'
  BY <1>3 DEF ensureCloudFirewall
<1>4. ASSUME NEW n \in Node, ensureLoginKey(n) PROVE KeyInv'
  <2>1. KeyChosen(n) /\ KeyFrame
    BY <1>4, KeyStep
  <2> QED
    BY <2>1 DEF KeyChosen, Using, Goto, KeyFrame, Typed
<1>5. ASSUME NEW n \in Node, registerKey(n) PROVE KeyInv'
  <2>1. KeyChosen(n) /\ KeyFrame
    BY <1>5, KeyStep
  <2> QED
    BY <2>1 DEF KeyChosen, Using, Goto, KeyFrame, Typed
<1>6. ASSUME NEW n \in Node, launch(n) PROVE KeyInv'
  <2>1. LaunchFrame /\ cmd = "up"
    BY <1>6, LaunchStep
  <2>2. \/ Goto(n, "failed") \/ Goto(n, "boot") \/ pc' = pc
    BY <1>6, LaunchStep DEF LaunchRefused, Made
  <2> QED
    BY <2>1, <2>2 DEF Goto, LaunchFrame, Typed
<1>7. ASSUME NEW n \in Node, finishBoot(n) PROVE KeyInv'
  BY <1>7 DEF finishBoot, Goto, BootFrame, Typed
<1>8. ASSUME NEW n \in Node, waitRunning(n) PROVE KeyInv'
  BY <1>8 DEF waitRunning, bootDone, bootDied, bootGivenUp, Goto, BootFrame, Typed
<1>9. ASSUME NEW s \in Sid, Boots(s) PROVE KeyInv'
  BY <1>9 DEF Boots, BootFrame
<1>10. ASSUME NEW s \in Sid, Reclaims(s) PROVE KeyInv'
  BY <1>10 DEF Reclaims, BootFrame
<1>11. ASSUME NEW s \in Sid, Vanishes(s) PROVE KeyInv'
  BY <1>11 DEF Vanishes, DownFrame
<1>12. ASSUME downBegins PROVE KeyInv'
  BY <1>12 DEF downBegins, DownFrame
<1>13. ASSUME downLists PROVE KeyInv'
  BY <1>13 DEF downLists, DownFrame
<1>14. ASSUME DestroyServer PROVE KeyInv'
  BY <1>14, DownStays
<1>15. ASSUME terminate PROVE KeyInv'
  BY <1>15, DownStays
<1>16. ASSUME DeleteVolume PROVE KeyInv'
  BY <1>16, DownStays
<1>17. ASSUME verifyEmpty PROVE KeyInv'
  BY <1>17 DEF verifyEmpty, DownFrame
<1>18. ASSUME ReapAux PROVE KeyInv'
  BY <1>18 DEF ReapAux, DownFrame
<1>19. ASSUME Crash PROVE KeyInv'
  BY <1>19 DEF Crash
<1> QED
  BY <1>1, <1>2, <1>3, <1>4, <1>5, <1>6, <1>7, <1>8, <1>9, <1>10, <1>11,
      <1>12, <1>13, <1>14, <1>15, <1>16, <1>17, <1>18, <1>19 DEF Next

\* Servers come with the life at hand, and one at work before a life was seen by
\* its preflight, if that could list.
LEMMA LifeStep ==
  ASSUME DriversInv, Next
  PROVE  LifeInv'
<1>t. Typed /\ WaitInv /\ LifeInv /\ Around
  BY TypedIsTypeOK, AroundStep DEF DriversInv
<1>1. ASSUME upBegins PROVE LifeInv'
  <2>1. srv' = srv /\ life' = life + 1 /\ upPreflight
    BY <1>1 DEF upBegins, cloudVars
  <2>2. \A s \in Sid : srv'[s].of <= life'
    BY <1>t, <2>1 DEF LifeInv, Typed, Server
  <2>3. CASE ListByTag = {}
    <3>1. Working = {}
      BY <2>3 DEF ListByTag, instancesByTag, listInstances, Working
    <3> QED
      BY <2>1, <2>2, <3>1 DEF LifeInv, Working
  <2>4. CASE life' \in blind'
    BY <2>2, <2>4 DEF LifeInv
  <2> QED
    BY <2>1, <2>3, <2>4 DEF upPreflight
<1>2. ASSUME ~upBegins PROVE LifeInv'
  <2>1. life' = life /\ (cmd' = "up" => cmd = "up")
    BY <1>2 DEF Next, upBegins, upSettles, ensureCloudFirewall, ensureLoginKey, registerKey,
        KeyFrame, launch, LaunchFrame, finishBoot, waitRunning, Boots, Reclaims, BootFrame,
        Vanishes, downBegins, downLists, DestroyServer, terminate, DeleteVolume, DestroyOk,
        DestroyErr, verifyEmpty, ReapAux, Crash, DownFrame
  <2>2. ASSUME NEW s \in Sid
        PROVE  /\ srv'[s].of <= life
               /\ cmd' = "up" /\ srv'[s].st \in AtWork => srv'[s].of = life \/ life \in blind
    <3>1. CASE Begun(s)
      BY <1>t, <3>1 DEF Begun, New, Typed
    <3>2. CASE Kept(s) \/ Moved(s)
      BY <1>t, <2>1, <3>2 DEF Kept, Moved, LifeInv, Working, AtWork
    <3> QED
      BY <1>t, <3>1, <3>2, ServerStep
  <2> QED
    BY <1>t, <2>1, <2>2 DEF LifeInv, Working, AtWork, Around
<1> QED
  BY <1>1, <1>2

\* A create is repeated only when the instance it waited for had died.
LEMMA CreateStep ==
  ASSUME DriversInv, Next
  PROVE  CreateInv'
<1>t. Typed /\ WaitInv /\ LifeInv /\ CreateInv
  BY TypedIsTypeOK DEF DriversInv
<1> USE <1>t DEF CreateInv, upVars, cloudVars, downVars, histVars
<1>1. ASSUME upBegins PROVE CreateInv'
  <2>1. srv' = srv /\ life' = life + 1
    BY <1>1 DEF upBegins
  <2>2. \A s \in Sid : srv'[s].of # life'
    BY <2>1 DEF LifeInv, Typed, Server
  <2> QED
    BY <2>2 DEF Working
<1>2. ASSUME upSettles PROVE CreateInv'
  BY <1>2 DEF upSettles
<1>3. ASSUME ensureCloudFirewall PROVE CreateInv'
  BY <1>3 DEF ensureCloudFirewall
<1>4. ASSUME NEW n \in Node, ensureLoginKey(n) PROVE CreateInv'
  <2>1. KeyChosen(n) /\ KeyFrame
    BY <1>4, KeyStep
  <2> QED
    BY <2>1 DEF KeyChosen, Using, Goto, KeyFrame, Typed, Working
<1>5. ASSUME NEW n \in Node, registerKey(n) PROVE CreateInv'
  <2>1. KeyChosen(n) /\ KeyFrame
    BY <1>5, KeyStep
  <2> QED
    BY <2>1 DEF KeyChosen, Using, Goto, KeyFrame, Typed, Working
<1>6. ASSUME NEW n \in Node, launch(n) PROVE CreateInv'
  <2>1. LaunchFrame /\ cmd = "up" /\ pc[n] = "launch"
    BY <1>6, LaunchStep
  <2>2. CASE LaunchRefused(n)
    BY <2>1, <2>2 DEF LaunchRefused, Goto, LaunchFrame, Typed, Working
  <2>3. ASSUME NEW s \in Sid, Made(n, s) PROVE CreateInv'
    <3>1. SUFFICES ASSUME NEW m \in Node, NEW y \in Sid, y \in Working' \ doubled',
                          srv'[y].node = m, srv'[y].of = life'
                   PROVE  /\ pc'[m] \notin {"key", "register", "launch"}
                          /\ pc'[m] = "boot" => y = mine'[m]
      BY DEF Working
    <3>2. m # n => pc'[m] = pc[m] /\ mine'[m] = mine[m]
      BY <2>3 DEF Made, Goto, Typed
    <3>3. doubled \subseteq doubled' /\ life' = life
      BY <2>1, <2>3 DEF Made, LaunchFrame
    <3>4. CASE y = s
      <4>1. m = n
        BY <2>3, <3>1, <3>4 DEF Made, New, Typed
      <4>2. s \notin doubled'
        BY <3>1, <3>4
      <4> QED
        BY <2>3, <3>4, <4>1, <4>2 DEF Made, Goto, Typed
    <3>5. CASE y # s
      <4>1. y \in Working \ doubled /\ srv[y].node = m /\ srv[y].of = life
        BY <2>3, <3>1, <3>3, <3>5 DEF Made, Working, Typed
      <4>2. m # n
        BY <2>1, <4>1
      <4> QED
        BY <2>1, <3>2, <4>1, <4>2
    <3> QED
      BY <3>4, <3>5
  <2> QED
    BY <1>6, <2>2, <2>3, LaunchStep
<1>7. ASSUME NEW n \in Node, finishBoot(n) PROVE CreateInv'
  <2>1. Elsewhere
    BY <1>7 DEF Elsewhere
  <2>2. \A x \in Sid : Kept(x) \/ Moved(x)
    BY <2>1, MovedStep
  <2>3. \A x \in Working' : x \in Working /\ srv'[x].node = srv[x].node /\ srv'[x].of = srv[x].of
    BY <2>2 DEF Kept, Moved, AtWork, Working
  <2> QED
    BY <1>7, <2>3 DEF finishBoot, Goto, BootFrame, Typed
<1>8. ASSUME NEW n \in Node, waitRunning(n) PROVE CreateInv'
  <2>1. Elsewhere
    BY <1>8 DEF Elsewhere
  <2>2. \A x \in Sid : Kept(x) \/ Moved(x)
    BY <2>1, MovedStep
  <2>3. \A x \in Working' : x \in Working /\ srv'[x].node = srv[x].node /\ srv'[x].of = srv[x].of
    BY <2>2 DEF Kept, Moved, AtWork, Working
  <2>4. pc[n] = "boot" /\ cmd = "up" /\ BootFrame
    BY <1>8 DEF waitRunning
  <2>5. \A m \in Node : m # n => pc'[m] = pc[m]
    BY <1>8 DEF waitRunning, bootDone, bootDied, bootGivenUp, Goto, Typed
  <2>6. pc'[n] \in {"ok", "failed"} \/ (pc'[n] = "key" /\ mine[n] \notin Working)
    BY <1>8 DEF waitRunning, bootDone, bootDied, bootGivenUp, Transient, Goto, Typed, Working
  <2> QED
    BY <2>3, <2>4, <2>5, <2>6 DEF BootFrame
<1>9. ASSUME NEW s \in Sid, Boots(s) PROVE CreateInv'
  <2>1. Elsewhere
    BY <1>9 DEF Elsewhere
  <2>2. \A x \in Sid : Kept(x) \/ Moved(x)
    BY <2>1, MovedStep
  <2>3. \A x \in Working' : x \in Working /\ srv'[x].node = srv[x].node /\ srv'[x].of = srv[x].of
    BY <2>2 DEF Kept, Moved, AtWork, Working
  <2> QED
    BY <1>9, <2>3 DEF Boots, BootFrame
<1>10. ASSUME NEW s \in Sid, Reclaims(s) PROVE CreateInv'
  <2>1. Elsewhere
    BY <1>10 DEF Elsewhere
  <2>2. \A x \in Sid : Kept(x) \/ Moved(x)
    BY <2>1, MovedStep
  <2>3. \A x \in Working' : x \in Working /\ srv'[x].node = srv[x].node /\ srv'[x].of = srv[x].of
    BY <2>2 DEF Kept, Moved, AtWork, Working
  <2> QED
    BY <1>10, <2>3 DEF Reclaims, BootFrame
<1>11. ASSUME NEW s \in Sid, Vanishes(s) PROVE CreateInv'
  <2>1. Elsewhere
    BY <1>11 DEF Elsewhere
  <2>2. \A x \in Sid : Kept(x) \/ Moved(x)
    BY <2>1, MovedStep
  <2>3. \A x \in Working' : x \in Working /\ srv'[x].node = srv[x].node /\ srv'[x].of = srv[x].of
    BY <2>2 DEF Kept, Moved, AtWork, Working
  <2> QED
    BY <1>11, <2>3 DEF Vanishes, DownFrame
<1>12. ASSUME downBegins PROVE CreateInv'
  BY <1>12 DEF downBegins, DownFrame
<1>13. ASSUME downLists PROVE CreateInv'
  BY <1>13 DEF downLists, DownFrame
<1>14. ASSUME DestroyServer PROVE CreateInv'
  BY <1>14, DownStays
<1>15. ASSUME terminate PROVE CreateInv'
  BY <1>15, DownStays
<1>16. ASSUME DeleteVolume PROVE CreateInv'
  BY <1>16, DownStays
<1>17. ASSUME verifyEmpty PROVE CreateInv'
  BY <1>17 DEF verifyEmpty, DownFrame
<1>18. ASSUME ReapAux PROVE CreateInv'
  BY <1>18 DEF ReapAux, DownFrame
<1>19. ASSUME Crash PROVE CreateInv'
  BY <1>19 DEF Crash
<1> QED
  BY <1>1, <1>2, <1>3, <1>4, <1>5, <1>6, <1>7, <1>8, <1>9, <1>10, <1>11,
      <1>12, <1>13, <1>14, <1>15, <1>16, <1>17, <1>18, <1>19 DEF Next

\* Nothing starts to work once the listing was empty.
LEMMA EmptyStep ==
  ASSUME DriversInv, Next
  PROVE  EmptyInv'
<1>t. Typed /\ CloudInv /\ EmptyInv
  BY TypedIsTypeOK DEF DriversInv
<1> USE <1>t DEF EmptyInv, upVars, cloudVars, downVars, histVars
<1>1. ASSUME upBegins PROVE EmptyInv'
  BY <1>1 DEF upBegins
<1>2. ASSUME upSettles PROVE EmptyInv'
  BY <1>2 DEF upSettles
<1>3. ASSUME ensureCloudFirewall PROVE EmptyInv'
  BY <1>3 DEF ensureCloudFirewall
<1>4. ASSUME NEW n \in Node, ensureLoginKey(n) PROVE EmptyInv'
  BY <1>4 DEF ensureLoginKey, KeyFrame
<1>5. ASSUME NEW n \in Node, registerKey(n) PROVE EmptyInv'
  BY <1>5 DEF registerKey, KeyFrame
<1>6. ASSUME NEW n \in Node, launch(n) PROVE EmptyInv'
  BY <1>6 DEF launch, LaunchFrame
<1>7. ASSUME NEW n \in Node, finishBoot(n) PROVE EmptyInv'
  BY <1>7 DEF finishBoot, BootFrame
<1>8. ASSUME NEW n \in Node, waitRunning(n) PROVE EmptyInv'
  BY <1>8 DEF waitRunning, BootFrame
<1>9. ASSUME NEW s \in Sid, Boots(s) PROVE EmptyInv'
  BY <1>9 DEF Boots, BootFrame
<1>10. ASSUME NEW s \in Sid, Reclaims(s) PROVE EmptyInv'
  BY <1>10 DEF Reclaims, BootFrame
<1>11. ASSUME NEW s \in Sid, Vanishes(s) PROVE EmptyInv'
  BY <1>11 DEF Vanishes, DownFrame
<1>12. ASSUME downBegins PROVE EmptyInv'
  BY <1>12 DEF downBegins, DownFrame
<1>13. ASSUME downLists PROVE EmptyInv'
  BY <1>13 DEF downLists, DownFrame
<1>14. ASSUME DestroyServer PROVE EmptyInv'
  BY <1>14, DownStays
<1>15. ASSUME terminate PROVE EmptyInv'
  BY <1>15, DownStays
<1>16. ASSUME DeleteVolume PROVE EmptyInv'
  BY <1>16, DownStays
<1>17. ASSUME verifyEmpty PROVE EmptyInv'
  <2>1. srv' = srv
    BY <1>17 DEF verifyEmpty, DownFrame
  <2> QED
    BY <1>17, <2>1 DEF verifyEmpty, DownFrame, ListByTag, instancesByTag, listInstances
<1>18. ASSUME ReapAux PROVE EmptyInv'
  <2>1. srv' = srv
    BY <1>18 DEF ReapAux, DownFrame
  <2> QED
    BY <1>18, <2>1 DEF ReapAux, DownFrame, reapHetzner, reapKeys, deleteFirewall,
        KeyByName, CloudInv
<1>19. ASSUME Crash PROVE EmptyInv'
  BY <1>19 DEF Crash
<1> QED
  BY <1>1, <1>2, <1>3, <1>4, <1>5, <1>6, <1>7, <1>8, <1>9, <1>10, <1>11,
      <1>12, <1>13, <1>14, <1>15, <1>16, <1>17, <1>18, <1>19 DEF Next

\* A server is deleted with its volume at hand, and what fails afterwards is noted.
LEMMA LeftoverStep ==
  ASSUME DriversInv, Next
  PROVE  LeftoverExplained'
<1>t. Typed /\ WaitInv /\ CloudInv /\ LeftoverExplained /\ Around
  BY TypedIsTypeOK, AroundStep DEF DriversInv
<1> SUFFICES ASSUME NEW x \in vol', srv'[x].st = "gone"
             PROVE  x \in slipped' \/ (cmd' = "volumes" /\ target' = x)
  BY DEF LeftoverExplained
<1>1. drv = "scaleway" /\ x \in vol /\ x \in Sid
  BY <1>t DEF Around, CloudInv, Typed
<1>2. CASE x \in slipped
  BY <1>t, <1>2 DEF Around
<1>3. CASE srv[x].st = "gone" /\ cmd = "volumes" /\ target = x
  <2>1. \/ DeleteVolume \/ Crash \/ UNCHANGED <<cmd, target>>
    BY <1>3 DEF Next, upBegins, upSettles, ensureCloudFirewall, ensureLoginKey, registerKey,
        launch, finishBoot, waitRunning, Boots, Reclaims, Vanishes, BootFrame, downVars,
        downBegins, downLists, DestroyServer, terminate, verifyEmpty, ReapAux
  <2>2. CASE DeleteVolume
    BY <1>1, <1>3, <2>2 DEF DeleteVolume
  <2>3. CASE Crash
    BY <1>3, <2>3 DEF Crash
  <2> QED
    BY <1>3, <2>1, <2>2, <2>3
<1>4. CASE srv[x].st # "gone"
  <2>1. cmd = "destroy" /\ target = x
    <3>1. ~Begun(x) /\ ~Kept(x)
      <4>1. \A n \in Node : New(n).st # "gone"
        BY DEF New
      <4> QED
        BY <1>4, <4>1 DEF Begun, Kept
    <3>2. Moved(x)
      BY <1>t, <1>1, <3>1, ServerStep
    <3> QED
      BY <1>t, <1>1, <1>4, <3>2 DEF Moved, CloudInv
  <2>2. CASE terminate
    <3>1. srv' # srv
      BY <1>4
    <3>2. blockVolumeIDs # {}
      BY <1>1, <2>1 DEF blockVolumeIDs
    <3> QED
      BY <2>1, <2>2, <3>1, <3>2 DEF terminate
  <2>3. ASSUME NEW s \in Sid, Boots(s) PROVE FALSE
    <3>1. srv' = [srv EXCEPT ![s].st = "running"]
      BY <2>3 DEF Boots
    <3>2. "running" \in ServerState /\ srv \in [Sid -> Server]
      BY <1>t DEF ServerState, Typed
    <3> QED
      BY <1>1, <1>4, <3>1, <3>2, StateChange
  <2>4. ASSUME NEW s \in Sid, Vanishes(s) \/ Reclaims(s) PROVE FALSE
    BY <1>t, <1>1, <2>4 DEF Vanishes, Reclaims, CloudInv
  <2>5. CASE verifyEmpty \/ Crash
    BY <1>4, <2>5 DEF verifyEmpty, Crash, cloudVars
  <2>6. ~DestroyServer
    BY <1>1 DEF DestroyServer
  <2> QED
    BY <2>1, <2>2, <2>3, <2>4, <2>5, <2>6 DEF Next, upBegins, upSettles,
        ensureCloudFirewall, ensureLoginKey, registerKey, launch, finishBoot, waitRunning,
        downBegins, downLists, DeleteVolume, ReapAux
<1> QED
  BY <1>t, <1>1, <1>2, <1>3, <1>4 DEF LeftoverExplained

\* s and t are one server, or t is of a later life, which began blind.
Same(s, t) == s = t \/ (srv[s].of < srv[t].of /\ srv[t].of \in blind)

\* A launch is asked for by a node that has no server of its life at work but those
\* it asked for again.
LEMMA OneServerStep ==
  ASSUME DriversInv, Next
  PROVE  OneServerPerNode'
<1> USE DEF DriversInv
<1>1. Around /\ Typed
  BY AroundStep, TypedIsTypeOK
<1>2. ASSUME NEW s \in Sid \ doubled', NEW t \in Sid \ doubled',
             srv'[s].st \in AtWork, srv'[t].st \in AtWork, srv'[s].node = srv'[t].node,
             srv'[s].of <= srv'[t].of
      PROVE  Same(s, t)'
  <2>1. s \notin doubled /\ t \notin doubled /\ blind \subseteq blind'
    BY <1>1, <1>2 DEF Around
  <2>2. ASSUME \A x \in {s, t} : /\ srv[x].st \in AtWork
                                  /\ srv'[x].node = srv[x].node /\ srv'[x].of = srv[x].of
        PROVE  Same(s, t)'
    <3>1. s \in Working \ doubled /\ t \in Working \ doubled
      BY <2>1, <2>2 DEF Working, AtWork
    <3>2. srv[s].node = srv[t].node /\ srv[s].of <= srv[t].of
      BY <1>2, <2>2
    <3>3. Same(s, t)
      BY <3>1, <3>2 DEF OneServerPerNode, Same
    <3> QED
      BY <2>1, <2>2, <3>3 DEF Same
  <2>3. CASE Elsewhere
    <3>1. \A x \in {s, t} : Kept(x) \/ Moved(x)
      BY <1>1, <2>3, MovedStep
    <3> QED
      BY <1>2, <2>2, <3>1 DEF Kept, Moved
  <2>4. ASSUME NEW n \in Node, launch(n) PROVE Same(s, t)'
    <3>1. cmd = "up" /\ pc[n] = "launch" /\ UNCHANGED <<life, blind>>
      BY <2>4, LaunchStep DEF LaunchFrame
    <3>2. CASE srv' = srv
      BY <1>2, <2>2, <3>2
    <3>3. ASSUME NEW y \in Sid, srv' = [srv EXCEPT ![y] = New(n)] PROVE Same(s, t)'
      <4>1. srv'[y].node = n /\ srv'[y].of = life
        BY <1>1, <3>3 DEF Typed, New
      <4>2. \A x \in Sid : x # y => srv'[x] = srv[x]
        BY <1>1, <3>3 DEF Typed
      <4>3. ASSUME NEW x \in {s, t}, x # y, srv[x].node = n
            PROVE  srv[x].of < life /\ life \in blind
        <5>1. x \in Working \ doubled
          BY <1>2, <2>1, <4>2, <4>3 DEF Working, AtWork
        <5>2. srv[x].of # life
          BY <3>1, <4>3, <5>1 DEF CreateInv
        <5>3. srv[x].of <= life /\ life \in blind
          BY <3>1, <5>1, <5>2 DEF LifeInv, Working
        <5>4. srv[x].of \in Nat /\ life \in Nat
          BY <1>1 DEF Typed, Server
        <5> QED
          BY <5>2, <5>3, <5>4
      <4>4. CASE s # y /\ t # y
        BY <1>2, <2>2, <4>2, <4>4
      <4>5. CASE s = y /\ t # y
        <5>1. srv[t].of < life /\ srv'[t].of = srv[t].of
          BY <1>2, <4>1, <4>2, <4>3, <4>5
        <5>2. srv[t].of \in Nat /\ life \in Nat
          BY <1>1 DEF Typed, Server
        <5> QED
          BY <1>2, <4>1, <4>5, <5>1, <5>2
      <4>6. CASE t = y /\ s # y
        <5>1. srv[s].of < life /\ life \in blind /\ srv'[s].of = srv[s].of
          BY <1>2, <4>1, <4>2, <4>3, <4>6
        <5> QED
          BY <3>1, <4>1, <4>6, <5>1 DEF Same
      <4> QED
        BY <4>4, <4>5, <4>6 DEF Same
    <3> QED
      BY <2>4, <3>2, <3>3, LaunchStep DEF LaunchRefused, Made
  <2> QED
    BY <2>3, <2>4 DEF Next, Elsewhere
<1> QED
  BY <1>2 DEF OneServerPerNode, Same, Working, AtWork

\* A server carries the key its node chose, which is the life's.
LEMMA KeyedStep ==
  ASSUME DriversInv, Next
  PROVE  KeyedInv'
<1> USE DEF DriversInv
<1>1. Around /\ Typed
  BY AroundStep, TypedIsTypeOK
<1>2. ASSUME NEW s \in Sid, srv'[s].of \notin dirty' PROVE srv'[s].key = srv'[s].of
  <2>1. srv'[s].of \notin dirty
    BY <1>1, <1>2 DEF Around
  <2>2. CASE Begun(s)
    BY <2>1, <2>2 DEF Begun, New, KeyInv
  <2>3. CASE Kept(s) \/ Moved(s)
    BY <2>1, <2>3 DEF KeyedInv, Kept, Moved
  <2> QED
    BY <1>1, <2>2, <2>3, ServerStep
<1> QED
  BY <1>2 DEF KeyedInv

-----------------------------------------------------------------------------
LEMMA DriversInit == Init => DriversInv
<1> SUFFICES ASSUME Init PROVE DriversInv
  OBVIOUS
<1>1. NoServer \in Server
  BY DEF NoServer, Server, ServerState
<1>2. TypeOK
  <2>1. life \in 0..MaxLife /\ faults \in 0..MaxFault /\ tries \in 0..(DestroyAttempts - 1)
    BY Bounds DEF Init
  <2>2. /\ srv \in [Sid -> Server] /\ attempt \in [Node -> 1..MaxAttempts]
        /\ key \in [Node -> 0..MaxLife]
    BY <1>1, Bounds DEF Init
  <2>3. Typed
    BY <2>1, <2>2 DEF Init, Typed
  <2> QED
    BY <2>3, TypedIsTypeOK
<1>3. CloudInv /\ WaitInv /\ KeyInv /\ EmptyInv /\ LeftoverExplained
  BY DEF Init, CloudInv, WaitInv, KeyInv, EmptyInv, LeftoverExplained, NoServer
<1>4. LifeInv /\ CreateInv /\ OneServerPerNode /\ KeyedInv
  BY DEF Init, LifeInv, CreateInv, OneServerPerNode, Working, KeyedInv, NoServer
<1> QED
  BY <1>2, <1>3, <1>4 DEF DriversInv

LEMMA DriversStep == DriversInv /\ [Next]_vars => DriversInv'
<1> SUFFICES ASSUME DriversInv, [Next]_vars PROVE DriversInv'
  OBVIOUS
<1>1. CASE Next
  <2>1. Typed'
    BY <1>1, TypedStep, TypedIsTypeOK DEF DriversInv
  <2>2. TypeOK'
    BY <2>1 DEF Typed, TypeOK, Server, ServerState
  <2> QED
    BY <1>1, <2>2, CloudStep, WaitStep, KeyInvStep, LifeStep, CreateStep, EmptyStep, LeftoverStep,
        OneServerStep, KeyedStep DEF DriversInv
<1>2. CASE UNCHANGED vars
  <2> USE <1>2 DEF vars, upVars, cloudVars, downVars, histVars
  <2>1. TypeOK' <=> TypeOK
    BY DEF TypeOK
  <2>2. /\ (CloudInv' <=> CloudInv) /\ (WaitInv' <=> WaitInv) /\ (KeyInv' <=> KeyInv)
        /\ (EmptyInv' <=> EmptyInv) /\ (KeyedInv' <=> KeyedInv)
    BY DEF CloudInv, WaitInv, KeyInv, EmptyInv, KeyedInv
  <2>3. /\ (CreateInv' <=> CreateInv) /\ (LeftoverExplained' <=> LeftoverExplained)
        /\ (OneServerPerNode' <=> OneServerPerNode) /\ (LifeInv' <=> LifeInv)
    BY DEF LifeInv, CreateInv, LeftoverExplained, OneServerPerNode, Working
  <2> QED
    BY <2>1, <2>2, <2>3 DEF DriversInv
<1> QED
  BY <1>1, <1>2

LEMMA DriversInvariant == Spec => []DriversInv
  BY DriversInit, DriversStep, PTL DEF Spec

\* Every variable of the drivers' model keeps its type.
THEOREM DriversTypes == Spec => []TypeOK
<1>1. DriversInv => TypeOK
  BY DEF DriversInv
<1> QED
  BY <1>1, DriversInvariant, PTL

\* A block volume whose server is gone is about to be deleted, or its deletion
\* failed: no other order of calls, retries and crashes leaves one behind.
THEOREM VolumesExplained == Spec => []LeftoverExplained
<1>1. DriversInv => LeftoverExplained
  BY DEF DriversInv
<1> QED
  BY <1>1, DriversInvariant, PTL

\* A Down that reports success leaves no server that bills, no login key under the
\* cluster's name, no edge firewall and no volume but those whose teardown had
\* failed before, with every driver and whatever calls failed on the way.
THEOREM DownIsClean == Spec => []DownLeavesNothing
<1>1. DriversInv => DownLeavesNothing
  <2> SUFFICES ASSUME DriversInv, cmd = "done", NEW s \in vol PROVE s \in slipped
    BY DEF DriversInv, EmptyInv, DownLeavesNothing
  <2>1. drv = "scaleway" /\ s \in Sid
    BY DEF DriversInv, CloudInv, TypeOK
  <2>2. srv[s].st = "gone"
    BY <2>1 DEF DriversInv, CloudInv, EmptyInv
  <2> QED
    BY <2>2 DEF DriversInv, LeftoverExplained
<1> QED
  BY <1>1, DriversInvariant, PTL

\* However creates are retried, abandoned and rolled back, a node's servers at work
\* are, but for one, servers whose launch was answered with an error the driver asks
\* again after, or of a life before one that began without a listing.
THEOREM OneServer == Spec => []OneServerPerNode
<1>1. DriversInv => OneServerPerNode
  BY DEF DriversInv
<1> QED
  BY <1>1, DriversInvariant, PTL

\* Every server was launched with the login key of its own life, unless that life
\* began with an earlier key still registered under the cluster's name.
THEOREM LoginKeys == Spec => []LoginKeyCurrent
<1>1. DriversInv => LoginKeyCurrent
  BY DEF DriversInv, KeyedInv, LoginKeyCurrent
<1> QED
  BY <1>1, DriversInvariant, PTL

=============================================================================
