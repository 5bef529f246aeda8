--------------------------- MODULE RuntimeProofs ---------------------------
(***************************************************************************)
(* Proofs about Runtime: up ends with the code of the workload it          *)
(* launched, whoever else tails the log and whatever reboots, and the      *)
(* dead-man's switch spares a node in use, for any exit codes, any number  *)
(* of launches and any idle window.                                        *)
(***************************************************************************)
EXTENDS Runtime, TLAPS

owner == cli["owner"]

\* The run log against the session: a workload that runs writes a log of its own
\* that has no marker yet, and the first run's marker carries its code and is
\* there only once the session is gone.
LogInv ==
    /\ run = 0 => log.marker = "no" /\ proc \in {"none", "gone"}
    /\ proc \in {"running", "hot"} => log.of = run /\ log.marker = "no"
    /\ run = 1 /\ log.marker # "no" => log.of = 1 /\ log.code = code /\ proc = "gone"

\* up is the command of the first launch and of no other; when it has ended with
\* a code, it read that launch's marker.
OwnerInv ==
    /\ owner.cmd = "none" => owner.at = "idle"
    /\ owner.cmd = "up" => run = 1
    /\ owner.cmd = "up" /\ owner.at = "exited" =>
         log.marker = "plain" /\ owner.of = 1 /\ owner.status = code

\* The heartbeat is never older than the last use the switch saw.
AgeInv == hb <= unseen

\* A run of the switch that goes on past its first look, and past its second, found
\* no use of the node that has not begun since.
LookInv ==
    /\ dm = "gpu" => hb = 0 \/ \A c \in Client : cli[c].at = "tail" => c \in late
    /\ dm = "due" =>
         /\ hb > TTL
         /\ \A c \in Client : cli[c].at = "tail" => c \in late
         /\ Hot => "gpu" \in late

\* The inductive invariant.
RuntimeInv == TypeOK /\ LogInv /\ OwnerInv /\ AgeInv /\ LookInv

-----------------------------------------------------------------------------
USE RuntimeAssumption

LogType == [of : 0..MaxRuns, open : BOOLEAN, long : BOOLEAN,
            marker : {"no", "plain", "hidden"}, code : Codes]
CliType == [at : {"idle", "launched", "tail", "exited", "detached", "broken"},
            cmd : {"none", "up", "start", "attach"}, of : 0..MaxRuns, status : Codes]

\* TypeOK, with the records' types named.
Typed ==
    /\ power \in BOOLEAN /\ gpu \in BOOLEAN /\ timer \in BOOLEAN
    /\ proc \in {"none", "starting", "running", "hot", "gone"}
    /\ run \in 0..MaxRuns /\ log \in LogType /\ cli \in [Client -> CliType]
    /\ hb \in NoFile..(TTL + 1) /\ unseen \in 0..(TTL + 1)
    /\ dm \in {"no", "gpu", "due"} /\ late \subseteq Client \cup {"gpu"}
    /\ names \in BOOLEAN /\ dns \in BOOLEAN
    /\ set \in {"none", "stale", "fresh"} /\ svc \in {"none", "enabled", "serving"}
    /\ cert \in {"none", "half", "both"} /\ code \in Codes

LEMMA TypedIsTypeOK == Typed <=> TypeOK
  BY DEF Typed, TypeOK, LogType, CliType

\* What the actions make of a client's record is one, too.
LEMMA CliTyped ==
  ASSUME NEW r \in CliType
  PROVE  /\ \A to \in {"tail", "detached", "broken"} : [r EXCEPT !.at = to] \in CliType
         /\ \A k \in 0..MaxRuns, x \in Codes :
              [r EXCEPT !.at = "exited", !.of = k, !.status = x] \in CliType
  BY DEF CliType

\* The same for the log.
LEMMA LogTyped ==
  ASSUME NEW l \in LogType
  PROVE  /\ NoLog \in LogType
         /\ \A k \in 0..MaxRuns : [NoLog EXCEPT !.of = k] \in LogType
         /\ \A open, long \in BOOLEAN :
              [l EXCEPT !.open = open, !.long = long] \in LogType
         /\ \A m \in {"plain", "hidden"}, x \in Codes :
              [l EXCEPT !.marker = m, !.code = x] \in LogType
<1>1. NoLog \in LogType
  <2>1. 0 \in 0..MaxRuns
    OBVIOUS
  <2> QED
    BY <2>1 DEF NoLog, LogType
<1>2. \A k \in 0..MaxRuns : [NoLog EXCEPT !.of = k] \in LogType
  BY <1>1 DEF LogType
<1>3. \A open, long \in BOOLEAN : [l EXCEPT !.open = open, !.long = long] \in LogType
  BY DEF LogType
<1>4. \A m \in {"plain", "hidden"}, x \in Codes :
        [l EXCEPT !.marker = m, !.code = x] \in LogType
  BY DEF LogType
<1> QED
  BY <1>1, <1>2, <1>3, <1>4

\* Halt keeps the types of what it changes.
LEMMA HaltTyped ==
  ASSUME Typed, Halt
  PROVE  /\ proc' \in {"none", "gone"} /\ svc' \in {"none", "enabled"}
         /\ set' = "none" /\ cli' \in [Client -> CliType]
         /\ dm' = "no" /\ late' = {}
<1>1. \A c \in Client : [cli[c] EXCEPT !.at = "broken"] \in CliType
  BY CliTyped DEF Typed
<1> QED
  BY <1>1 DEF Halt, Typed

\* A client that tails loses its connection, and no other is touched.
LEMMA HaltOwner ==
  ASSUME Halt
  PROVE  owner' = owner \/ (owner' = [owner EXCEPT !.at = "broken"] /\ owner.at = "tail")
<1>1. "owner" \in Client
  BY DEF Client
<1> QED
  BY <1>1 DEF Halt, owner

\* Every variable keeps its type.
LEMMA TypedStep ==
  ASSUME Typed, Next
  PROVE  Typed'
<1> USE DEF Typed, workVars, idleVars, egressVars, relayVars
<1>1. ASSUME launchRun PROVE Typed'
  <2>1. run + 1 \in 0..MaxRuns
    BY <1>1 DEF launchRun
  <2>2. cli' \in [Client -> CliType]
    BY <1>1, <2>1 DEF launchRun, CliType
  <2> QED
    BY <1>1, <2>1, <2>2 DEF launchRun
<1>2. ASSUME Truncate PROVE Typed'
  BY <1>2, LogTyped DEF Truncate, WorkFrame
<1>3. ASSUME Output PROVE Typed'
  <2>1. log' \in LogType
    <3>1. PICK open \in BOOLEAN, long \in BOOLEAN :
            log' = [log EXCEPT !.open = open, !.long = log.long \/ long]
      BY <1>3 DEF Output
    <3>2. (log.long \/ long) \in BOOLEAN
      OBVIOUS
    <3> QED
      BY <3>1, <3>2, LogTyped
  <2>2. proc' \in {"running", "hot"}
    BY <1>3 DEF Output
  <2> QED
    <3>1. late' \subseteq Client \cup {"gpu"}
      BY <1>3 DEF Output, After
    <3>2. WorkFrame /\ code' = code
      BY <1>3 DEF Output
    <3> QED
      BY <2>1, <2>2, <3>1, <3>2 DEF WorkFrame
<1>4. ASSUME WorkloadExit PROVE Typed'
  <2>1. PICK x \in Codes :
          /\ code' = x
          /\ log' = [log EXCEPT !.marker = IF log.open THEN "hidden" ELSE "plain",
                                !.code = x]
    BY <1>4 DEF WorkloadExit
  <2>2. log' \in LogType
    BY <2>1, LogTyped
  <2> QED
    BY <1>4, <2>1, <2>2 DEF WorkloadExit, WorkFrame
<1>5. ASSUME openStream PROVE Typed'
  <2>1. cli' \in [Client -> CliType]
    BY <1>5, CliTyped DEF openStream, Client
  <2> QED
    BY <1>5, <2>1 DEF openStream, After, Client, CliFrame
<1>6. ASSUME attachCluster PROVE Typed'
  <2>1. [at |-> "tail", cmd |-> "attach", of |-> 0, status |-> 0] \in CliType
    BY DEF CliType
  <2>2. cli' \in [Client -> CliType]
    BY <1>6, <2>1 DEF attachCluster
  <2> QED
    BY <1>6, <2>2 DEF attachCluster, After, Client, CliFrame
<1>7. ASSUME NEW c \in Client, tailLog(c) PROVE Typed'
  <2>1. log.of \in 0..MaxRuns /\ Status(c) \in Codes
    BY DEF Status, LogType
  <2>2. cli' = [cli EXCEPT ![c] = [cli[c] EXCEPT !.at = "exited", !.of = log.of,
                                                  !.status = Status(c)]]
    BY <1>7 DEF tailLog
  <2>3. cli' \in [Client -> CliType]
    BY <2>1, <2>2, CliTyped
  <2> QED
    BY <1>7, <2>3 DEF tailLog, CliFrame
<1>8. ASSUME NEW c \in Client, Detach(c) PROVE Typed'
  <2>1. cli' \in [Client -> CliType]
    BY <1>8, CliTyped DEF Detach
  <2> QED
    BY <1>8, <2>1 DEF Detach, CliFrame
<1>9. ASSUME NEW c \in Client, StreamBreaks(c) PROVE Typed'
  <2>1. cli' \in [Client -> CliType]
    BY <1>9, CliTyped DEF StreamBreaks
  <2> QED
    BY <1>9, <2>1 DEF StreamBreaks, CliFrame
<1>10. ASSUME deadman PROVE Typed'
  <2>1. hb' \in NoFile..(TTL + 1) /\ unseen' \in 0..(TTL + 1)
    BY <1>10 DEF deadman, Older, NoFile
  <2> QED
    BY <1>10, <2>1 DEF deadman, IdleFrame
<1>11. ASSUME Reboot PROVE Typed'
  BY <1>11, HaltTyped DEF Reboot, NoFile, IdleFrame
<1>12. ASSUME Rotate PROVE Typed'
  BY <1>12 DEF Rotate, EgressFrame
<1>13. ASSUME Flush PROVE Typed'
  BY <1>13 DEF Flush, EgressFrame
<1>14. ASSUME egressRefresh PROVE Typed'
  BY <1>14 DEF egressRefresh, EgressFrame
<1>15. ASSUME relayEnable PROVE Typed'
  BY <1>15 DEF relayEnable, RelayFrame
<1>16. ASSUME relayStart PROVE Typed'
  BY <1>16 DEF relayStart, RelayFrame
<1>17. ASSUME relayDies PROVE Typed'
  BY <1>17 DEF relayDies, RelayFrame
<1>18. ASSUME deadmanAge PROVE Typed'
  <2>1. hb' \in NoFile..(TTL + 1) /\ unseen' \in 0..(TTL + 1)
    BY <1>18 DEF deadmanAge, NoFile
  <2>2. dm' \in {"no", "due"} /\ late' \subseteq Client \cup {"gpu"}
    BY <1>18 DEF deadmanAge
  <2> QED
    BY <1>18, <2>1, <2>2 DEF deadmanAge, IdleFrame
<1>19. ASSUME poweroff PROVE Typed'
  BY <1>19, HaltTyped DEF poweroff, IdleFrame
<1>20. ASSUME Network PROVE Typed'
  BY <1>20 DEF Network, EgressFrame
<1> QED
  BY <1>1, <1>2, <1>3, <1>4, <1>5, <1>6, <1>7, <1>8, <1>9, <1>10, <1>11,
      <1>12, <1>13, <1>14, <1>15, <1>16, <1>17, <1>18, <1>19, <1>20 DEF Next

\* A new session starts its own log, and a marker is written once.
LEMMA LogStep ==
  ASSUME RuntimeInv, Next
  PROVE  LogInv'
<1> USE DEF RuntimeInv, LogInv, workVars
<1>t. Typed
  BY TypedIsTypeOK
<1>1. ASSUME launchRun PROVE LogInv'
  BY <1>1, <1>t DEF launchRun, Typed
<1>2. ASSUME Truncate PROVE LogInv'
  BY <1>2, <1>t DEF Truncate, WorkFrame, Typed, NoLog
<1>3. ASSUME Output PROVE LogInv'
  BY <1>3, <1>t DEF Output, WorkFrame
<1>4. ASSUME WorkloadExit PROVE LogInv'
  BY <1>4, <1>t DEF WorkloadExit, WorkFrame
<1>5. ASSUME openStream PROVE LogInv'
  BY <1>5, <1>t DEF openStream, CliFrame
<1>6. ASSUME attachCluster PROVE LogInv'
  BY <1>6, <1>t DEF attachCluster, CliFrame
<1>7. ASSUME NEW c \in Client, tailLog(c) PROVE LogInv'
  BY <1>7, <1>t DEF tailLog, CliFrame
<1>8. ASSUME NEW c \in Client, Detach(c) PROVE LogInv'
  BY <1>8, <1>t DEF Detach, CliFrame
<1>9. ASSUME NEW c \in Client, StreamBreaks(c) PROVE LogInv'
  BY <1>9, <1>t DEF StreamBreaks, CliFrame
<1>10. ASSUME deadman PROVE LogInv'
  BY <1>10, <1>t DEF deadman, IdleFrame
<1>11. ASSUME Reboot PROVE LogInv'
  BY <1>11, <1>t DEF Reboot, IdleFrame, Halt
<1>12. ASSUME Rotate PROVE LogInv'
  BY <1>12, <1>t DEF Rotate, EgressFrame
<1>13. ASSUME Flush PROVE LogInv'
  BY <1>13, <1>t DEF Flush, EgressFrame
<1>14. ASSUME egressRefresh PROVE LogInv'
  BY <1>14, <1>t DEF egressRefresh, EgressFrame
<1>15. ASSUME relayEnable PROVE LogInv'
  BY <1>15, <1>t DEF relayEnable, RelayFrame
<1>16. ASSUME relayStart PROVE LogInv'
  BY <1>16, <1>t DEF relayStart, RelayFrame
<1>17. ASSUME relayDies PROVE LogInv'
  BY <1>17, <1>t DEF relayDies, RelayFrame
<1>18. ASSUME deadmanAge PROVE LogInv'
  BY <1>18, <1>t DEF deadmanAge, IdleFrame
<1>19. ASSUME poweroff PROVE LogInv'
  BY <1>19, <1>t DEF poweroff, IdleFrame, Halt
<1>20. ASSUME Network PROVE LogInv'
  BY <1>20, <1>t DEF Network, EgressFrame
<1> QED
  BY <1>1, <1>2, <1>3, <1>4, <1>5, <1>6, <1>7, <1>8, <1>9, <1>10, <1>11,
      <1>12, <1>13, <1>14, <1>15, <1>16, <1>17, <1>18, <1>19, <1>20 DEF Next

\* Only a launch replaces the owning command, and only the marker ends it.
LEMMA OwnerStep ==
  ASSUME RuntimeInv, Next
  PROVE  OwnerInv'
<1> USE DEF RuntimeInv, LogInv, OwnerInv, owner, workVars
<1>t. Typed
  BY TypedIsTypeOK
<1>1. ASSUME launchRun PROVE OwnerInv'
  BY <1>1, <1>t DEF launchRun, Typed, Client
<1>2. ASSUME Truncate PROVE OwnerInv'
  BY <1>2, <1>t DEF Truncate, WorkFrame
<1>3. ASSUME Output PROVE OwnerInv'
  BY <1>3, <1>t DEF Output, WorkFrame
<1>4. ASSUME WorkloadExit PROVE OwnerInv'
  BY <1>4, <1>t DEF WorkloadExit, WorkFrame
<1>5. ASSUME openStream PROVE OwnerInv'
  BY <1>5, <1>t DEF openStream, CliFrame
<1>6. ASSUME attachCluster PROVE OwnerInv'
  BY <1>6, <1>t DEF attachCluster, CliFrame
<1>7. ASSUME NEW c \in Client, tailLog(c) PROVE OwnerInv'
  <2>1. CASE c = "owner"
    BY <1>7, <1>t, <2>1 DEF tailLog, CliFrame, Typed, CliType, Client, Status, MarkerSeen
  <2>2. CASE c # "owner"
    BY <1>7, <1>t, <2>2 DEF tailLog, CliFrame, Typed, Client
  <2> QED
    BY <2>1, <2>2
<1>8. ASSUME NEW c \in Client, Detach(c) PROVE OwnerInv'
  BY <1>8, <1>t DEF Detach, CliFrame
<1>9. ASSUME NEW c \in Client, StreamBreaks(c) PROVE OwnerInv'
  BY <1>9, <1>t DEF StreamBreaks, CliFrame
<1>10. ASSUME deadman PROVE OwnerInv'
  BY <1>10, <1>t DEF deadman, IdleFrame
<1>11. ASSUME Reboot PROVE OwnerInv'
  <2>1. owner' = owner \/ (owner' = [owner EXCEPT !.at = "broken"] /\ owner.at = "tail")
    BY <1>11, HaltOwner DEF Reboot
  <2> QED
    BY <1>11, <1>t, <2>1 DEF Reboot, IdleFrame, Typed, CliType, Client
<1>12. ASSUME Rotate PROVE OwnerInv'
  BY <1>12, <1>t DEF Rotate, EgressFrame
<1>13. ASSUME Flush PROVE OwnerInv'
  BY <1>13, <1>t DEF Flush, EgressFrame
<1>14. ASSUME egressRefresh PROVE OwnerInv'
  BY <1>14, <1>t DEF egressRefresh, EgressFrame
<1>15. ASSUME relayEnable PROVE OwnerInv'
  BY <1>15, <1>t DEF relayEnable, RelayFrame
<1>16. ASSUME relayStart PROVE OwnerInv'
  BY <1>16, <1>t DEF relayStart, RelayFrame
<1>17. ASSUME relayDies PROVE OwnerInv'
  BY <1>17, <1>t DEF relayDies, RelayFrame
<1>18. ASSUME deadmanAge PROVE OwnerInv'
  BY <1>18, <1>t DEF deadmanAge, IdleFrame
<1>19. ASSUME poweroff PROVE OwnerInv'
  <2>1. owner' = owner \/ (owner' = [owner EXCEPT !.at = "broken"] /\ owner.at = "tail")
    BY <1>19, HaltOwner DEF poweroff
  <2> QED
    BY <1>19, <1>t, <2>1 DEF poweroff, IdleFrame, Typed, CliType, Client
<1>20. ASSUME Network PROVE OwnerInv'
  BY <1>20, <1>t DEF Network, EgressFrame
<1> QED
  BY <1>1, <1>2, <1>3, <1>4, <1>5, <1>6, <1>7, <1>8, <1>9, <1>10, <1>11,
      <1>12, <1>13, <1>14, <1>15, <1>16, <1>17, <1>18, <1>19, <1>20 DEF Next

\* The switch resets both ages together; a reboot takes the heartbeat away.
LEMMA AgeStep ==
  ASSUME RuntimeInv, Next
  PROVE  AgeInv'
<1> USE DEF RuntimeInv, AgeInv, idleVars
<1>t. Typed
  BY TypedIsTypeOK
<1>1. ASSUME launchRun PROVE AgeInv'
  BY <1>1, <1>t DEF launchRun
<1>2. ASSUME Truncate PROVE AgeInv'
  BY <1>2, <1>t DEF Truncate, WorkFrame
<1>3. ASSUME Output PROVE AgeInv'
  BY <1>3, <1>t DEF Output, WorkFrame
<1>4. ASSUME WorkloadExit PROVE AgeInv'
  BY <1>4, <1>t DEF WorkloadExit, WorkFrame
<1>5. ASSUME openStream PROVE AgeInv'
  BY <1>5, <1>t DEF openStream, CliFrame
<1>6. ASSUME attachCluster PROVE AgeInv'
  BY <1>6, <1>t DEF attachCluster, CliFrame
<1>7. ASSUME NEW c \in Client, tailLog(c) PROVE AgeInv'
  BY <1>7, <1>t DEF tailLog, CliFrame
<1>8. ASSUME NEW c \in Client, Detach(c) PROVE AgeInv'
  BY <1>8, <1>t DEF Detach, CliFrame
<1>9. ASSUME NEW c \in Client, StreamBreaks(c) PROVE AgeInv'
  BY <1>9, <1>t DEF StreamBreaks, CliFrame
<1>10. ASSUME deadman PROVE AgeInv'
  BY <1>10, <1>t DEF deadman, Older, NoFile, Typed
<1>11. ASSUME Reboot PROVE AgeInv'
  BY <1>11, <1>t DEF Reboot, NoFile, Typed
<1>12. ASSUME Rotate PROVE AgeInv'
  BY <1>12, <1>t DEF Rotate, EgressFrame
<1>13. ASSUME Flush PROVE AgeInv'
  BY <1>13, <1>t DEF Flush, EgressFrame
<1>14. ASSUME egressRefresh PROVE AgeInv'
  BY <1>14, <1>t DEF egressRefresh, EgressFrame
<1>15. ASSUME relayEnable PROVE AgeInv'
  BY <1>15, <1>t DEF relayEnable, RelayFrame
<1>16. ASSUME relayStart PROVE AgeInv'
  BY <1>16, <1>t DEF relayStart, RelayFrame
<1>17. ASSUME relayDies PROVE AgeInv'
  BY <1>17, <1>t DEF relayDies, RelayFrame
<1>18. ASSUME deadmanAge PROVE AgeInv'
  BY <1>18, <1>t DEF deadmanAge, Typed, NoFile
<1>19. ASSUME poweroff PROVE AgeInv'
  BY <1>19, <1>t DEF poweroff
<1>20. ASSUME Network PROVE AgeInv'
  BY <1>20, <1>t DEF Network, EgressFrame
<1> QED
  BY <1>1, <1>2, <1>3, <1>4, <1>5, <1>6, <1>7, <1>8, <1>9, <1>10, <1>11,
      <1>12, <1>13, <1>14, <1>15, <1>16, <1>17, <1>18, <1>19, <1>20 DEF Next

\* What a client does to the list of those that stream: it begins, and is late if a
\* run of the switch is under way, or the list shrinks.
LEMMA LookStep ==
  ASSUME RuntimeInv, Next
  PROVE  LookInv'
<1> USE DEF RuntimeInv, LookInv, Hot, workVars, idleVars, egressVars
<1>t. Typed
  BY TypedIsTypeOK
<1>1. ASSUME launchRun PROVE LookInv'
  BY <1>1, <1>t DEF launchRun, Typed, Client
<1>2. ASSUME Truncate PROVE LookInv'
  BY <1>2, <1>t DEF Truncate, WorkFrame
<1>3. ASSUME Output PROVE LookInv'
  BY <1>3, <1>t DEF Output, After, WorkFrame
<1>4. ASSUME WorkloadExit PROVE LookInv'
  BY <1>4, <1>t DEF WorkloadExit, WorkFrame
<1>5. ASSUME openStream \/ attachCluster PROVE LookInv'
  BY <1>5, <1>t DEF openStream, attachCluster, After, CliFrame, Typed, Client
<1>6. ASSUME NEW c \in Client, tailLog(c) \/ Detach(c) \/ StreamBreaks(c) PROVE LookInv'
  <2>1. /\ UNCHANGED <<dm, hb, late, gpu, proc>>
        /\ \A d \in Client : cli'[d].at = "tail" => cli[d].at = "tail"
    BY <1>6, <1>t DEF tailLog, Detach, StreamBreaks, CliFrame, Typed, CliType
  <2> QED
    BY <2>1
<1>7. ASSUME deadman PROVE LookInv'
  BY <1>7, <1>t DEF deadman, Established
<1>8. ASSUME deadmanAge PROVE LookInv'
  <2>1. CASE dm' = "no"
    BY <2>1
  <2>2. CASE dm' # "no"
    <3>1. dm = "gpu" /\ dm' = "due" /\ late' = late /\ Fires(hb') /\ UNCHANGED <<cli, gpu, proc>>
      BY <1>8, <2>2 DEF deadmanAge, IdleFrame
    <3>2. hb' > TTL /\ ~Hot /\ hb # 0
      BY <1>8, <3>1 DEF deadmanAge, Fires
    <3> QED
      BY <3>1, <3>2
  <2> QED
    BY <2>1, <2>2
<1>9. ASSUME poweroff \/ Reboot PROVE LookInv'
  BY <1>9 DEF poweroff, Reboot, Halt
<1>10. ASSUME Rotate \/ Flush \/ Network \/ egressRefresh PROVE LookInv'
  BY <1>10 DEF Rotate, Flush, Network, egressRefresh, EgressFrame
<1>11. ASSUME relayEnable \/ relayStart \/ relayDies PROVE LookInv'
  BY <1>11 DEF relayEnable, relayStart, relayDies, RelayFrame
<1> QED
  BY <1>1, <1>2, <1>3, <1>4, <1>5, <1>6, <1>7, <1>8, <1>9, <1>10, <1>11 DEF Next

-----------------------------------------------------------------------------
LEMMA RuntimeInit == Init => RuntimeInv
<1> SUFFICES ASSUME Init PROVE RuntimeInv
  OBVIOUS
<1>1. TypeOK
  <2>1. log \in LogType
    <3>1. 0 \in 0..MaxRuns
      OBVIOUS
    <3> QED
      BY <3>1 DEF Init, NoLog, LogType
  <2>2. [at |-> "idle", cmd |-> "none", of |-> 0, status |-> 0] \in CliType
    BY DEF CliType
  <2>3. timer \in BOOLEAN /\ names \in BOOLEAN
    BY DEF Init, installEgressRefresh
  <2>4. hb \in NoFile..(TTL + 1) /\ unseen \in 0..(TTL + 1)
    BY DEF Init, NoFile
  <2>5. Typed
    BY <2>1, <2>2, <2>3, <2>4 DEF Init, Typed, resolveEgressAllow
  <2> QED
    BY <2>5, TypedIsTypeOK
<1>2. LogInv /\ AgeInv /\ LookInv
  BY DEF Init, LogInv, AgeInv, LookInv, NoLog
<1>3. OwnerInv
  BY DEF Init, OwnerInv, owner, Client
<1> QED
  BY <1>1, <1>2, <1>3 DEF RuntimeInv

LEMMA RuntimeStep == RuntimeInv /\ [Next]_vars => RuntimeInv'
<1> SUFFICES ASSUME RuntimeInv, [Next]_vars PROVE RuntimeInv'
  OBVIOUS
<1>1. CASE Next
  <2>1. Typed'
    BY <1>1, TypedStep, TypedIsTypeOK DEF RuntimeInv
  <2>2. TypeOK'
    BY <2>1 DEF Typed, TypeOK, LogType, CliType
  <2> QED
    BY <1>1, <2>2, LogStep, OwnerStep, AgeStep, LookStep DEF RuntimeInv
<1>2. CASE UNCHANGED vars
  BY <1>2 DEF vars, workVars, idleVars, egressVars, relayVars, RuntimeInv, TypeOK, LogInv, OwnerInv,
      owner, AgeInv, LookInv, Hot
<1> QED
  BY <1>1, <1>2

LEMMA RuntimeInvariant == Spec => []RuntimeInv
  BY RuntimeInit, RuntimeStep, PTL DEF Spec

\* Every variable of the node keeps its type; the ages stay within the window.
THEOREM RuntimeTypes == Spec => []TypeOK
<1>1. RuntimeInv => TypeOK
  BY DEF RuntimeInv
<1> QED
  BY <1>1, RuntimeInvariant, PTL

\* An up that saw its workload end exits with the code of that workload, the one
\* it launched: no stale log, later launch or reboot gives it another.
THEOREM ExitCodeIsTheWorkloads == Spec => []ExitIsTheWorkloads
<1>1. RuntimeInv => ExitIsTheWorkloads
  BY DEF RuntimeInv, OwnerInv, owner, ExitIsTheWorkloads
<1> QED
  BY <1>1, RuntimeInvariant, PTL

\* The dead-man's switch powers off no node before the whole idle window has passed
\* since it was seen in use, and none that is streamed from or whose GPU works unless
\* that began after the run that powers it off had looked.
THEOREM SwitchSparesNodesInUse == Spec => SparesNodesInUse
<1> DEFINE A == power /\ ~power' =>
                  /\ unseen > TTL
                  /\ \A c \in Client : cli[c].at = "tail" => c \in late
                  /\ Hot => "gpu" \in late
<1>1. ASSUME RuntimeInv, Next PROVE A
  <2>1. CASE \/ launchRun \/ Truncate \/ Output \/ WorkloadExit
             \/ openStream \/ attachCluster
             \/ \E c \in Client : tailLog(c) \/ Detach(c) \/ StreamBreaks(c)
    BY <2>1 DEF launchRun, Truncate, Output, WorkloadExit, WorkFrame, openStream,
        attachCluster, tailLog, Detach, StreamBreaks, CliFrame
  <2>2. CASE deadman \/ deadmanAge \/ Reboot
    BY <2>2 DEF deadman, deadmanAge, Reboot
  <2>3. CASE poweroff
    <3>1. unseen \in 0..(TTL + 1) /\ hb \in NoFile..(TTL + 1) /\ hb <= unseen
      BY <1>1 DEF RuntimeInv, TypeOK, AgeInv
    <3>2. dm = "due" /\ hb > TTL
      BY <1>1, <2>3 DEF poweroff, RuntimeInv, LookInv
    <3>3. unseen > TTL
      BY <3>1, <3>2 DEF NoFile
    <3> QED
      BY <1>1, <3>2, <3>3 DEF RuntimeInv, LookInv
  <2>4. CASE \/ Rotate \/ Flush \/ Network \/ egressRefresh
             \/ relayEnable \/ relayStart \/ relayDies
    BY <2>4 DEF Rotate, Flush, Network, egressRefresh, EgressFrame, relayEnable, relayStart,
        relayDies, RelayFrame
  <2> QED
    BY <1>1, <2>1, <2>2, <2>3, <2>4 DEF Next
<1>2. RuntimeInv /\ [Next]_vars => [A]_vars
  BY <1>1
<1> QED
  BY <1>2, RuntimeInvariant, PTL DEF Spec, SparesNodesInUse

=============================================================================
