------------------------------- MODULE Grants -------------------------------
(***************************************************************************)
(* The two ways to let somebody else onto a node, and how they are taken   *)
(* back: `debug share` (a gdbserver attach over a WireGuard peer of its    *)
(* own) and `relay share` (a browser terminal through the relay node).     *)
(* Either command provisions the grant on the node first and writes the    *)
(* local record that `unshare` and `down` work from afterwards.  None of   *)
(* them takes the cluster's lock, so they run beside each other, beside    *)
(* `unshare` and beside `down`.                                            *)
(*                                                                         *)
(* One cluster, one target node, one relay node.  A share id is random; an *)
(* element of Share stands for a new id each time it is used.  A reboot    *)
(* takes WireGuard peers and the firewall's rules, which are kernel state, *)
(* and leaves files.                                                       *)
(***************************************************************************)
EXTENDS Integers, FiniteSets

CONSTANTS
    Share,        \* share ids
    RelayIds,     \* those a relay share may use, which bounds how many there are
    GuestLo,      \* the guest addresses are 10.99.0.GuestLo .. GuestHi
    GuestHi,
    NoShare,      \* an address routed to no peer
    Lockdowns     \* may the operator close public SSH?

Addr == GuestLo..GuestHi

ASSUME GrantsAssumption ==
    /\ NoShare \notin Share /\ RelayIds \subseteq Share
    /\ GuestLo \in Nat \ {0} /\ GuestHi \in Nat
    /\ Lockdowns \in BOOLEAN

VARIABLES
    alive,    \* the cluster's nodes exist
    open,     \* those whose public port 22 answers the operator
    mesh,     \* the two are still WireGuard peers of each other
    kind,     \* which command makes the share
    st,       \* where the command that makes the share stands
    addr,     \* the guest address it allocated, 0 before
    key,      \* authorized_keys lines on the target, by share
    pidFile,  \* /etc/pandion/shares/<id> on the target
    route,    \* allowed-ips of wg0 on the target: address -> peer
    spool,    \* session files on the relay node
    torn,     \* those that were only half written
    rec,      \* local share records
    rev,      \* how far the revocation of a share has come
    past,     \* shares past their expiry
    opening,  \* relay requests between looking the session up and dialling
    sess,     \* guest sessions in progress
    \* history, read by the properties only
    loose,    \* shares whose grant is on a node without a record
    cut,      \* shares whose key line a revocation removed
    swept,    \* shares whose session file a revocation removed
    raced,    \* shares in the making at the same time as another one
    lost      \* shares whose WireGuard peer a reboot of the target took

machines == <<alive, open, mesh>>
node == <<key, pidFile, route, spool, torn>>
hist == <<loose, cut, swept, raced, lost>>
vars == <<machines, kind, st, addr, node, rec, rev, past, opening, sess, hist>>

Machine == {"target", "relay"}
Status == {"new", "alloc", "granted", "keyed", "spooled", "live", "ended"}
DebugShare == {s \in Share : kind[s] = "debug"}
RelayShare == {s \in Share : kind[s] = "relay"}
Making == {"alloc", "granted", "keyed", "spooled"}

TypeOK ==
    /\ alive \in BOOLEAN /\ open \subseteq Machine /\ mesh \in BOOLEAN
    /\ kind \in [Share -> {"none", "debug", "relay"}]
    /\ st \in [Share -> Status]
    /\ addr \in [Share -> Addr \cup {0}]
    /\ key \subseteq Share /\ pidFile \subseteq DebugShare
    /\ route \in [Addr -> Share \cup {NoShare}]
    /\ spool \subseteq RelayShare /\ torn \subseteq spool
    /\ rec \subseteq Share
    /\ rev \in [Share -> {"no", "target", "relay", "record"}]
    /\ past \subseteq Share /\ sess \subseteq Share /\ opening \subseteq RelayShare
    /\ loose \subseteq Share /\ cut \subseteq Share /\ swept \subseteq Share
    /\ raced \subseteq Share /\ lost \subseteq Share

Init ==
    /\ alive = TRUE /\ open = Machine /\ mesh = TRUE
    /\ kind = [s \in Share |-> "none"]
    /\ st = [s \in Share |-> "new"]
    /\ addr = [s \in Share |-> 0]
    /\ key = {} /\ pidFile = {} /\ spool = {} /\ torn = {}
    /\ route = [a \in Addr |-> NoShare]
    /\ rec = {} /\ rev = [s \in Share |-> "no"]
    /\ past = {} /\ opening = {} /\ sess = {}
    /\ loose = {} /\ cut = {} /\ swept = {} /\ raced = {} /\ lost = {}

To(s, status) == st' = [st EXCEPT ![s] = status]

\* envssh.Run to a node of the share, at its public address
Reachable(m) == alive /\ m \in open

-----------------------------------------------------------------------------
(***************************************************************************)
(* debug share                                                             *)
(***************************************************************************)
\* mutant: the records of other shares are not looked at
allocAnyway == Addr
\* The addresses no record names; the command takes the highest.
freeGuestIPs == Addr \ {addr[s] : s \in rec \cap DebugShare}

\* mutant: the search starts one address too high
allocBeyond == GuestHi + 1
allocGuestIP == CHOOSE a \in freeGuestIPs : \A b \in freeGuestIPs : b <= a

\* The manifest, the node and the target process are looked up (over SSH),
\* the share id is drawn and an address allocated.  A refusal before that (no
\* manifest, node, login key or address, a process of uid < 1000, a node that
\* does not answer) changes nothing.
runDebugShare(s) ==
    /\ st[s] = "new" /\ Reachable("target")
    /\ freeGuestIPs # {}
    /\ addr' = [addr EXCEPT ![s] = allocGuestIP]
    /\ kind' = [kind EXCEPT ![s] = "debug"]
    /\ To(s, "alloc")
    /\ LET others == {t \in DebugShare : st[t] \in Making}
       IN raced' = IF others = {} THEN raced ELSE raced \cup others \cup {s}
    /\ UNCHANGED <<machines, node, rec, rev, past, opening, sess, loose, cut, swept, lost>>

\* `wg set peer ... allowed-ips`: the address moves to the peer named last.
SetPeer(s) == route' = [route EXCEPT ![addr[s]] = s]

\* The script on the node, under `set -eu`: the pinned PID, the key line, the
\* peer, in this order.  It may stop after any of them, and the connection may
\* break after the last: the command then exits with 3, and what was done stays.
provisionScript(s) ==
    /\ st[s] = "alloc"
    /\ \E done \in IF Reachable("target") THEN 0..3 ELSE {0} :
         /\ pidFile' = IF done >= 1 THEN pidFile \cup {s} ELSE pidFile
         /\ key' = IF done >= 2 THEN key \cup {s} ELSE key
         /\ IF done = 3 THEN SetPeer(s) ELSE UNCHANGED route
         /\ \/ done = 3 /\ To(s, "granted") /\ UNCHANGED loose
            \/ To(s, "ended") /\ loose' = IF done = 0 THEN loose ELSE loose \cup {s}
    /\ UNCHANGED <<machines, kind, addr, spool, torn, rec, rev, past, opening, sess, cut, swept, raced, lost>>

\* The record is written and the token printed; with --print there is no
\* record, and without a record that can be written there is no token.
saveShareRecord(s) ==
    /\ st[s] = "granted"
    /\ \/ rec' = rec \cup {s} /\ To(s, "live") /\ UNCHANGED loose
       \/ UNCHANGED rec /\ st' \in {[st EXCEPT ![s] = x] : x \in {"live", "ended"}}
            /\ loose' = loose \cup {s}
    /\ UNCHANGED <<machines, kind, addr, node, rev, past, opening, sess, cut, swept, raced, lost>>

-----------------------------------------------------------------------------
(***************************************************************************)
(* relay share                                                             *)
(***************************************************************************)
\* relayShareProvisionScript on the target.
runRelayShare(s) ==
    /\ s \in RelayIds /\ st[s] = "new" /\ Reachable("target")
    /\ kind' = [kind EXCEPT ![s] = "relay"]
    /\ \/ key' = key \cup {s} /\ To(s, "keyed") /\ UNCHANGED loose
       \/ \* the script ran, the connection broke
          key' = key \cup {s} /\ To(s, "ended") /\ loose' = loose \cup {s}
    /\ UNCHANGED <<machines, addr, pidFile, route, spool, torn, rec, rev, past,
                   opening, sess, cut, swept, raced, lost>>

\* The session goes to the relay node's spool by `cat > file`.  When that fails the
\* key line stays on the target, and the file may be whole, cut short or not there.
writeSpool(s) ==
    /\ st[s] = "keyed"
    /\ \/ /\ Reachable("relay") /\ spool' = spool \cup {s} /\ To(s, "spooled")
          /\ UNCHANGED <<torn, loose>>
       \/ /\ To(s, "ended") /\ loose' = loose \cup {s}
          /\ \/ UNCHANGED <<spool, torn>>
             \/ Reachable("relay") /\ spool' = spool \cup {s} /\ torn' \in {torn, torn \cup {s}}
    /\ UNCHANGED <<machines, kind, addr, key, pidFile, route, rec, rev, past,
                   opening, sess, cut, swept, raced, lost>>

\* The record's write error is ignored: the link is printed either way.
saveRelayRecord(s) ==
    /\ st[s] = "spooled"
    /\ To(s, "live")
    /\ \/ rec' = rec \cup {s} /\ UNCHANGED loose
       \/ UNCHANGED rec /\ loose' = loose \cup {s}
    /\ UNCHANGED <<machines, kind, addr, node, rev, past, opening, sess, cut, swept, raced, lost>>

\* Either command is killed between two of its steps.
ShareCrash(s) ==
    /\ st[s] \in Making
    /\ To(s, "ended")
    /\ loose' = IF st[s] = "alloc" THEN loose ELSE loose \cup {s}
    /\ UNCHANGED <<machines, kind, addr, node, rec, rev, past, opening, sess, cut, swept, raced, lost>>

-----------------------------------------------------------------------------
(***************************************************************************)
(* unshare, and what `down` does about shares.                             *)
(***************************************************************************)
\* The records are read; the ones named (or all) are revoked one by one.
Unshare(S) ==
    /\ S # {} /\ S \subseteq rec
    /\ \A s \in S : rev[s] = "no"
    /\ rev' = [s \in Share |-> IF s \in S THEN "target" ELSE rev[s]]
    /\ UNCHANGED <<machines, kind, st, addr, node, rec, past, opening, sess, hist>>

\* mutant: the peer stays
KeepPeer(s) == UNCHANGED route
\* `wg set peer ... remove`
RemovePeer(s) == route' = [a \in Addr |-> IF route[a] = s THEN NoShare ELSE route[a]]

\* A call that does not get through to a node that exists leaves a grant there.
Missed(s) == loose' = IF alive THEN loose \cup {s} ELSE loose

\* revokeScript on the target: key line, PID file, peer, as far as the
\* connection lasts.  A node that does not answer is not an error.  A guest
\* without its peer has lost the connection.
revokeDebug(s) ==
    /\ s \in DebugShare /\ rev[s] = "target"
    /\ \E done \in IF Reachable("target") THEN 0..3 ELSE {0} :
         /\ key' = IF done >= 1 THEN key \ {s} ELSE key
         /\ cut' = IF done >= 1 THEN cut \cup {s} ELSE cut
         /\ pidFile' = IF done >= 2 THEN pidFile \ {s} ELSE pidFile
         /\ IF done = 3
            THEN RemovePeer(s) /\ sess' = sess \ {s} /\ UNCHANGED loose
            ELSE UNCHANGED <<route, sess>> /\ Missed(s)
    /\ rev' = [rev EXCEPT ![s] = "record"]
    /\ UNCHANGED <<machines, kind, st, addr, spool, torn, rec, past, opening, swept,
                   raced, lost>>

\* relay unshare: the key line on the target, then the session file on the
\* relay; neither error is looked at.
revokeRelayKey(s) ==
    /\ s \in RelayShare /\ rev[s] = "target"
    /\ \/ Reachable("target") /\ key' = key \ {s} /\ cut' = cut \cup {s} /\ UNCHANGED loose
       \/ Missed(s) /\ UNCHANGED <<key, cut>>
    /\ rev' = [rev EXCEPT ![s] = "relay"]
    /\ UNCHANGED <<machines, kind, st, addr, pidFile, route, spool, torn, rec, past,
                   opening, sess, swept, raced, lost>>

revokeRelaySpool(s) ==
    /\ rev[s] = "relay"
    /\ \/ /\ Reachable("relay") /\ spool' = spool \ {s} /\ torn' = torn \ {s}
          /\ swept' = swept \cup {s} /\ UNCHANGED loose
       \/ Missed(s) /\ UNCHANGED <<spool, torn, swept>>
    /\ rev' = [rev EXCEPT ![s] = "record"]
    /\ UNCHANGED <<machines, kind, st, addr, key, pidFile, route, rec, past,
                   opening, sess, cut, raced, lost>>

\* The record goes whatever came of the calls, and the share is reported as
\* revoked.
removeRecord(s) ==
    /\ rev[s] = "record"
    /\ rec' = rec \ {s}
    /\ rev' = [rev EXCEPT ![s] = "no"]
    /\ UNCHANGED <<machines, kind, st, addr, node, past, opening, sess, hist>>

\* unshare is killed: the record is still there for the next one.
RevokeCrash(s) ==
    /\ rev[s] # "no"
    /\ rev' = [rev EXCEPT ![s] = "no"]
    /\ UNCHANGED <<machines, kind, st, addr, node, rec, past, opening, sess, hist>>

\* The teardown destroys the nodes, and with them every grant.
Down ==
    /\ alive
    /\ alive' = FALSE /\ open' = {} /\ mesh' = FALSE
    /\ key' = {} /\ pidFile' = {} /\ spool' = {} /\ torn' = {}
    /\ opening' = {} /\ sess' = {}
    /\ route' = [a \in Addr |-> NoShare]
    /\ loose' = {} /\ cut' = {} /\ swept' = {} /\ raced' = {} /\ lost' = {}
    /\ UNCHANGED <<kind, st, addr, rec, rev, past>>

\* reapShares, after the teardown: the debug shares' records and their
\* directory.  (Each revokeShare in it talks to a node that is gone.)  Nothing
\* removes the relay's records.
reapShares ==
    /\ ~alive
    /\ rec \cap DebugShare # {}
    /\ rec' = rec \ DebugShare
    /\ rev' = [s \in Share |-> IF s \in DebugShare THEN "no" ELSE rev[s]]
    /\ UNCHANGED <<machines, kind, st, addr, node, past, opening, sess, hist>>

\* `pandion lockdown`: public SSH is closed on every node.
Lockdown ==
    /\ Lockdowns /\ alive /\ open # {}
    /\ open' = {}
    /\ UNCHANGED <<alive, mesh, kind, st, addr, node, rec, rev, past, opening, sess, hist>>

\* A node reboots: wg0.conf has no peers, nothing reloads the ruleset, and what
\* ran on the node or through it ends.
Reboot(m) ==
    /\ alive
    /\ open' = open \cup {m} /\ mesh' = FALSE
    /\ IF m = "target"
       THEN /\ route' = [a \in Addr |-> NoShare]
            /\ lost' = lost \cup {s \in Share : \E a \in Addr : route[a] = s}
            /\ sess' = {} /\ UNCHANGED opening
       ELSE /\ opening' = {} /\ sess' = sess \ RelayShare
            /\ UNCHANGED <<route, lost>>
    /\ UNCHANGED <<alive, kind, st, addr, key, pidFile, spool, torn, rec, rev, past,
                   loose, cut, swept, raced>>

-----------------------------------------------------------------------------
(***************************************************************************)
(* The guests.                                                             *)
(***************************************************************************)
Expire(s) ==
    /\ st[s] # "new" /\ s \notin past
    /\ past' = past \cup {s}
    /\ UNCHANGED <<machines, kind, st, addr, node, rec, rev, opening, sess, hist>>

\* mutant: the key line carries no expiry-time
AnyKey(s) == s \in key
\* sshd accepts the key line until its expiry-time.
KeyAccepted(s) == s \in key /\ s \notin past

\* debug join, the WireGuard peer, sshd, and the forced wrapper, which looks
\* for the pinned PID.
debugAttach(s) ==
    /\ s \in DebugShare /\ st[s] = "live"
    /\ KeyAccepted(s) /\ s \in pidFile /\ route[addr[s]] = s
    /\ sess' = sess \cup {s}
    /\ UNCHANGED <<machines, kind, st, addr, node, rec, rev, past, opening, hist>>

\* Store.Get: a file that does not unmarshal is absent; an expired session, too, and
\* it is swept on the way.
Get(s) == s \in spool \ torn /\ s \notin past /\ UNCHANGED spool
GetExpired(s) == s \in spool \ torn /\ s \in past /\ spool' = spool \ {s}

\* SSHDialer: the scoped key, over the overlay.
dial(s) == alive /\ mesh /\ KeyAccepted(s)

\* The link reaches the participant, who may open it several times.  The
\* session is looked up, the WebSocket accepted and only then the node dialled.
handleWS(s) ==
    /\ s \in RelayShare /\ st[s] = "live" /\ s \notin opening
    /\ \/ Get(s) /\ opening' = opening \cup {s}
       \/ GetExpired(s) /\ UNCHANGED opening
    /\ UNCHANGED <<machines, kind, st, addr, key, pidFile, route, torn, rec, rev, past,
                   sess, hist>>

bridge(s) ==
    /\ s \in opening
    /\ opening' = opening \ {s}
    /\ sess' = IF dial(s) THEN sess \cup {s} ELSE sess
    /\ UNCHANGED <<machines, kind, st, addr, node, rec, rev, past, hist>>

\* The context's deadline is the grant's expiry.
AtDeadline(s) == s \in past

SessionDeadline(s) ==
    /\ s \in sess \cap RelayShare /\ AtDeadline(s)
    /\ sess' = sess \ {s}
    /\ UNCHANGED <<machines, kind, st, addr, node, rec, rev, past, opening, hist>>

\* The guest leaves, or the relay restarts.
SessionEnds(s) ==
    /\ s \in sess
    /\ sess' = sess \ {s}
    /\ UNCHANGED <<machines, kind, st, addr, node, rec, rev, past, opening, hist>>

\* mutant: the sweep spares what it should remove
SweepNone == {}
\* Store.Reap, every minute on the relay node; List passes over what does not
\* unmarshal
Expired == (spool \ torn) \cap past

Reap ==
    /\ alive /\ Expired # {}
    /\ spool' = spool \ Expired
    /\ UNCHANGED <<machines, kind, st, addr, key, pidFile, route, torn, rec, rev, past,
                   opening, sess, hist>>

\* A share that is over everywhere: its place is taken by a new id.
Forget(s) ==
    /\ st[s] \in {"live", "ended"} /\ rev[s] = "no"
    /\ s \notin key \cup pidFile \cup spool \cup rec \cup opening \cup sess
    /\ \A a \in Addr : route[a] # s
    /\ To(s, "new")
    /\ addr' = [addr EXCEPT ![s] = 0] /\ kind' = [kind EXCEPT ![s] = "none"]
    /\ past' = past \ {s}
    /\ loose' = loose \ {s} /\ cut' = cut \ {s} /\ swept' = swept \ {s}
    /\ raced' = raced \ {s} /\ lost' = lost \ {s}
    /\ UNCHANGED <<machines, node, rec, rev, opening, sess>>

-----------------------------------------------------------------------------
Next ==
    \/ \E s \in Share :
         \/ runDebugShare(s) \/ provisionScript(s) \/ saveShareRecord(s)
         \/ runRelayShare(s) \/ writeSpool(s) \/ saveRelayRecord(s)
         \/ ShareCrash(s)
         \/ revokeDebug(s) \/ revokeRelayKey(s) \/ revokeRelaySpool(s)
         \/ removeRecord(s) \/ RevokeCrash(s)
         \/ debugAttach(s) \/ handleWS(s) \/ bridge(s) \/ SessionDeadline(s) \/ SessionEnds(s)
         \/ Expire(s) \/ Forget(s)
    \/ \E S \in SUBSET rec : Unshare(S)
    \/ Down \/ reapShares \/ Lockdown \/ Reap
    \/ \E m \in Machine : Reboot(m)

Spec == Init /\ [][Next]_vars

\* A context whose deadline has passed is cancelled, and the sweep's ticker fires
\* every minute in a relay that runs: its unit is enabled and restarted on failure.
\* Nothing is assumed about operators and guests.
FairSpec ==
    /\ Spec /\ WF_vars(Reap)
    /\ \A s \in Share : WF_vars(SessionDeadline(s))

-----------------------------------------------------------------------------
(***************************************************************************)
(* Properties.                                                             *)
(***************************************************************************)
OnNodes == key \cup pidFile \cup spool \cup {route[a] : a \in Addr}

\* Whatever a share command left on a node can be revoked: it has a record, or
\* its command is still at work, or it is one of those the code knows it gives
\* up on (--print, a command that failed or was killed half way, a revocation
\* that did not get through).  However shares, unshare, lockdown and down
\* overlap, no other grant escapes the records.
Accounted ==
    \A s \in Share \cap OnNodes :
        s \in rec \/ st[s] \in Making \/ s \in loose

\* A recorded debug share's guest address is its own until it is revoked
\* ("avoiding IPs already assigned to live shares of this cluster"): it is routed to
\* the share's peer, and once a reboot has taken the peer to no other, however many
\* shares come and go meanwhile.  Only a share made at the same time as this one may
\* have taken it: allocGuestIP reads the records before either has written its own.
OwnAddress ==
    \A s \in DebugShare \cap rec :
        alive /\ st[s] = "live" =>
            \/ route[addr[s]] = s
            \/ route[addr[s]] = NoShare /\ s \in lost \cup cut \cup raced
            \/ route[addr[s]] \in raced /\ s \in raced

\* No session begins once a grant has expired or its key line was removed, and
\* no request is let in once its session file was removed: either half of a
\* relay revocation closes the link when the other could not be delivered, up to
\* the requests that had already been looked up.
NoWayBack ==
    [][/\ \A s \in sess' \ sess : s \notin past \cup cut
       /\ \A s \in opening' \ opening : s \notin past \cup swept]_vars

\* An expired relay grant does not stay on the relay for good: its sessions end and
\* its file is swept, whether or not anybody revokes it or opens it again.  A file cut
\* short stays: nobody got its link, but the sweep passes over it.
ExpiresByItself ==
    \A s \in Share : []<>~(s \in past \cap RelayShare /\ s \in sess \cup (spool \ torn))

=============================================================================
