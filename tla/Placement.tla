----------------------------- MODULE Placement -----------------------------
(***************************************************************************)
(* Which machine `up` asks a provider for, what it will cost, and which    *)
(* clusters `reap --older-than` picks: the pure algorithms of the drivers  *)
(* and the orchestrator, run step by step on every small catalog, request  *)
(* and fleet.                                                              *)
(*                                                                         *)
(* An `up` is priced (EstimateHourly), held against --max-cost, and then   *)
(* each node searches type by type and region by region until a request is *)
(* accepted.  What the code sorts into lists is here the set of what is    *)
(* left to try and the element that comes first in it.  Types and regions  *)
(* are numbers, in the order of their names and of the provider's listing. *)
(* The catalog does not change during an `up`; amounts are in one currency.*)
(***************************************************************************)
EXTENDS Integers, Sequences, SequencesExt, FiniteSets, FiniteSetsExt

CONSTANTS
    Driver,    \* the drivers checked
    NType,     \* types in the catalog
    NRegion,   \* regions of the provider
    MaxPrice,  \* hourly prices are 1..MaxPrice
    MaxNode,   \* bound: nodes of an `up`
    MaxPref,   \* bound: regions in --region
    MaxWindow, \* bound: the window spending is counted over, in hours
    Caps,      \* values of --max-cost, 0 is off
    MaxAge,    \* bound: ages, in hours
    MaxFleet   \* bound: servers at the provider

ASSUME PlacementAssumption ==
    /\ Driver \subseteq {"hetzner", "scaleway", "lambda", "vultr", "linode", "digitalocean"}
    /\ {NType, NRegion, MaxPrice, MaxNode, MaxAge, MaxFleet} \subseteq Nat \ {0}
    /\ {MaxPref, MaxWindow} \subseteq Nat /\ Caps \subseteq Nat

Type == 1..NType
Region == 1..NRegion
Elsewhere == NRegion + 1   \* a --region the provider does not have
None == 0
Base == 0                  \* linode's price where no region overrides it
Unknown == -1              \* the zero time

VARIABLES
    drv,    \* the driver
    cat,    \* its catalog
    req,    \* the request: pinned type, regions, GPU, nodes, window, cap
    cmd,    \* where the command stands
    est,    \* EstimateHourly's answer, 0 when it has none
    plan,   \* the (type, region) pairs still to try for the node at hand
    tried,  \* the pairs asked for it and refused
    skipped, \* the zones whose types could not be listed for it (scaleway)
    placed, \* what the nodes got, in order
    fleet,  \* the listing reap still has to go through
    oldest, \* per cluster, the age of the oldest server seen; None before
    seen    \* the listing, as it came

vars == <<drv, cat, req, cmd, est, plan, tried, skipped, placed, fleet, oldest, seen>>

Cluster == {"a", "b"}
Created == {Unknown} \cup (0..MaxAge)
Listing == UNION {[1..n -> [of : Cluster, age : Created]] : n \in 0..MaxFleet}

Entry == [fits : BOOLEAN, size : 1..NType, at : SUBSET Region,
          price : [Region \cup {Base} -> 1..MaxPrice]]
NoEntry == [fits |-> FALSE, size |-> 1, at |-> {}, price |-> [r \in Region \cup {Base} |-> 1]]

Prefs == UNION {[1..n -> Region \cup {Elsewhere}] : n \in 0..MaxPref}
NoRequest == [type |-> None, pref |-> <<>>, gpu |-> FALSE, nodes |-> 1, window |-> 0, cap |-> 0]

TypeOK ==
    /\ drv \in Driver /\ cat \in [Type -> Entry]
    /\ req \in [type : Type \cup {None}, pref : Prefs, gpu : BOOLEAN, nodes : 1..MaxNode,
                window : 0..MaxWindow, cap : Caps \cup {0}]
    /\ cmd \in {"estimate", "budget", "refused", "search", "exhausted", "failed", "placed",
                "reap", "planned"}
    /\ est \in 0..MaxPrice
    /\ plan \subseteq Type \X Region /\ tried \subseteq Type \X Region /\ skipped \subseteq Region
    /\ placed \in Seq([type : Type, at : Region, first : BOOLEAN]) /\ Len(placed) <= MaxNode
    /\ fleet \in Listing /\ seen \in Listing
    /\ oldest \in [Cluster -> [n : 0..MaxFleet, age : Created]]

\* What the providers' catalogs can look like.  A price that is the same
\* everywhere; a type orderable everywhere as far as the catalog says.
Uniform(e) == \A r, q \in Region \cup {Base} : e.price[r] = e.price[q]
serverTypes(e) == e.at = Region                       \* hetzner: no availability
zoneTypes(e) == e.size = 1 /\ e.price[Base] = 1       \* scaleway: a catalog per zone
instanceTypes(e) == e.size = 1 /\ Uniform(e)          \* lambda
plans(e) == e.size = 1 /\ Uniform(e)                  \* vultr
types(e) == e.size = 1 /\ e.at = Region               \* linode: a base price and overrides
sizes(e) == e.size = 1 /\ Uniform(e)                  \* digitalocean
Possible(d, e) ==
    CASE d = "hetzner" -> serverTypes(e) [] d = "scaleway" -> zoneTypes(e)
      [] d = "lambda" -> instanceTypes(e) [] d = "vultr" -> plans(e)
      [] d = "linode" -> types(e) [] d = "digitalocean" -> sizes(e)

Idle == fleet = <<>> /\ seen = <<>> /\ oldest = [c \in Cluster |-> [n |-> 0, age |-> 0]]

InitUp ==
    /\ drv \in Driver
    /\ cat \in [Type -> {e \in Entry : Possible(drv, e)}]
    /\ req \in [type : Type \cup {None}, pref : Prefs,
                gpu : IF drv = "digitalocean" THEN BOOLEAN ELSE {drv = "lambda"},
                nodes : {MaxNode}, window : 0..MaxWindow, cap : Caps]
    /\ cmd = "estimate" /\ Idle

InitReap ==
    /\ drv \in Driver /\ cat = [t \in Type |-> NoEntry] /\ req = NoRequest
    /\ cmd = "reap" /\ seen \in Listing /\ fleet = seen
    /\ \A i \in DOMAIN seen : seen[i].age = Unknown <=> drv = "lambda"
    /\ oldest = [c \in Cluster |-> [n |-> 0, age |-> 0]]

Init ==
    /\ InitUp \/ InitReap
    /\ est = 0 /\ plan = {} /\ tried = {} /\ skipped = {} /\ placed = <<>>

-----------------------------------------------------------------------------
(***************************************************************************)
(* Candidates, and the order they are tried in                             *)
(***************************************************************************)
\* The elements of S that f ranks lowest.
Least(S, f) == {x \in S : \A y \in S : f[x] <= f[y]}

\* The first of the types S as the driver sorts them, by name where they are
\* equal: hetzner by cores and memory, scaleway by the price in zone r, the others
\* by the (base) price.
Rank(r) ==
    [t \in Type |-> CASE drv = "hetzner" -> cat[t].size
                      [] drv = "scaleway" -> cat[t].price[IF r \in Region THEN r ELSE Base]
                      [] OTHER -> cat[t].price[Base]]
FirstType(S, r) == Min(Least(S, Rank(r)))

\* The types that meet the specification.
Fitting == {t \in Type : cat[t].fits}

\* A pinned type is the only candidate.
OrPinned(selected) == IF req.type # None THEN {req.type} ELSE selected

selectCandidates == Fitting                                            \* hetzner
selectTypesIn(z) == {t \in Fitting : z \in cat[t].at}                  \* scaleway, per zone
selectPlans(r) == {t \in Fitting : r = None \/ r \in cat[t].at}        \* vultr
selectSizes(r) == {t \in Fitting : r = None \/ r \in cat[t].at}        \* digitalocean
selectGPUSizes == Fitting
selectTypes == Fitting                                                 \* linode

\* mutant: an explicit region that is full falls back on the others
Fallback(all, pref, strict) == all
\* orderLocations, orderRegions: the preferred regions that exist; unless strict,
\* the others too.
orderRegions(all, pref, strict) == {r \in all : strict => r \in ToSet(pref)}
orderZones(all, pref) == orderRegions(all, pref, FALSE)

regionsOf(cands) == UNION {cat[t].at : t \in cands}
candidateRegions == Region

DefaultPref == <<1>>
Pref == IF req.pref = <<>> THEN DefaultPref ELSE req.pref
Strict == req.pref # <<>> /\ drv # "scaleway"
FirstAsked == IF req.pref = <<>> THEN None ELSE req.pref[1]

searchPlan(cands, regions) == cands \X regions
Offered(pairs) == {p \in pairs : p[2] \in cat[p[1]].at}

\* Where pref has region r; a region that is not preferred comes after all.
place(r, pref) == Min({Len(pref) + 1} \cup {i \in DOMAIN pref : pref[i] = r})

\* The first candidate that is offered in r.
Carrier(r) == FirstType({t \in OrPinned(Fitting) : r \in cat[t].at}, Base)

\* The first of the regions S: the preferred ones in their order, then the others
\* as the provider lists them, or as the candidates do (vultr, digitalocean).
FirstRegion(S) ==
    LET near == Least(S, [r \in S |-> place(r, Pref)])
        cheap == Least(near, [r \in near |-> cat[Carrier(r)].price[Base]])
        named == Least(cheap, [r \in cheap |-> Carrier(r)])
    IN Min(IF drv \in {"vultr", "digitalocean"} THEN named ELSE near)

\* RegionFirst: a region's types before the next region.
FirstPair(pairs) ==
    LET r == FirstRegion({p[2] : p \in pairs})
    IN <<FirstType({p[1] : p \in {q \in pairs : q[2] = r}}, r), r>>

\* mutant: the preferred region is taken whether it has capacity or not
AsAsked(avail, pref) == IF pref # <<>> THEN pref[1] ELSE 1
\* pickRegion: the first preferred region with capacity, else the first there is.
pickRegion(avail, pref) ==
    IF avail = {} THEN None ELSE Min(Least(avail, [r \in avail |-> place(r, pref)]))

\* lambda: the types with capacity
ResolveGPUType == {t \in OrPinned(Fitting) : pickRegion(cat[t].at, req.pref) # None}

-----------------------------------------------------------------------------
(***************************************************************************)
(* CreateServer: the pairs each driver asks for                            *)
(***************************************************************************)
createHetzner ==
    searchPlan(OrPinned(selectCandidates), orderRegions(Region, Pref, Strict))

createScaleway ==
    Offered(UNION {searchPlan(OrPinned(selectTypesIn(z)), {z}) : z \in orderZones(Region, Pref)})

createLambda ==
    {<<t, pickRegion(cat[t].at, req.pref)>> :
        t \in {u \in ResolveGPUType : u = FirstType(ResolveGPUType, None)}}

createVultr ==
    LET cands == OrPinned(selectPlans(None))
    IN Offered(searchPlan(cands, orderRegions(regionsOf(cands), Pref, Strict)))

createLinode ==
    searchPlan(OrPinned(selectTypes), orderRegions(candidateRegions, Pref, Strict))

createDigitalOcean ==
    LET cands == OrPinned(IF req.gpu THEN selectGPUSizes ELSE selectSizes(None))
    IN Offered(searchPlan(cands, orderRegions(regionsOf(cands), Pref, Strict)))

CreatePlan ==
    CASE drv = "hetzner" -> createHetzner [] drv = "scaleway" -> createScaleway
      [] drv = "lambda" -> createLambda [] drv = "vultr" -> createVultr
      [] drv = "linode" -> createLinode [] drv = "digitalocean" -> createDigitalOcean

-----------------------------------------------------------------------------
(***************************************************************************)
(* The price and the budget                                                *)
(***************************************************************************)
\* mutant: the price of the default region
priceAtHome(t, r) == cat[t].price[1]
\* HourlyPrice of type t where r was asked for.  A region without an entry takes
\* the first price of the type (hetzner) or its base price (linode); a type a zone
\* does not have has no price there (scaleway).
priceHetzner(t, r) == cat[t].price[IF r \in Region THEN r ELSE 1]
priceScaleway(t, z) == IF z \in cat[t].at THEN cat[t].price[z] ELSE 0
priceLinode(t, r) == cat[t].price[IF r \in Region THEN r ELSE Base]
priceUniform(t) == cat[t].price[Base]

HourlyPrice(t, r) ==
    CASE drv = "hetzner" -> priceHetzner(t, r) [] drv = "scaleway" -> priceScaleway(t, r)
      [] drv = "linode" -> priceLinode(t, r) [] OTHER -> priceUniform(t)

\* The price of the first candidate, 0 when there is none.
PriceOfFirst(cands, r) == IF cands = {} THEN 0 ELSE HourlyPrice(FirstType(cands, r), r)

\* EstimateHourly of each driver
estimateHetzner == PriceOfFirst(OrPinned(selectCandidates), Pref[1])
estimateScaleway == PriceOfFirst(OrPinned(selectTypesIn(Pref[1])), Pref[1])
estimateLambda == PriceOfFirst(OrPinned(ResolveGPUType), FirstAsked)
estimateVultr == PriceOfFirst(OrPinned(selectPlans(FirstAsked)), FirstAsked)
estimateLinode == PriceOfFirst(OrPinned(selectTypes), FirstAsked)
estimateDigitalOcean ==
    PriceOfFirst(OrPinned(IF req.gpu THEN selectGPUSizes ELSE selectSizes(FirstAsked)), FirstAsked)

Estimate ==
    CASE drv = "hetzner" -> estimateHetzner [] drv = "scaleway" -> estimateScaleway
      [] drv = "lambda" -> estimateLambda [] drv = "vultr" -> estimateVultr
      [] drv = "linode" -> estimateLinode [] drv = "digitalocean" -> estimateDigitalOcean

EstimateHourly ==
    /\ cmd = "estimate"
    /\ est' = Estimate /\ cmd' = "budget"
    /\ UNCHANGED <<drv, cat, req, plan, tried, skipped, placed, fleet, oldest, seen>>

\* EstimateSpend and CheckBudget: under a cap every node must have a price and a
\* window, and the sum must be within the cap.
Affordable ==
    req.cap = 0 \/ (est > 0 /\ req.window > 0 /\ est * req.window * req.nodes <= req.cap)

CheckBudget ==
    /\ cmd = "budget"
    /\ IF Affordable THEN cmd' = "search" /\ plan' = CreatePlan
                     ELSE cmd' = "refused" /\ UNCHANGED plan
    /\ UNCHANGED <<drv, cat, req, est, tried, skipped, placed, fleet, oldest, seen>>

-----------------------------------------------------------------------------
(***************************************************************************)
(* The search of one node after the other                                  *)
(***************************************************************************)
SearchFrame == UNCHANGED <<drv, cat, req, est, fleet, oldest, seen>>

\* The pair at hand.
Pair == FirstPair(plan)

\* The request is accepted: the next node searches from the start.
Accepted ==
    /\ cmd = "search" /\ plan # {}
    /\ placed' = Append(placed, [type |-> Pair[1], at |-> Pair[2],
                                 first |-> tried = {} /\ skipped = {}])
    /\ tried' = {} /\ skipped' = {}
    /\ IF Len(placed) + 1 = req.nodes THEN cmd' = "placed" /\ plan' = {}
                                      ELSE UNCHANGED cmd /\ plan' = CreatePlan
    /\ SearchFrame

\* mutant: after a refusal the region is given up
SkipRegion == {p \in plan : p[2] # Pair[2]}
Following == plan \ {Pair}

\* isAvailabilityErr: on to the next pair; the last one's is final.
Unavailable ==
    /\ cmd = "search" /\ plan # {}
    /\ tried' = tried \cup {Pair} /\ plan' = Following
    /\ UNCHANGED <<cmd, skipped, placed>> /\ SearchFrame

\* Scaleway: a zone whose types cannot be listed is skipped, none of them asked for.
ZoneFails ==
    /\ cmd = "search" /\ plan # {} /\ drv = "scaleway"
    /\ \A p \in tried : p[2] # Pair[2]
    /\ plan' = {p \in plan : p[2] # Pair[2]}
    /\ skipped' = skipped \cup {Pair[2]}
    /\ UNCHANGED <<cmd, tried, placed>> /\ SearchFrame

\* Any other error ends the search, and so does an empty plan.
SearchFails ==
    /\ cmd = "search"
    /\ cmd' = IF plan = {} THEN "exhausted" ELSE "failed"
    /\ UNCHANGED <<plan, tried, skipped, placed>> /\ SearchFrame

-----------------------------------------------------------------------------
(***************************************************************************)
(* reap --older-than                                                       *)
(***************************************************************************)
\* mutant: the last server listed decides
LastSeen(a, age) == [n |-> a.n + 1, age |-> age]
\* ReapPlan's aggregate.  The zero time is long ago: it saturates the age when it
\* comes first, and is ignored later.
Aggregate(a, age) ==
    [n |-> a.n + 1,
     age |-> IF a.n = 0 THEN age
             ELSE IF age # Unknown /\ a.age # Unknown /\ age > a.age THEN age ELSE a.age]

ReapPlan ==
    /\ cmd = "reap"
    /\ IF fleet = <<>>
       THEN cmd' = "planned" /\ UNCHANGED <<fleet, oldest>>
       ELSE /\ oldest' = [oldest EXCEPT ![fleet[1].of] = Aggregate(@, fleet[1].age)]
            /\ fleet' = Tail(fleet) /\ UNCHANGED cmd
    /\ UNCHANGED <<drv, cat, req, est, plan, tried, skipped, placed, seen>>

\* A cluster whose oldest server is at least this old.
Picked(c, olderThan) ==
    oldest[c].n > 0 /\ (oldest[c].age = Unknown \/ oldest[c].age >= olderThan)

\* Status, for `ls`: the age of the oldest node; an unknown one counts as new.
StatusOldest(c) ==
    Max({0} \cup {seen[i].age : i \in {j \in DOMAIN seen : seen[j].of = c /\ seen[j].age # Unknown}})

Next ==
    \/ EstimateHourly \/ CheckBudget
    \/ Accepted \/ Unavailable \/ ZoneFails \/ SearchFails
    \/ ReapPlan

Spec == Init /\ [][Next]_vars

-----------------------------------------------------------------------------
(***************************************************************************)
(* Properties                                                              *)
(***************************************************************************)
\* What the request may be given.
Eligible == IF req.type # None THEN {req.type} ELSE {t \in Type : cat[t].fits}

\* The search gives up for want of capacity only when every eligible type was
\* asked for and refused in every region the request allows.  Scaleway's search ends
\* the same way when zones could not be listed: then the types of those zones, all
\* of them and no others, were never asked for.
TriesEverything ==
    cmd = "exhausted" /\ drv # "lambda" =>
        /\ drv # "scaleway" => skipped = {}
        /\ \A t \in Eligible, r \in Region :
            r \in cat[t].at /\ (Strict => r \in ToSet(req.pref)) =>
                (<<t, r>> \in tried <=> r \notin skipped)

\* --max-cost: when a region was asked for that offers something, and every node
\* got what it asked for first, the bill over the window is within the cap.  Not
\* for digitalocean's GPU sizes, which are priced without the region.
WithinCap ==
    /\ cmd = "placed" /\ req.cap > 0 /\ req.pref # <<>>
    /\ \A i \in DOMAIN placed : placed[i].first
    /\ drv = "lambda" \/ placed[1].at = req.pref[1]
    /\ ~(drv = "digitalocean" /\ req.gpu)
    => LET cost(p) == cat[p.type].price[IF drv \in {"hetzner", "scaleway", "linode"}
                                        THEN p.at ELSE Base]
       IN cost(placed[1]) * req.window * req.nodes <= req.cap

\* reap picks exactly the clusters with a server that is old enough, in whatever
\* order the provider lists them, and `ls` shows the age reap goes by, if the
\* provider tells when servers were created.
PicksTheOld ==
    cmd = "planned" /\ drv # "lambda" =>
        \A c \in Cluster, h \in 1..MaxAge :
            /\ Picked(c, h) <=> \E i \in DOMAIN seen : seen[i].of = c /\ seen[i].age >= h
            /\ Picked(c, h) <=> StatusOldest(c) >= h

\* An explicit --region is never satisfied in another region by the drivers that
\* search strictly, however many types and regions are refused on the way.
StaysInRegion ==
    Strict /\ drv # "lambda" => \A i \in DOMAIN placed : placed[i].at \in ToSet(req.pref)

=============================================================================
