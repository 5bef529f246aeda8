-------------------------- MODULE PlacementProofs ---------------------------
(***************************************************************************)
(* Proofs about Placement: the search of `up` tries all it may and nothing *)
(* else, in the order it promises and within the budget, and `reap         *)
(* --older-than` picks the clusters it says, for every catalog, request    *)
(* and listing.                                                            *)
(***************************************************************************)
EXTENDS Placement, TLAPS, SequenceTheorems, WellFoundedInduction

Server == [of : Cluster, age : Created]

\* How many servers of the listing ReapPlan has been through.
Gone == Len(seen) - Len(fleet)

\* What is left is the end of the listing.
ListInv ==
    /\ seen \in Seq(Server) /\ fleet \in Seq(Server)
    /\ Len(fleet) <= Len(seen)
    /\ \A i \in 1..Len(fleet) : fleet[i] = seen[Gone + i]
    /\ drv # "lambda" => \A i \in 1..Len(seen) : seen[i].age # Unknown
    /\ cmd = "planned" => fleet = <<>>

\* The first k servers of s have one of cluster c; they have one of age a.
Some(s, k, c) == \E i \in 1..k : s[i].of = c
Has(s, k, c, a) == \E i \in 1..k : s[i].of = c /\ s[i].age = a
\* None of them is older than a.
Bounds(s, k, c, a) == \A i \in 1..k : s[i].of = c => s[i].age <= a

\* The record of a cluster sums up the servers that have been seen.
OldestOf(c) ==
    /\ oldest[c].n > 0 <=> Some(seen, Gone, c)
    /\ oldest[c].n > 0 /\ drv # "lambda" =>
         Has(seen, Gone, c, oldest[c].age) /\ Bounds(seen, Gone, c, oldest[c].age)

ReapInv ==
    /\ ListInv
    /\ oldest \in [Cluster -> [n : Nat, age : Created]]
    /\ \A c \in Cluster : OldestOf(c)

-----------------------------------------------------------------------------
LEMMA ListingTyped == ASSUME NEW s \in Listing PROVE s \in Seq(Server)
<1>1. PICK n \in 0..MaxFleet : s \in [1..n -> Server]
  BY DEF Listing, Server
<1>2. n \in Nat
  BY <1>1
<1> QED
  BY <1>1, <1>2, SeqDef

\* What a record becomes with one more server.
LEMMA AggregateKeeps ==
    ASSUME NEW a \in [n : Nat, age : Created], NEW age \in Created
    PROVE  /\ Aggregate(a, age) \in [n : Nat, age : Created]
           /\ Aggregate(a, age).n > 0
           /\ a.n = 0 => Aggregate(a, age).age = age
           /\ age # Unknown /\ a.age # Unknown =>
                /\ Aggregate(a, age).age \in {age, a.age}
                /\ age <= Aggregate(a, age).age
                /\ a.n > 0 => a.age <= Aggregate(a, age).age
  BY PlacementAssumption DEF Aggregate, Created, Unknown

LEMMA ReapInit == Init => ReapInv
<1> SUFFICES ASSUME Init PROVE ReapInv
  OBVIOUS
<1>1. CASE InitUp
  <2>1. fleet = <<>> /\ seen = <<>> /\ oldest = [c \in Cluster |-> [n |-> 0, age |-> 0]]
    BY <1>1 DEF InitUp, Idle
  <2>2. cmd # "planned"
    BY <1>1 DEF InitUp
  <2>3. ListInv
    BY <2>1, <2>2 DEF ListInv, Gone
  <2>4. 0 \in Created
    BY PlacementAssumption DEF Created
  <2>5. oldest \in [Cluster -> [n : Nat, age : Created]]
    BY <2>1, <2>4
  <2>6. \A c \in Cluster : OldestOf(c)
    BY <2>1 DEF OldestOf, Some, Gone
  <2> QED
    BY <2>3, <2>5, <2>6 DEF ReapInv
<1>2. CASE InitReap
  <2>1. /\ fleet = seen /\ seen \in Listing /\ cmd = "reap"
        /\ oldest = [c \in Cluster |-> [n |-> 0, age |-> 0]]
        /\ \A i \in DOMAIN seen : seen[i].age = Unknown <=> drv = "lambda"
    BY <1>2 DEF InitReap
  <2>2. seen \in Seq(Server) /\ Len(seen) \in Nat /\ DOMAIN seen = 1..Len(seen)
    BY <2>1, ListingTyped
  <2>3. Gone = 0
    BY <2>1, <2>2 DEF Gone
  <2>4. ListInv
    BY <2>1, <2>2, <2>3 DEF ListInv
  <2>5. 0 \in Created
    BY PlacementAssumption DEF Created
  <2>6. oldest \in [Cluster -> [n : Nat, age : Created]]
    BY <2>1, <2>5
  <2>7. \A c \in Cluster : OldestOf(c)
    BY <2>1, <2>3 DEF OldestOf, Some
  <2> QED
    BY <2>4, <2>6, <2>7 DEF ReapInv
<1> QED
  BY <1>1, <1>2 DEF Init

\* ReapPlan takes the next server of the listing.
LEMMA NextServer ==
    ASSUME ListInv, fleet # <<>>, fleet' = Tail(fleet), UNCHANGED <<seen, drv, cmd>>
    PROVE  /\ ListInv'
           /\ Gone \in Nat /\ Gone' = Gone + 1
           /\ fleet[1] \in Server /\ fleet[1] = seen[Gone + 1]
           /\ drv # "lambda" => fleet[1].age # Unknown
<1> USE DEF ListInv, Gone
<1>1. /\ Len(fleet) \in Nat /\ Len(seen) \in Nat /\ Len(fleet) > 0
      /\ fleet' \in Seq(Server) /\ Len(fleet') = Len(fleet) - 1
      /\ \A i \in 1..Len(fleet') : fleet'[i] = fleet[i + 1]
  BY HeadTailProperties, EmptySeq
<1>2. Gone \in Nat /\ Gone' = Gone + 1 /\ Gone + 1 \in 1..Len(seen)
  BY <1>1
<1>3. fleet[1] \in Server /\ fleet[1] = seen[Gone + 1]
  BY <1>1
<1>4. \A i \in 1..Len(fleet') : fleet'[i] = seen[Gone' + i]
  <2> SUFFICES ASSUME NEW i \in 1..Len(fleet')
               PROVE  fleet'[i] = seen[Gone' + i]
    OBVIOUS
  <2>1. i + 1 \in 1..Len(fleet) /\ Gone + (i + 1) = Gone' + i
    BY <1>1, <1>2
  <2> QED
    BY <1>1, <2>1
<1>5. cmd # "planned"
  OBVIOUS
<1> QED
  BY <1>1, <1>2, <1>3, <1>4, <1>5

\* One more server, of cluster c or of another one.
LEMMA OneMore ==
    ASSUME NEW s, NEW k \in Nat, NEW c
    PROVE  /\ Some(s, k + 1, c) <=> Some(s, k, c) \/ s[k + 1].of = c
           /\ \A a : Has(s, k + 1, c, a) <=>
                       Has(s, k, c, a) \/ (s[k + 1].of = c /\ s[k + 1].age = a)
           /\ \A a : Bounds(s, k + 1, c, a) <=>
                       Bounds(s, k, c, a) /\ (s[k + 1].of = c => s[k + 1].age <= a)
<1>1. 1..(k + 1) = (1..k) \cup {k + 1}
  OBVIOUS
<1> QED
  BY <1>1 DEF Some, Has, Bounds

\* The record of a cluster after the next server.
LEMMA OldestStep ==
    ASSUME ReapInv, ReapPlan, fleet # <<>>, NEW c \in Cluster
    PROVE  OldestOf(c)'
<1> DEFINE f == fleet[1]
           b == Aggregate(oldest[c], f.age)
<1>1. /\ oldest' = [oldest EXCEPT ![f.of] = Aggregate(@, f.age)]
      /\ fleet' = Tail(fleet) /\ UNCHANGED <<seen, drv, cmd>>
  BY DEF ReapPlan
<1>2. /\ Gone \in Nat /\ Gone' = Gone + 1
      /\ f \in Server /\ f = seen[Gone + 1]
      /\ drv # "lambda" => f.age # Unknown
  BY <1>1, NextServer DEF ReapInv
<1>3. f.of \in Cluster /\ f.age \in Created
  BY <1>2 DEF Server
<1>4. oldest[c] \in [n : Nat, age : Created] /\ OldestOf(c)
  BY DEF ReapInv
<1>5. /\ Some(seen, Gone + 1, c) <=> Some(seen, Gone, c) \/ f.of = c
      /\ \A a : Has(seen, Gone + 1, c, a) <=>
                  Has(seen, Gone, c, a) \/ (f.of = c /\ f.age = a)
      /\ \A a : Bounds(seen, Gone + 1, c, a) <=>
                  Bounds(seen, Gone, c, a) /\ (f.of = c => f.age <= a)
  BY <1>2, OneMore
<1>6. CASE f.of # c
  <2>1. oldest'[c] = oldest[c]
    BY <1>1, <1>6 DEF ReapInv
  <2> QED
    BY <1>1, <1>2, <1>4, <1>5, <1>6, <2>1 DEF OldestOf
<1>7. CASE f.of = c
  <2>1. oldest'[c] = b
    BY <1>1, <1>7 DEF ReapInv
  <2>2. b \in [n : Nat, age : Created] /\ b.n > 0
    BY <1>3, <1>4, AggregateKeeps
  <2>3. ASSUME drv # "lambda"
        PROVE  Has(seen, Gone + 1, c, b.age) /\ Bounds(seen, Gone + 1, c, b.age)
    <3>1. f.age # Unknown
      BY <1>2, <2>3
    <3>2. CASE oldest[c].n = 0
      <4>1. b.age = f.age
        BY <1>3, <1>4, <3>2, AggregateKeeps
      <4>2. ~Some(seen, Gone, c)
        BY <1>4, <3>2 DEF OldestOf
      <4>3. Bounds(seen, Gone, c, b.age)
        BY <4>2 DEF Some, Bounds
      <4>4. f.age <= b.age
        BY <1>3, <4>1 DEF Created, Unknown
      <4> QED
        BY <1>5, <1>7, <4>1, <4>3, <4>4
    <3>3. CASE oldest[c].n > 0
      <4>1. Has(seen, Gone, c, oldest[c].age) /\ Bounds(seen, Gone, c, oldest[c].age)
        BY <1>4, <2>3, <3>3 DEF OldestOf
      <4>2. seen \in Seq(Server) /\ Gone <= Len(seen) /\ Len(seen) \in Nat
        BY <1>2 DEF ReapInv, ListInv, Gone
      <4>3. oldest[c].age # Unknown
        BY <1>2, <2>3, <4>1, <4>2 DEF Has, ReapInv, ListInv
      <4>4. b.age \in {f.age, oldest[c].age} /\ f.age <= b.age /\ oldest[c].age <= b.age
        BY <1>3, <1>4, <3>1, <3>3, <4>3, AggregateKeeps
      <4>5. Bounds(seen, Gone, c, b.age)
        <5>1. ASSUME NEW i \in 1..Gone, seen[i].of = c PROVE seen[i].age <= b.age
          <6>1. seen[i].age \in Created
            <7>1. i \in 1..Len(seen)
              BY <1>2, <4>2
            <7>2. seen[i] \in Server
              BY <4>2, <7>1
            <7> QED
              BY <7>2 DEF Server
          <6>2. seen[i].age <= oldest[c].age
            BY <4>1, <5>1 DEF Bounds
          <6> QED
            BY <1>4, <2>2, <4>4, <6>1, <6>2 DEF Created, Unknown
        <5> QED
          BY <5>1 DEF Bounds
      <4> QED
        BY <1>5, <1>7, <4>1, <4>4, <4>5
    <3> QED
      BY <1>4, <3>2, <3>3
  <2> QED
    BY <1>1, <1>2, <1>5, <1>7, <2>1, <2>2, <2>3 DEF OldestOf
<1> QED
  BY <1>6, <1>7

\* What an `up` does is nothing to the listing.
LEMMA UpSteps ==
    ASSUME [Next]_vars, ~ReapPlan
    PROVE  UNCHANGED <<drv, fleet, oldest, seen>> /\ (cmd' = "planned" => cmd = "planned")
<1>1. CASE EstimateHourly
  BY <1>1 DEF EstimateHourly
<1>2. CASE CheckBudget
  BY <1>2 DEF CheckBudget
<1>3. CASE Accepted
  BY <1>3 DEF Accepted, SearchFrame
<1>4. CASE Unavailable
  BY <1>4 DEF Unavailable, SearchFrame
<1>5. CASE ZoneFails
  BY <1>5 DEF ZoneFails, SearchFrame
<1>6. CASE SearchFails
  BY <1>6 DEF SearchFails, SearchFrame
<1>7. CASE UNCHANGED vars
  BY <1>7 DEF vars
<1> QED
  BY <1>1, <1>2, <1>3, <1>4, <1>5, <1>6, <1>7 DEF Next

LEMMA ReapStep ==
    ASSUME ReapInv, [Next]_vars
    PROVE  ReapInv'
<1>1. CASE ReapPlan /\ fleet # <<>>
  <2>1. /\ oldest' = [oldest EXCEPT ![fleet[1].of] = Aggregate(@, fleet[1].age)]
        /\ fleet' = Tail(fleet) /\ UNCHANGED <<seen, drv, cmd>>
    BY <1>1 DEF ReapPlan
  <2>2. ListInv' /\ fleet[1] \in Server
    BY <1>1, <2>1, NextServer DEF ReapInv
  <2>3. fleet[1].of \in Cluster /\ fleet[1].age \in Created
    BY <2>2 DEF Server
  <2>4. oldest[fleet[1].of] \in [n : Nat, age : Created]
    BY <2>3 DEF ReapInv
  <2>5. Aggregate(oldest[fleet[1].of], fleet[1].age) \in [n : Nat, age : Created]
    BY <2>3, <2>4, AggregateKeeps
  <2>6. oldest' \in [Cluster -> [n : Nat, age : Created]]
    BY <2>1, <2>5 DEF ReapInv
  <2>7. \A c \in Cluster : OldestOf(c)'
    BY <1>1, OldestStep
  <2> QED
    BY <2>2, <2>6, <2>7 DEF ReapInv
<1>2. CASE ReapPlan /\ fleet = <<>>
  <2>1. UNCHANGED <<drv, fleet, oldest, seen>>
    BY <1>2 DEF ReapPlan
  <2> QED
    BY <1>2, <2>1 DEF ReapInv, ListInv, OldestOf, Gone
<1>3. CASE ~ReapPlan
  <2>1. UNCHANGED <<drv, fleet, oldest, seen>> /\ (cmd' = "planned" => cmd = "planned")
    BY <1>3, UpSteps
  <2> QED
    BY <2>1 DEF ReapInv, ListInv, OldestOf, Gone
<1> QED
  BY <1>1, <1>2, <1>3

\* The age `ls` shows is 0 or the age of the oldest server, as reap has it.
LEMMA StatusAge ==
    ASSUME ReapInv, fleet = <<>>, drv # "lambda", NEW c \in Cluster
    PROVE  StatusOldest(c) = IF oldest[c].n > 0 THEN oldest[c].age ELSE 0
<1> DEFINE T == {0} \cup {seen[i].age : i \in {j \in DOMAIN seen :
                                          seen[j].of = c /\ seen[j].age # Unknown}}
           m == IF oldest[c].n > 0 THEN oldest[c].age ELSE 0
<1>1. /\ seen \in Seq(Server) /\ Len(seen) \in Nat /\ DOMAIN seen = 1..Len(seen)
      /\ \A i \in 1..Len(seen) : seen[i].age \in 0..MaxAge
  <2>1. /\ seen \in Seq(Server) /\ Len(seen) \in Nat /\ DOMAIN seen = 1..Len(seen)
        /\ \A i \in 1..Len(seen) : seen[i] \in Server /\ seen[i].age # Unknown
    BY DEF ReapInv, ListInv
  <2> QED
    BY <2>1 DEF Server, Created
<1>2. Gone = Len(seen)
  BY <1>1, EmptySeq DEF Gone
<1>3. OldestOf(c) /\ oldest[c] \in [n : Nat, age : Created]
  BY DEF ReapInv
<1>4. m \in T
  <2>1. CASE oldest[c].n > 0
    <3>1. PICK i \in 1..Len(seen) : seen[i].of = c /\ seen[i].age = oldest[c].age
      BY <1>2, <1>3, <2>1 DEF OldestOf, Has
    <3>2. seen[i].age # Unknown
      BY <1>1 DEF Unknown
    <3> QED
      BY <1>1, <2>1, <3>1, <3>2
  <2> QED
    BY <2>1
<1>5. \A y \in T : m >= y /\ y \in Int
  <2>1. ASSUME NEW i \in 1..Len(seen), seen[i].of = c PROVE m >= seen[i].age
    <3>1. oldest[c].n > 0
      BY <1>2, <1>3, <2>1 DEF OldestOf, Some
    <3>2. seen[i].age <= oldest[c].age
      BY <1>2, <1>3, <2>1, <3>1 DEF OldestOf, Bounds
    <3>3. seen[i].age \in Int /\ oldest[c].age \in Int
      BY <1>1, <1>3 DEF Created, Unknown
    <3> QED
      BY <3>1, <3>2, <3>3
  <2>2. m >= 0
    <3>1. CASE oldest[c].n > 0
      <4>1. PICK i \in 1..Len(seen) : seen[i].of = c /\ seen[i].age = oldest[c].age
        BY <1>2, <1>3, <3>1 DEF OldestOf, Has
      <4> QED
        BY <1>1, <3>1, <4>1
    <3> QED
      BY <3>1
  <2> QED
    BY <1>1, <2>1, <2>2
<1>6. m \in Int /\ Max(T) \in T /\ \A y \in T : Max(T) >= y
  BY <1>4, <1>5 DEF Max
<1>7. Max(T) = m
  <2>1. m >= Max(T) /\ Max(T) >= m /\ Max(T) \in Int
    BY <1>4, <1>5, <1>6
  <2> QED
    BY <1>6, <2>1
<1> QED
  BY <1>7 DEF StatusOldest

\* reap picks exactly the clusters with a server that is old enough, in
\* whatever order the provider lists them and however many there are, and `ls`
\* shows the age reap goes by, for the providers that tell when servers were
\* created.
THEOREM ReapPicksTheOld == Spec => []PicksTheOld
<1>1. ReapInv => PicksTheOld
  <2> SUFFICES ASSUME ReapInv, cmd = "planned", drv # "lambda",
                      NEW c \in Cluster, NEW h \in 1..MaxAge
               PROVE  /\ Picked(c, h) <=> \E i \in DOMAIN seen : seen[i].of = c /\ seen[i].age >= h
                      /\ Picked(c, h) <=> StatusOldest(c) >= h
    BY DEF PicksTheOld
  <2>1. fleet = <<>> /\ seen \in Seq(Server) /\ Len(seen) \in Nat
    BY DEF ReapInv, ListInv
  <2>2. Gone = Len(seen) /\ DOMAIN seen = 1..Len(seen)
    BY <2>1, EmptySeq DEF Gone
  <2>3. OldestOf(c) /\ oldest[c].n \in Nat /\ oldest[c].age \in Created
    BY DEF ReapInv
  <2>4. \A i \in 1..Len(seen) : seen[i].age \in 0..MaxAge
    <3>1. \A i \in 1..Len(seen) : seen[i] \in Server /\ seen[i].age # Unknown
      BY <2>1 DEF ReapInv, ListInv
    <3> QED
      BY <3>1 DEF Server, Created
  <2>5. h \in Nat /\ h > 0
    OBVIOUS
  <2>6. CASE oldest[c].n > 0
    <3>1. PICK k \in 1..Len(seen) : seen[k].of = c /\ seen[k].age = oldest[c].age
      BY <2>2, <2>3, <2>6 DEF OldestOf, Has
    <3>2. \A i \in 1..Len(seen) : seen[i].of = c => seen[i].age <= oldest[c].age
      BY <2>2, <2>3, <2>6 DEF OldestOf, Bounds
    <3>3. oldest[c].age \in Nat
      BY <2>4, <3>1
    <3>4. Picked(c, h) <=> oldest[c].age >= h
      BY <2>6, <3>3 DEF Picked, Unknown
    <3>5. StatusOldest(c) = oldest[c].age
      BY <2>1, <2>6, StatusAge
    <3>6. oldest[c].age >= h <=> \E i \in 1..Len(seen) : seen[i].of = c /\ seen[i].age >= h
      BY <2>4, <2>5, <3>1, <3>2, <3>3
    <3> QED
      BY <2>2, <3>4, <3>5, <3>6
  <2>7. CASE ~(oldest[c].n > 0)
    <3>1. ~Picked(c, h) /\ StatusOldest(c) = 0
      BY <2>1, <2>7, StatusAge DEF Picked
    <3>2. ~\E i \in 1..Len(seen) : seen[i].of = c
      BY <2>2, <2>3, <2>7 DEF OldestOf, Some
    <3> QED
      BY <2>2, <2>5, <3>1, <3>2
  <2> QED
    BY <2>6, <2>7
<1> QED
  BY <1>1, ReapInit, ReapStep, PTL DEF Spec
-----------------------------------------------------------------------------
(***************************************************************************)
(* What comes first                                                        *)
(***************************************************************************)
LEMMA MinFacts ==
    ASSUME NEW S \in SUBSET Nat, S # {}
    PROVE  Min(S) \in S /\ \A y \in S : Min(S) <= y
<1>1. PICK x \in S : \A y \in S : ~(<<y, x>> \in OpToRel(<, Nat))
  BY NatLessThanWellFounded, WFMin
<1>2. S \subseteq Nat
  OBVIOUS
<1>3. \A y \in S : ~(y < x)
  BY <1>1, <1>2 DEF OpToRel
<1>4. \A y \in S : x <= y
  BY <1>2, <1>3
<1> QED
  BY <1>1, <1>4 DEF Min

LEMMA LeastFacts ==
    ASSUME NEW S, S # {}, NEW f, \A x \in S : f[x] \in Nat
    PROVE  Least(S, f) \subseteq S /\ Least(S, f) # {}
<1> DEFINE ranks == {f[x] : x \in S}
<1>1. ranks \in SUBSET Nat /\ ranks # {}
  OBVIOUS
<1>2. Min(ranks) \in ranks /\ \A y \in ranks : Min(ranks) <= y
  BY <1>1, MinFacts
<1>3. PICK x \in S : f[x] = Min(ranks)
  BY <1>2
<1>4. x \in Least(S, f)
  BY <1>2, <1>3 DEF Least
<1> QED
  BY <1>4 DEF Least

LEMMA RegionBasics ==
    /\ Region \subseteq Nat /\ Type \subseteq Nat
    /\ Base \in Nat /\ None \in Nat /\ None \notin Region /\ None \notin Type
    /\ 1 \in Region
  BY PlacementAssumption DEF Region, Type, Base, None

LEMMA EntryTyped ==
    ASSUME cat \in [Type -> Entry], NEW t \in Type
    PROVE  /\ cat[t] \in Entry
           /\ cat[t].at \subseteq Region
           /\ \A r \in Region \cup {Base} : cat[t].price[r] \in 1..MaxPrice
           /\ cat[t].size \in 1..NType
  BY DEF Entry

LEMMA RankTyped ==
    ASSUME cat \in [Type -> Entry], NEW r, NEW t \in Type
    PROVE  Rank(r)[t] \in Nat
<1>1. cat[t].size \in Nat /\ \A q \in Region \cup {Base} : cat[t].price[q] \in Nat
  BY EntryTyped
<1>2. (IF r \in Region THEN r ELSE Base) \in Region \cup {Base}
  OBVIOUS
<1>3. cat[t].price[IF r \in Region THEN r ELSE Base] \in Nat
  BY <1>1, <1>2
<1> QED
  BY <1>1, <1>3 DEF Rank

LEMMA FirstTypeIn ==
    ASSUME cat \in [Type -> Entry], NEW S \in SUBSET Type, S # {}, NEW r
    PROVE  FirstType(S, r) \in S /\ \A t \in S : Rank(r)[FirstType(S, r)] <= Rank(r)[t]
<1>1. \A t \in S : Rank(r)[t] \in Nat
  BY RankTyped
<1>2. Least(S, Rank(r)) \subseteq S /\ Least(S, Rank(r)) # {}
  BY <1>1, LeastFacts
<1>3. Least(S, Rank(r)) \in SUBSET Nat
  BY <1>2, RegionBasics
<1>4. FirstType(S, r) \in Least(S, Rank(r))
  BY <1>2, <1>3, MinFacts DEF FirstType
<1> QED
  BY <1>2, <1>4 DEF Least

LEMMA PlaceTyped ==
    ASSUME NEW X, NEW pref \in Seq(X), NEW r
    PROVE  place(r, pref) \in Nat
<1> DEFINE P == {Len(pref) + 1} \cup {i \in DOMAIN pref : pref[i] = r}
<1>1. P \in SUBSET Nat /\ P # {}
  OBVIOUS
<1> HIDE DEF P
<1>2. Min(P) \in Nat
  BY <1>1, MinFacts
<1> QED
  BY <1>2 DEF place, P


-----------------------------------------------------------------------------
(***************************************************************************)
(* The pairs a driver asks for                                             *)
(***************************************************************************)
Request == [type : Type \cup {None}, pref : Prefs, gpu : BOOLEAN, nodes : 1..MaxNode,
            window : 0..MaxWindow, cap : Caps \cup {0}]

\* The driver, its catalog and the request do not change.
Given == drv \in Driver /\ cat \in [Type -> Entry] /\ req \in Request

LEMMA DriverNames ==
    ASSUME Given
    PROVE  drv \in {"hetzner", "scaleway", "lambda", "vultr", "linode", "digitalocean"}
  BY PlacementAssumption DEF Given

LEMMA PrefTyped ==
    ASSUME Given
    PROVE  /\ req.pref \in Seq(Nat) /\ Pref \in Seq(Nat)
           /\ Pref # <<>> /\ 1 \in DOMAIN Pref
<1>1. PICK n \in 0..MaxPref : req.pref \in [1..n -> Region \cup {Elsewhere}]
  BY DEF Given, Request, Prefs
<1>2. Region \cup {Elsewhere} \subseteq Nat
  BY PlacementAssumption DEF Region, Elsewhere
<1>3. n \in Nat /\ req.pref \in [1..n -> Nat]
  BY <1>1, <1>2, PlacementAssumption
<1>4. req.pref \in Seq(Nat)
  BY <1>3, SeqDef
<1>5. Pref \in Seq(Nat) /\ Pref # <<>>
  BY <1>4 DEF Pref, DefaultPref
<1>6. Len(Pref) > 0 /\ DOMAIN Pref = 1..Len(Pref) /\ Len(Pref) \in Nat
  BY <1>5, EmptySeq
<1> QED
  BY <1>4, <1>5, <1>6

LEMMA CandidatesTyped ==
    ASSUME Given, NEW S \in SUBSET Type
    PROVE  OrPinned(S) \in SUBSET Type
  BY DEF OrPinned, Given, Request

LEMMA PickRegionIn ==
    ASSUME Given, NEW t \in Type
    PROVE  pickRegion(cat[t].at, req.pref) # None <=> pickRegion(cat[t].at, req.pref) \in cat[t].at
<1> DEFINE S == cat[t].at
           f == [r \in S |-> place(r, req.pref)]
<1>1. S \subseteq Region
  BY EntryTyped DEF Given
<1>2. CASE S # {}
  <2>1. \A r \in S : f[r] \in Nat
    BY PrefTyped, PlaceTyped
  <2>2. Least(S, f) \subseteq S /\ Least(S, f) # {}
    BY <1>2, <2>1, LeastFacts
  <2>3. Least(S, f) \in SUBSET Nat
    BY <1>1, <2>2, RegionBasics
  <2>4. Min(Least(S, f)) \in S
    BY <2>2, <2>3, MinFacts
  <2> QED
    BY <1>1, <1>2, <2>4, RegionBasics DEF pickRegion
<1>3. CASE S = {}
  BY <1>3 DEF pickRegion
<1> QED
  BY <1>2, <1>3

LEMMA ResolveTyped ==
    ASSUME Given
    PROVE  ResolveGPUType \in SUBSET Type
<1>1. OrPinned(Fitting) \in SUBSET Type
  BY CandidatesTyped DEF Fitting
<1> QED
  BY <1>1 DEF ResolveGPUType

\* The plan, driver by driver.
LEMMA PlanOf ==
    ASSUME Given
    PROVE  /\ drv \in {"hetzner", "linode"} =>
                CreatePlan = OrPinned(Fitting) \X {r \in Region : Strict => r \in ToSet(Pref)}
           /\ drv \in {"vultr", "digitalocean"} =>
                CreatePlan = {p \in OrPinned(Fitting) \X Region :
                                p[2] \in cat[p[1]].at /\ (Strict => p[2] \in ToSet(Pref))}
           /\ drv = "scaleway" =>
                CreatePlan = {p \in Type \X Region :
                                p[1] \in OrPinned(selectTypesIn(p[2])) /\ p[2] \in cat[p[1]].at}
           /\ drv = "lambda" => CreatePlan = createLambda
<1>1. CASE drv = "hetzner"
  BY <1>1 DEF CreatePlan, createHetzner, searchPlan, selectCandidates, orderRegions
<1>2. CASE drv = "linode"
  BY <1>2 DEF CreatePlan, createLinode, searchPlan, selectTypes, candidateRegions, orderRegions
<1>3. ASSUME NEW cands \in SUBSET Type
      PROVE  Offered(searchPlan(cands, orderRegions(regionsOf(cands), Pref, Strict)))
             = {p \in cands \X Region : p[2] \in cat[p[1]].at /\ (Strict => p[2] \in ToSet(Pref))}
  <2>1. \A t \in cands : cat[t].at \subseteq Region
    BY EntryTyped DEF Given
  <2>2. ASSUME NEW t \in cands, NEW r \in cat[t].at PROVE r \in regionsOf(cands) /\ r \in Region
    BY <2>1 DEF regionsOf
  <2>3. regionsOf(cands) \subseteq Region
    BY <2>1 DEF regionsOf
  <2> QED
    BY <2>2, <2>3 DEF Offered, searchPlan, orderRegions
<1>4. OrPinned(Fitting) \in SUBSET Type
  BY CandidatesTyped DEF Fitting
<1>5. CASE drv = "vultr"
  <2>1. selectPlans(None) = Fitting
    BY DEF selectPlans
  <2>2. CreatePlan = Offered(searchPlan(OrPinned(Fitting),
                               orderRegions(regionsOf(OrPinned(Fitting)), Pref, Strict)))
    BY <1>5, <2>1 DEF CreatePlan, createVultr
  <2> QED
    BY <1>3, <1>4, <1>5, <2>2
<1>6. CASE drv = "digitalocean"
  <2>1. selectSizes(None) = Fitting /\ selectGPUSizes = Fitting
    BY DEF selectSizes, selectGPUSizes
  <2>2. CreatePlan = Offered(searchPlan(OrPinned(Fitting),
                               orderRegions(regionsOf(OrPinned(Fitting)), Pref, Strict)))
    BY <1>6, <2>1 DEF CreatePlan, createDigitalOcean
  <2> QED
    BY <1>3, <1>4, <1>6, <2>2
<1>7. CASE drv = "scaleway"
  <2>1. \A z \in Region : OrPinned(selectTypesIn(z)) \in SUBSET Type
    BY CandidatesTyped DEF selectTypesIn, Fitting
  <2>2. CreatePlan = Offered(UNION {OrPinned(selectTypesIn(z)) \X {z} : z \in Region})
    BY <1>7 DEF CreatePlan, createScaleway, searchPlan, orderZones, orderRegions
  <2>3. UNION {OrPinned(selectTypesIn(z)) \X {z} : z \in Region}
        = {p \in Type \X Region : p[1] \in OrPinned(selectTypesIn(p[2]))}
    BY <2>1
  <2> QED
    BY <1>7, <2>2, <2>3 DEF Offered
<1>8. CASE drv = "lambda"
  BY <1>8 DEF CreatePlan
<1> QED
  BY <1>1, <1>2, <1>5, <1>6, <1>7, <1>8, DriverNames

LEMMA LambdaPlan ==
    ASSUME Given, drv = "lambda", NEW p \in CreatePlan
    PROVE  /\ ResolveGPUType # {} /\ p[1] = FirstType(ResolveGPUType, None)
           /\ p[1] \in Type /\ p[2] \in Region /\ p = <<p[1], p[2]>>
<1>1. PICK t \in ResolveGPUType : t = FirstType(ResolveGPUType, None)
                                  /\ p = <<t, pickRegion(cat[t].at, req.pref)>>
  BY PlanOf DEF createLambda
<1>2. t \in Type /\ pickRegion(cat[t].at, req.pref) # None
  BY ResolveTyped DEF ResolveGPUType
<1>3. pickRegion(cat[t].at, req.pref) \in Region
  BY <1>2, PickRegionIn, EntryTyped DEF Given
<1> QED
  BY <1>1, <1>2, <1>3

LEMMA PlanTyped ==
    ASSUME Given
    PROVE  CreatePlan \subseteq Type \X Region
<1>1. OrPinned(Fitting) \in SUBSET Type
  BY CandidatesTyped DEF Fitting
<1>2. CASE drv = "lambda"
  <2>1. \A p \in CreatePlan : p \in Type \X Region
    BY <1>2, LambdaPlan
  <2> QED
    BY <2>1
<1>3. CASE drv # "lambda"
  BY <1>1, <1>3, PlanOf, DriverNames
<1> QED
  BY <1>2, <1>3

\* The first region is one of those it is taken from, and none is preferred to it.
LEMMA FirstRegionIn ==
    ASSUME Given, NEW S \in SUBSET Region, S # {},
           drv \in {"vultr", "digitalocean"} =>
               \A r \in S : \E t \in OrPinned(Fitting) : r \in cat[t].at
    PROVE  FirstRegion(S) \in S /\ \A q \in S : place(FirstRegion(S), Pref) <= place(q, Pref)
<1> DEFINE near == Least(S, [r \in S |-> place(r, Pref)])
           cheap == Least(near, [r \in near |-> cat[Carrier(r)].price[Base]])
           named == Least(cheap, [r \in cheap |-> Carrier(r)])
<1>1. near \subseteq S /\ near # {}
  <2>1. \A r \in S : [q \in S |-> place(q, Pref)][r] \in Nat
    BY PrefTyped, PlaceTyped
  <2> QED
    BY <2>1, LeastFacts
<1>2. FirstRegion(S) = Min(IF drv \in {"vultr", "digitalocean"} THEN named ELSE near)
  BY DEF FirstRegion
<1>3. \A x \in near : x \in S /\ \A q \in S : place(x, Pref) <= place(q, Pref)
  BY DEF Least
<1> HIDE DEF near
<1>4. CASE drv \in {"vultr", "digitalocean"}
  <2>1. ASSUME NEW r \in S PROVE Carrier(r) \in Type
    <3> DEFINE C == {t \in OrPinned(Fitting) : r \in cat[t].at}
    <3>1. C \in SUBSET Type
      BY CandidatesTyped DEF Fitting
    <3>2. C # {}
      BY <1>4
    <3>3. FirstType(C, Base) \in C
      BY <3>1, <3>2, FirstTypeIn DEF Given
    <3> QED
      BY <3>1, <3>3 DEF Carrier
  <2>2. cheap \subseteq near /\ cheap # {}
    <3>1. \A r \in near : cat[Carrier(r)].price[Base] \in Nat
      BY <1>1, <2>1, EntryTyped DEF Given
    <3>2. \A r \in near : [q \in near |-> cat[Carrier(q)].price[Base]][r] \in Nat
      BY <3>1
    <3> QED
      BY <1>1, <3>2, LeastFacts
  <2> HIDE DEF cheap
  <2>3. named \subseteq cheap /\ named # {}
    <3>1. \A r \in cheap : [q \in cheap |-> Carrier(q)][r] \in Nat
      BY <1>1, <2>1, <2>2, RegionBasics
    <3> QED
      BY <2>2, <3>1, LeastFacts
  <2>4. named \in SUBSET Nat /\ named \subseteq near
    BY <1>1, <2>2, <2>3, RegionBasics
  <2>5. Min(named) \in near
    BY <2>3, <2>4, MinFacts
  <2> QED
    BY <1>2, <1>3, <1>4, <2>5
<1>5. CASE drv \notin {"vultr", "digitalocean"}
  <2>1. near \in SUBSET Nat
    BY <1>1, RegionBasics
  <2>2. Min(near) \in near
    BY <1>1, <2>1, MinFacts
  <2> QED
    BY <1>2, <1>3, <1>5, <2>2
<1> QED
  BY <1>4, <1>5

\* The pair at hand is one of those left, the first type of its region; no region
\* left is preferred to its region, and no type left there comes before its type.
LEMMA FirstPairIn ==
    ASSUME Given, NEW P \in SUBSET CreatePlan, P # {}
    PROVE  /\ FirstPair(P) \in P
           /\ FirstPair(P)[1] = FirstType({p[1] : p \in {q \in P : q[2] = FirstPair(P)[2]}},
                                          FirstPair(P)[2])
           /\ FirstPair(P) \in Type \X Region
           /\ \A q \in P :
                /\ place(FirstPair(P)[2], Pref) <= place(q[2], Pref)
                /\ q[2] = FirstPair(P)[2] =>
                     Rank(q[2])[FirstPair(P)[1]] <= Rank(q[2])[q[1]]
<1> DEFINE S == {p[2] : p \in P}
           r == FirstRegion(S)
           T == {p[1] : p \in {q \in P : q[2] = r}}
<1>1. P \subseteq Type \X Region
  BY PlanTyped
<1>2. S \in SUBSET Region /\ S # {}
  BY <1>1
<1>3. ASSUME drv \in {"vultr", "digitalocean"}, NEW q \in S
      PROVE  \E t \in OrPinned(Fitting) : q \in cat[t].at
  <2>1. PICK p \in P : q = p[2]
    OBVIOUS
  <2>2. p[1] \in OrPinned(Fitting) /\ p[2] \in cat[p[1]].at
    BY <1>3, PlanOf
  <2> QED
    BY <2>1, <2>2
<1>4. r \in S /\ \A q \in S : place(r, Pref) <= place(q, Pref)
  <2> HIDE DEF S
  <2> QED
    BY <1>2, <1>3, FirstRegionIn
<1>5. FirstPair(P) = <<FirstType(T, r), r>>
  BY DEF FirstPair
<1> HIDE DEF r
<1>6. T \in SUBSET Type /\ T # {}
  BY <1>1, <1>4
<1>7. FirstType(T, r) \in T /\ \A t \in T : Rank(r)[FirstType(T, r)] <= Rank(r)[t]
  <2> HIDE DEF T
  <2> QED
    BY <1>6, FirstTypeIn DEF Given
<1>8. PICK p \in P : p[2] = r /\ p[1] = FirstType(T, r)
  BY <1>7
<1>9. p = <<FirstType(T, r), r>>
  BY <1>1, <1>8
<1>10. FirstPair(P)[1] = FirstType(T, r) /\ FirstPair(P)[2] = r
  BY <1>5
<1>11. ASSUME NEW q \in P
       PROVE  /\ place(r, Pref) <= place(q[2], Pref)
              /\ q[2] = r => Rank(r)[FirstType(T, r)] <= Rank(r)[q[1]]
  <2>1. q[2] \in S /\ (q[2] = r => q[1] \in T)
    OBVIOUS
  <2> HIDE DEF S, T
  <2> QED
    BY <1>4, <1>7, <2>1
<1> HIDE DEF T
<1>12. /\ FirstPair(P) \in P /\ FirstPair(P) \in Type \X Region
       /\ FirstPair(P)[1] = FirstType(T, FirstPair(P)[2])
  BY <1>1, <1>5, <1>8, <1>9, <1>10
<1> QED
  BY <1>10, <1>11, <1>12 DEF T

-----------------------------------------------------------------------------
(***************************************************************************)
(* The invariant of the search                                             *)
(***************************************************************************)
Got(i) == <<placed[i].type, placed[i].at>>

\* The pairs left and the pairs refused are the plan but for the zones that were
\* skipped, for each node anew.
PlanInv ==
    /\ plan \subseteq CreatePlan /\ tried \subseteq CreatePlan
    /\ skipped \subseteq Region /\ (drv # "scaleway" => skipped = {})
    /\ \A p \in plan \cup tried : p[2] \notin skipped
    /\ cmd \in {"search", "exhausted"} =>
         \A p \in CreatePlan : p[2] \notin skipped => p \in plan \cup tried
    /\ cmd \in {"estimate", "budget"} => skipped = {}
    /\ cmd = "exhausted" => plan = {}

\* A node has a pair of the plan, the first one if none was refused.
PlacedInv ==
    /\ placed \in Seq([type : Type, at : Region, first : BOOLEAN])
    /\ \A i \in 1..Len(placed) :
         Got(i) \in CreatePlan /\ (placed[i].first => Got(i) = FirstPair(CreatePlan))
    /\ Len(placed) <= req.nodes
    /\ cmd \in {"estimate", "budget", "search"} => Len(placed) < req.nodes
    /\ cmd = "placed" => Len(placed) = req.nodes

\* The search goes by an estimate that was held against the cap.
BudgetInv ==
    /\ cmd \in {"estimate", "reap", "planned"} => est = 0
    /\ cmd \notin {"estimate", "reap", "planned"} => est = Estimate
    /\ cmd \in {"search", "exhausted", "failed", "placed"} => Affordable

SearchInv ==
    /\ Given
    /\ cmd \in {"estimate", "budget", "refused", "search", "exhausted", "failed", "placed",
                "reap", "planned"}
    /\ PlanInv /\ PlacedInv /\ BudgetInv

\* What the driver, the catalog and the request determine does not change.
LEMMA SameRequest ==
    ASSUME UNCHANGED <<drv, cat, req>>
    PROVE  /\ UNCHANGED <<CreatePlan, FirstPair(CreatePlan), Estimate>>
           /\ Given' <=> Given
<1> USE DEF Pref, Strict, OrPinned, Fitting, DefaultPref, FirstAsked
<1>1. \A S, r : FirstType(S, r)' = FirstType(S, r)
  BY DEF FirstType, Rank
<1>2. ResolveGPUType' = ResolveGPUType
  BY DEF ResolveGPUType
<1>3. /\ createHetzner' = createHetzner /\ createScaleway' = createScaleway
      /\ createVultr' = createVultr /\ createLinode' = createLinode
      /\ createDigitalOcean' = createDigitalOcean
  BY DEF createHetzner, createScaleway, createVultr, createLinode, createDigitalOcean,
         selectCandidates, selectTypesIn, selectPlans, selectSizes, selectGPUSizes, selectTypes,
         regionsOf, Offered, orderZones, orderRegions
<1>4. createLambda' = createLambda
  BY <1>1, <1>2 DEF createLambda
<1>5. CreatePlan' = CreatePlan
  BY <1>3, <1>4 DEF CreatePlan
<1>6. FirstPair(CreatePlan)' = FirstPair(CreatePlan)
  BY <1>5 DEF FirstPair, FirstRegion, Carrier, FirstType, Rank
<1>7. Estimate' = Estimate
  BY <1>1, <1>2 DEF Estimate, estimateHetzner, estimateScaleway, estimateLambda, estimateVultr,
         estimateLinode, estimateDigitalOcean, PriceOfFirst, HourlyPrice, priceHetzner,
         priceScaleway, priceLinode, priceUniform, FirstType, Rank,
         selectCandidates, selectTypesIn, selectPlans, selectSizes, selectGPUSizes, selectTypes
<1>8. Given' <=> Given
  BY DEF Given
<1> QED
  BY <1>5, <1>6, <1>7, <1>8

LEMMA SearchInit == Init => SearchInv
<1> SUFFICES ASSUME Init PROVE SearchInv
  OBVIOUS
<1>1. est = 0 /\ plan = {} /\ tried = {} /\ skipped = {} /\ placed = <<>>
  BY DEF Init
<1>2. Given /\ cmd \in {"estimate", "reap"}
  <2>1. CASE InitUp
    <3>1. MaxNode \in 1..MaxNode
      BY PlacementAssumption
    <3> QED
      BY <2>1, <3>1 DEF InitUp, Given, Request
  <2>2. CASE InitReap
    <3>1. NoEntry \in Entry
      <4>1. 1 \in 1..MaxPrice /\ 1 \in 1..NType
        BY PlacementAssumption
      <4> QED
        BY <4>1 DEF NoEntry, Entry
    <3>2. <<>> \in Prefs
      <4>1. 0 \in 0..MaxPref
        BY PlacementAssumption
      <4>2. <<>> \in [1..0 -> Region \cup {Elsewhere}]
        OBVIOUS
      <4> QED
        BY <4>1, <4>2 DEF Prefs
    <3>3. NoRequest \in Request
      <4>1. 1 \in 1..MaxNode /\ 0 \in 0..MaxWindow
        BY PlacementAssumption
      <4> QED
        BY <3>2, <4>1 DEF NoRequest, Request
    <3> QED
      BY <2>2, <3>1, <3>3 DEF InitReap, Given
  <2> QED
    BY <2>1, <2>2 DEF Init
<1>3. PlanInv
  BY <1>1, <1>2 DEF PlanInv
<1>4. PlacedInv
  <2>1. Len(placed) = 0 /\ req.nodes \in Nat /\ req.nodes > 0
    BY <1>1, <1>2 DEF Given, Request
  <2> QED
    BY <1>1, <1>2, <2>1 DEF PlacedInv
<1>5. BudgetInv
  BY <1>1, <1>2 DEF BudgetInv
<1> QED
  BY <1>2, <1>3, <1>4, <1>5 DEF SearchInv

\* A step of the command that leaves the plan and the nodes alone.
LEMMA SameNodes ==
    ASSUME UNCHANGED <<drv, cat, req, placed>>, PlacedInv,
           cmd' \in {"estimate", "budget", "search"} => cmd \in {"estimate", "budget", "search"},
           cmd' = "placed" => cmd = "placed"
    PROVE  PlacedInv'
<1>1. UNCHANGED <<CreatePlan, FirstPair(CreatePlan)>>
  BY SameRequest
<1> QED
  BY <1>1 DEF PlacedInv, Got

LEMMA SameBudget ==
    ASSUME UNCHANGED <<drv, cat, req, est>>, BudgetInv, cmd = "search",
           cmd' \in {"search", "exhausted", "failed", "placed"}
    PROVE  BudgetInv'
<1>1. UNCHANGED Estimate
  BY SameRequest
<1> QED
  BY <1>1 DEF BudgetInv, Affordable

LEMMA PairIn ==
    ASSUME SearchInv, plan # {}
    PROVE  Pair \in plan /\ Pair \in CreatePlan /\ Pair \in Type \X Region
<1>1. Given /\ plan \in SUBSET CreatePlan
  BY DEF SearchInv, PlanInv
<1> QED
  BY <1>1, FirstPairIn DEF Pair

LEMMA AcceptedKeeps == ASSUME SearchInv, Accepted PROVE SearchInv'
<1> DEFINE new == [type |-> Pair[1], at |-> Pair[2], first |-> tried = {} /\ skipped = {}]
<1>1. /\ cmd = "search" /\ plan # {} /\ UNCHANGED <<drv, cat, req, est>>
      /\ placed' = Append(placed, new) /\ tried' = {} /\ skipped' = {}
      /\ \/ Len(placed) + 1 = req.nodes /\ cmd' = "placed" /\ plan' = {}
         \/ Len(placed) + 1 # req.nodes /\ cmd' = cmd /\ plan' = CreatePlan
  BY DEF Accepted, SearchFrame
<1>2. UNCHANGED <<CreatePlan, FirstPair(CreatePlan), Estimate>> /\ Given'
  BY <1>1, SameRequest DEF SearchInv
<1>3. PlanInv'
  BY <1>1, <1>2 DEF PlanInv
<1>4. PlacedInv'
  <2>1. Pair \in CreatePlan /\ Pair \in Type \X Region
    BY <1>1, PairIn
  <2>2. tried = {} /\ skipped = {} => Pair = FirstPair(CreatePlan)
    <3>1. tried = {} /\ skipped = {} => plan = CreatePlan
      BY <1>1 DEF SearchInv, PlanInv
    <3> QED
      BY <3>1 DEF Pair
  <2>3. new \in [type : Type, at : Region, first : BOOLEAN] /\ <<new.type, new.at>> = Pair
    BY <2>1
  <2> HIDE DEF new
  <2>4. /\ placed \in Seq([type : Type, at : Region, first : BOOLEAN])
        /\ Len(placed) \in Nat /\ Len(placed) < req.nodes /\ req.nodes \in Nat
    BY <1>1 DEF SearchInv, PlacedInv, Given, Request
  <2>5. /\ placed' \in Seq([type : Type, at : Region, first : BOOLEAN])
        /\ Len(placed') = Len(placed) + 1
        /\ \A i \in 1..Len(placed) : placed'[i] = placed[i]
        /\ placed'[Len(placed) + 1] = new
    BY <1>1, <2>3, <2>4, AppendProperties
  <2>6. ASSUME NEW i \in 1..Len(placed')
        PROVE  /\ <<placed'[i].type, placed'[i].at>> \in CreatePlan
               /\ placed'[i].first => <<placed'[i].type, placed'[i].at>> = FirstPair(CreatePlan)
    <3>1. CASE i \in 1..Len(placed)
      BY <2>5, <3>1 DEF SearchInv, PlacedInv, Got
    <3>2. CASE i = Len(placed) + 1
      <4>1. placed'[i] = new
        BY <2>5, <3>2
      <4>2. new.first => tried = {} /\ skipped = {}
        BY DEF new
      <4> QED
        BY <2>1, <2>2, <2>3, <4>1, <4>2
    <3> QED
      BY <2>4, <2>5, <3>1, <3>2
  <2>7. Len(placed') <= req'.nodes /\ (cmd' = "search" => Len(placed') < req'.nodes)
        /\ (cmd' = "placed" => Len(placed') = req'.nodes) /\ cmd' \in {"search", "placed"}
    BY <1>1, <2>4, <2>5
  <2> QED
    BY <1>2, <2>5, <2>6, <2>7 DEF PlacedInv, Got
<1>5. BudgetInv'
  BY <1>1, SameBudget DEF SearchInv
<1> QED
  BY <1>1, <1>2, <1>3, <1>4, <1>5 DEF SearchInv

LEMMA SearchStep == ASSUME SearchInv, [Next]_vars PROVE SearchInv'
<1>1. CASE EstimateHourly
  <2>1. UNCHANGED <<drv, cat, req, plan, tried, skipped, placed>>
        /\ cmd = "estimate" /\ cmd' = "budget" /\ est' = Estimate
    BY <1>1 DEF EstimateHourly
  <2>2. UNCHANGED <<CreatePlan, Estimate>> /\ Given'
    BY <2>1, SameRequest DEF SearchInv
  <2>3. PlanInv' /\ BudgetInv'
    BY <2>1, <2>2 DEF PlanInv, BudgetInv, SearchInv
  <2>4. PlacedInv'
    BY <2>1, SameNodes DEF SearchInv
  <2> QED
    BY <2>1, <2>2, <2>3, <2>4 DEF SearchInv
<1>2. CASE CheckBudget
  <2>1. /\ UNCHANGED <<drv, cat, req, est, tried, skipped, placed>> /\ cmd = "budget"
        /\ \/ Affordable /\ cmd' = "search" /\ plan' = CreatePlan
           \/ cmd' = "refused" /\ plan' = plan
    BY <1>2 DEF CheckBudget
  <2>2. UNCHANGED <<CreatePlan, Estimate>> /\ Given'
    BY <2>1, SameRequest DEF SearchInv
  <2>3. PlanInv'
    BY <2>1, <2>2 DEF PlanInv, SearchInv
  <2>4. BudgetInv'
    BY <2>1, <2>2 DEF BudgetInv, SearchInv, Affordable
  <2>5. PlacedInv'
    BY <2>1, SameNodes DEF SearchInv
  <2> QED
    BY <2>1, <2>2, <2>3, <2>4, <2>5 DEF SearchInv
<1>3. CASE Accepted
  BY <1>3, AcceptedKeeps
<1>4. ASSUME cmd = "search", cmd' \in {"search", "exhausted", "failed"},
             cmd' = "exhausted" => plan' = {},
             UNCHANGED <<drv, cat, req, est, placed>>,
             plan' \subseteq plan, tried' \subseteq plan \cup tried,
             skipped \subseteq skipped', skipped' \subseteq Region,
             drv # "scaleway" => skipped' = skipped,
             \A p \in plan' \cup tried' : p[2] \notin skipped',
             \A p \in plan \cup tried : p[2] \notin skipped' => p \in plan' \cup tried'
      PROVE  SearchInv'
  <2>1. UNCHANGED <<CreatePlan, Estimate>> /\ Given'
    BY <1>4, SameRequest DEF SearchInv
  <2>2. PlanInv'
    BY <1>4, <2>1 DEF PlanInv, SearchInv
  <2>3. PlacedInv'
    BY <1>4, SameNodes DEF SearchInv
  <2>4. BudgetInv'
    BY <1>4, SameBudget DEF SearchInv
  <2> QED
    BY <1>4, <2>1, <2>2, <2>3, <2>4 DEF SearchInv
<1>5. CASE Unavailable
  <2>1. Pair \in plan
    BY <1>5, PairIn DEF Unavailable
  <2> QED
    BY <1>4, <1>5, <2>1 DEF Unavailable, Following, SearchFrame, SearchInv, PlanInv
<1>6. CASE ZoneFails
  <2>1. Pair[2] \in Region
    BY <1>6, PairIn DEF ZoneFails
  <2> QED
    BY <1>4, <1>6, <2>1 DEF ZoneFails, SearchFrame, SearchInv, PlanInv
<1>7. CASE SearchFails
  BY <1>4, <1>7 DEF SearchFails, SearchFrame, SearchInv, PlanInv
<1>8. CASE ReapPlan \/ UNCHANGED vars
  <2>1. /\ UNCHANGED <<drv, cat, req, est, plan, tried, skipped, placed>>
        /\ cmd' = cmd \/ (cmd = "reap" /\ cmd' = "planned")
    BY <1>8 DEF ReapPlan, vars
  <2>2. UNCHANGED <<CreatePlan, Estimate>> /\ Given'
    BY <2>1, SameRequest DEF SearchInv
  <2>3. PlanInv'
    BY <2>1, <2>2 DEF PlanInv, SearchInv
  <2>4. BudgetInv'
    BY <2>1, <2>2 DEF BudgetInv, SearchInv, Affordable
  <2>5. PlacedInv'
    BY <2>1, SameNodes DEF SearchInv
  <2> QED
    BY <2>1, <2>2, <2>3, <2>4, <2>5 DEF SearchInv
<1> QED
  BY <1>1, <1>2, <1>3, <1>5, <1>6, <1>7, <1>8 DEF Next

-----------------------------------------------------------------------------
(***************************************************************************)
(* Types                                                                   *)
(***************************************************************************)
\* A price that is quoted is one of the catalog, or 0.
LEMMA PriceTyped ==
    ASSUME Given, NEW cands \in SUBSET Type, NEW r
    PROVE  PriceOfFirst(cands, r) \in 0..MaxPrice
<1>1. CASE cands = {}
  BY <1>1, PlacementAssumption DEF PriceOfFirst
<1>2. CASE cands # {}
  <2> DEFINE t == FirstType(cands, r)
  <2>1. t \in Type
    BY <1>2, FirstTypeIn DEF Given
  <2> HIDE DEF t
  <2>2. \A q \in Region \cup {Base} : cat[t].price[q] \in 0..MaxPrice
    BY <2>1, EntryTyped DEF Given
  <2>3. 1 \in Region \cup {Base} /\ Base \in Region \cup {Base} /\ 0 \in 0..MaxPrice
    BY RegionBasics, PlacementAssumption
  <2>4. cat[t].at \subseteq Region
    BY <2>1, EntryTyped DEF Given
  <2>5. priceHetzner(t, r) \in 0..MaxPrice
    BY <2>2, <2>3 DEF priceHetzner
  <2>6. priceScaleway(t, r) \in 0..MaxPrice
    BY <2>2, <2>3, <2>4 DEF priceScaleway
  <2>7. priceLinode(t, r) \in 0..MaxPrice /\ priceUniform(t) \in 0..MaxPrice
    BY <2>2, <2>3 DEF priceLinode, priceUniform
  <2>8. HourlyPrice(t, r) \in 0..MaxPrice
    BY <2>5, <2>6, <2>7, DriverNames DEF HourlyPrice
  <2> QED
    BY <1>2, <2>8 DEF PriceOfFirst, t
<1> QED
  BY <1>1, <1>2

LEMMA EstimateTyped == ASSUME Given PROVE Estimate \in 0..MaxPrice
<1>1. /\ OrPinned(Fitting) \in SUBSET Type /\ OrPinned(ResolveGPUType) \in SUBSET Type
      /\ \A r : /\ OrPinned(selectTypesIn(r)) \in SUBSET Type
                /\ OrPinned(selectPlans(r)) \in SUBSET Type
                /\ OrPinned(selectSizes(r)) \in SUBSET Type
  BY CandidatesTyped, ResolveTyped DEF Fitting, selectTypesIn, selectPlans, selectSizes
<1>2. /\ estimateHetzner \in 0..MaxPrice /\ estimateScaleway \in 0..MaxPrice
      /\ estimateLambda \in 0..MaxPrice /\ estimateVultr \in 0..MaxPrice
      /\ estimateLinode \in 0..MaxPrice /\ estimateDigitalOcean \in 0..MaxPrice
  BY <1>1, PriceTyped DEF estimateHetzner, estimateScaleway, estimateLambda, estimateVultr,
     estimateLinode, estimateDigitalOcean, selectCandidates, selectTypes, selectGPUSizes
<1> QED
  BY <1>2, DriverNames DEF Estimate

\* No more servers are counted than the listing has.
CountInv == Len(seen) <= MaxFleet /\ \A c \in Cluster : oldest[c].n <= Gone

LEMMA ListingLength ==
    ASSUME NEW s \in Seq(Server)
    PROVE  s \in Listing <=> Len(s) <= MaxFleet
<1>1. Len(s) \in Nat /\ s \in [1..Len(s) -> Server]
  OBVIOUS
<1>2. ASSUME Len(s) <= MaxFleet PROVE s \in Listing
  <2>1. Len(s) \in 0..MaxFleet
    BY <1>1, <1>2, PlacementAssumption
  <2> QED
    BY <1>1, <2>1 DEF Listing, Server
<1>3. ASSUME s \in Listing PROVE Len(s) <= MaxFleet
  <2>1. PICK n \in 0..MaxFleet : s \in [1..n -> Server]
    BY <1>3 DEF Listing, Server
  <2>2. n \in Nat /\ n <= MaxFleet
    BY <2>1, PlacementAssumption
  <2>3. 1..n = 1..Len(s)
    <3>1. DOMAIN s = 1..n
      BY <2>1
    <3>2. DOMAIN s = 1..Len(s)
      BY <1>1
    <3> QED
      BY <3>1, <3>2
  <2>4. ~(Len(s) > n)
    <3>1. Len(s) > n => Len(s) \in 1..Len(s) /\ Len(s) \notin 1..n
      BY <1>1, <2>2
    <3> QED
      BY <2>3, <3>1
  <2> QED
    BY <1>1, <2>2, <2>4, PlacementAssumption
<1> QED
  BY <1>2, <1>3

LEMMA CountInit == Init => CountInv
<1> SUFFICES ASSUME Init PROVE CountInv
  OBVIOUS
<1>1. /\ seen \in Listing /\ fleet = seen /\ seen \in Seq(Server)
      /\ oldest = [c \in Cluster |-> [n |-> 0, age |-> 0]]
  <2>1. CASE InitUp
    <3>1. seen = <<>> /\ fleet = seen /\ oldest = [c \in Cluster |-> [n |-> 0, age |-> 0]]
      BY <2>1 DEF InitUp, Idle
    <3>2. seen \in Seq(Server) /\ Len(seen) <= MaxFleet
      BY <3>1, PlacementAssumption
    <3> QED
      BY <3>1, <3>2, ListingLength
  <2>2. CASE InitReap
    BY <2>2, ListingTyped DEF InitReap
  <2> QED
    BY <2>1, <2>2 DEF Init
<1>2. Len(seen) <= MaxFleet /\ Gone = 0
  BY <1>1, ListingLength DEF Gone
<1> QED
  BY <1>1, <1>2 DEF CountInv

LEMMA CountStep ==
    ASSUME ReapInv, CountInv, [Next]_vars
    PROVE  CountInv'
<1>1. CASE ReapPlan /\ fleet # <<>>
  <2>1. /\ oldest' = [oldest EXCEPT ![fleet[1].of] = Aggregate(@, fleet[1].age)]
        /\ fleet' = Tail(fleet) /\ UNCHANGED <<seen, drv, cmd>>
    BY <1>1 DEF ReapPlan
  <2>2. Gone \in Nat /\ Gone' = Gone + 1
    BY <1>1, <2>1, NextServer DEF ReapInv
  <2>3. ASSUME NEW c \in Cluster PROVE oldest'[c].n <= Gone + 1
    <3>1. oldest[c].n \in Nat /\ oldest[c].n <= Gone
      BY DEF ReapInv, CountInv
    <3>2. oldest'[c] = oldest[c] \/ oldest'[c] = Aggregate(oldest[c], fleet[1].age)
      BY <2>1 DEF ReapInv
    <3>3. oldest'[c].n = oldest[c].n \/ oldest'[c].n = oldest[c].n + 1
      BY <3>2 DEF Aggregate
    <3> QED
      BY <2>2, <3>1, <3>3
  <2> QED
    BY <2>1, <2>2, <2>3 DEF CountInv
<1>2. CASE ~(ReapPlan /\ fleet # <<>>)
  <2>1. UNCHANGED <<fleet, oldest, seen>>
    <3>1. CASE ReapPlan
      BY <1>2, <3>1 DEF ReapPlan
    <3>2. CASE ~ReapPlan
      BY <3>2, UpSteps
    <3> QED
      BY <3>1, <3>2
  <2> QED
    BY <2>1 DEF CountInv, Gone
<1> QED
  BY <1>1, <1>2

PlacementInv == SearchInv /\ ReapInv /\ CountInv

LEMMA Inductive == Spec => []PlacementInv
<1>1. Init => PlacementInv
  BY SearchInit, ReapInit, CountInit DEF PlacementInv
<1>2. PlacementInv /\ [Next]_vars => PlacementInv'
  BY SearchStep, ReapStep, CountStep DEF PlacementInv
<1> QED
  BY <1>1, <1>2, PTL DEF Spec

\* Every variable keeps its type, in particular: a pair that is tried or placed is
\* a type and a region of the catalog, whatever regions were asked for, the
\* estimate is a price of the catalog or 0, and no `up` places more nodes than asked.
THEOREM PlacementTypes == Spec => []TypeOK
<1>1. PlacementInv => TypeOK
  <2> SUFFICES ASSUME PlacementInv PROVE TypeOK
    OBVIOUS
  <2> USE DEF PlacementInv
  <2>1. drv \in Driver /\ cat \in [Type -> Entry] /\ req \in Request
    BY DEF SearchInv, Given
  <2>2. est \in 0..MaxPrice
    <3>1. est = 0 \/ est = Estimate
      BY DEF SearchInv, BudgetInv
    <3>2. 0 \in 0..MaxPrice
      BY PlacementAssumption
    <3> QED
      BY <3>1, <3>2, EstimateTyped DEF SearchInv
  <2>3. plan \subseteq Type \X Region /\ tried \subseteq Type \X Region /\ skipped \subseteq Region
    BY PlanTyped DEF SearchInv, PlanInv
  <2>4. placed \in Seq([type : Type, at : Region, first : BOOLEAN]) /\ Len(placed) <= MaxNode
    <3>1. placed \in Seq([type : Type, at : Region, first : BOOLEAN]) /\ Len(placed) <= req.nodes
      BY DEF SearchInv, PlacedInv
    <3>2. req.nodes \in 1..MaxNode /\ MaxNode \in Nat /\ Len(placed) \in Nat
      BY <2>1, <3>1, PlacementAssumption DEF Request
    <3> QED
      BY <3>1, <3>2
  <2>5. fleet \in Listing /\ seen \in Listing
    <3>1. /\ fleet \in Seq(Server) /\ seen \in Seq(Server)
          /\ Len(fleet) <= Len(seen) /\ Len(seen) <= MaxFleet
      BY DEF ReapInv, ListInv, CountInv
    <3>2. Len(fleet) <= MaxFleet
      BY <3>1, PlacementAssumption
    <3> QED
      BY <3>1, <3>2, ListingLength
  <2>6. oldest \in [Cluster -> [n : 0..MaxFleet, age : Created]]
    <3>1. Gone <= MaxFleet /\ Gone \in Int
      <4>1. fleet \in Seq(Server) /\ seen \in Seq(Server) /\ Len(seen) <= MaxFleet
        BY DEF ReapInv, ListInv, CountInv
      <4> QED
        BY <4>1, PlacementAssumption DEF Gone
    <3>2. ASSUME NEW c \in Cluster PROVE oldest[c] \in [n : 0..MaxFleet, age : Created]
      <4>1. oldest[c] \in [n : Nat, age : Created] /\ oldest[c].n <= Gone
        BY DEF ReapInv, CountInv
      <4>2. oldest[c].n \in 0..MaxFleet
        BY <3>1, <4>1, PlacementAssumption
      <4> QED
        BY <4>1, <4>2
    <3> QED
      BY <3>2 DEF ReapInv
  <2>7. cmd \in {"estimate", "budget", "refused", "search", "exhausted", "failed", "placed",
                 "reap", "planned"}
    BY DEF SearchInv
  <2> QED
    BY <2>1, <2>2, <2>3, <2>4, <2>5, <2>6, <2>7 DEF TypeOK, Request
<1> QED
  BY <1>1, Inductive, PTL

-----------------------------------------------------------------------------
(***************************************************************************)
(* What `up` promises                                                      *)
(***************************************************************************)
\* The search gives up for want of capacity only when every eligible type was
\* asked for and refused in every region the request allows, except exactly the
\* types of scaleway's zones that could not be listed, however large the catalog,
\* whatever the order of the refusals and whichever node is being placed.
THEOREM SearchIsComplete == Spec => []TriesEverything
<1>1. PlacementInv => TriesEverything
  <2> SUFFICES ASSUME PlacementInv, cmd = "exhausted", drv # "lambda"
               PROVE  /\ drv # "scaleway" => skipped = {}
                      /\ \A t \in Eligible, r \in Region :
                          r \in cat[t].at /\ (Strict => r \in ToSet(req.pref)) =>
                              (<<t, r>> \in tried <=> r \notin skipped)
    BY DEF TriesEverything
  <2>1. /\ Given /\ (drv # "scaleway" => skipped = {})
        /\ \A p \in tried : p[2] \notin skipped
        /\ \A p \in CreatePlan : p[2] \notin skipped => p \in tried
    BY DEF PlacementInv, SearchInv, PlanInv
  <2>2. ASSUME NEW t \in Eligible, NEW r \in Region,
               r \in cat[t].at, Strict => r \in ToSet(req.pref)
        PROVE  <<t, r>> \in CreatePlan
    <3>1. Eligible = OrPinned(Fitting)
      BY DEF Eligible, OrPinned, Fitting
    <3>2. t \in Type
      BY <2>1, <3>1, CandidatesTyped DEF Fitting
    <3>3. Strict => r \in ToSet(Pref)
      BY <2>2 DEF Strict, Pref
    <3>4. t \in OrPinned(selectTypesIn(r))
      BY <2>2, <3>1 DEF OrPinned, selectTypesIn
    <3> QED
      BY <2>1, <2>2, <3>1, <3>2, <3>3, <3>4, PlanOf, DriverNames
  <2>3. ASSUME NEW t, NEW r, <<t, r>> \in CreatePlan
        PROVE  <<t, r>> \in tried <=> r \notin skipped
    <3>1. <<t, r>>[2] = r
      OBVIOUS
    <3> QED
      BY <2>1, <2>3, <3>1
  <2> QED
    BY <2>1, <2>2, <2>3
<1> QED
  BY <1>1, Inductive, PTL

\* An explicit --region is never satisfied in another region by the drivers that
\* search strictly: the region of every node that is placed is one of those asked
\* for, however many pairs were refused before.
THEOREM RegionHonoured == Spec => []StaysInRegion
<1>1. PlacementInv => StaysInRegion
  <2> SUFFICES ASSUME PlacementInv, Strict, drv # "lambda", NEW i \in DOMAIN placed
               PROVE  placed[i].at \in ToSet(req.pref)
    BY DEF StaysInRegion
  <2>1. Given /\ i \in 1..Len(placed) /\ Got(i) \in CreatePlan
    BY DEF PlacementInv, SearchInv, PlacedInv
  <2>2. Pref = req.pref /\ drv # "scaleway"
    BY DEF Strict, Pref
  <2>3. Got(i)[2] \in ToSet(Pref)
    BY <2>1, <2>2, PlanOf, DriverNames
  <2> QED
    BY <2>2, <2>3 DEF Got
<1> QED
  BY <1>1, Inductive, PTL

\* The types of the plan in one region.
LEMMA TypesAt ==
    ASSUME Given, NEW r \in Region, NEW t \in Type, <<t, r>> \in CreatePlan
    PROVE  LET T == {p[1] : p \in {q \in CreatePlan : q[2] = r}}
           IN /\ drv \in {"hetzner", "linode"} => T = OrPinned(Fitting)
              /\ drv = "scaleway" =>
                   T = OrPinned(selectTypesIn(r)) /\ \A u \in T : r \in cat[u].at
              /\ drv \in {"vultr", "digitalocean"} =>
                   T = OrPinned({u \in Fitting : r \in cat[u].at})
<1> DEFINE T == {p[1] : p \in {q \in CreatePlan : q[2] = r}}
<1>1. OrPinned(Fitting) \in SUBSET Type
  BY CandidatesTyped DEF Fitting
<1>2. CASE drv \in {"hetzner", "linode"}
  <2>1. CreatePlan = OrPinned(Fitting) \X {q \in Region : Strict => q \in ToSet(Pref)}
    BY <1>2, PlanOf
  <2>2. ASSUME NEW u \in OrPinned(Fitting) PROVE u \in T
    <3>1. <<u, r>> \in CreatePlan
      BY <2>1
    <3> QED
      BY <3>1
  <2>3. T \subseteq OrPinned(Fitting)
    BY <2>1
  <2> QED
    BY <1>2, <2>2, <2>3
<1>3. CASE drv = "scaleway"
  <2>1. CreatePlan = {p \in Type \X Region :
                        p[1] \in OrPinned(selectTypesIn(p[2])) /\ p[2] \in cat[p[1]].at}
    BY <1>3, PlanOf
  <2>2. OrPinned(selectTypesIn(r)) \in SUBSET Type
    BY CandidatesTyped DEF selectTypesIn, Fitting
  <2>3. \A u \in OrPinned(selectTypesIn(r)) : r \in cat[u].at
    BY <2>1 DEF OrPinned, selectTypesIn
  <2>4. ASSUME NEW u \in OrPinned(selectTypesIn(r)) PROVE u \in T
    <3>1. <<u, r>> \in CreatePlan
      BY <2>1, <2>2, <2>3
    <3> QED
      BY <3>1
  <2>5. T \subseteq OrPinned(selectTypesIn(r))
    BY <2>1
  <2> QED
    BY <1>3, <2>3, <2>4, <2>5
<1>4. CASE drv \in {"vultr", "digitalocean"}
  <2> DEFINE C == OrPinned({u \in Fitting : r \in cat[u].at})
  <2>1. CreatePlan = {p \in OrPinned(Fitting) \X Region :
                        p[2] \in cat[p[1]].at /\ (Strict => p[2] \in ToSet(Pref))}
    BY <1>4, PlanOf
  <2>2. \A u : u \in C <=> u \in OrPinned(Fitting) /\ r \in cat[u].at
    BY <2>1 DEF OrPinned
  <2>3. ASSUME NEW u \in C PROVE u \in T
    <3>1. <<u, r>> \in CreatePlan
      BY <2>1, <2>2
    <3> QED
      BY <3>1
  <2>4. T \subseteq C
    BY <2>1, <2>2
  <2> QED
    BY <1>4, <2>3, <2>4
<1> QED
  BY <1>2, <1>3, <1>4

\* The estimate is the price of the first pair of the plan, if that is in the
\* region that was asked for first.
LEMMA EstimateIsPrice ==
    ASSUME Given, req.pref # <<>>, NEW p \in CreatePlan, p = FirstPair(CreatePlan),
           drv = "lambda" \/ p[2] = req.pref[1], ~(drv = "digitalocean" /\ req.gpu)
    PROVE  Estimate = cat[p[1]].price[IF drv \in {"hetzner", "scaleway", "linode"}
                                      THEN p[2] ELSE Base]
<1> DEFINE r == p[2]
           T == {q[1] : q \in {s \in CreatePlan : s[2] = r}}
<1>1. p[1] \in Type /\ r \in Region /\ p = <<p[1], r>> /\ p[1] = FirstType(T, r) /\ p[1] \in T
  <2>1. p \in Type \X Region
    BY PlanTyped
  <2>2. FirstPair(CreatePlan)[1] =
          FirstType({q[1] : q \in {s \in CreatePlan : s[2] = FirstPair(CreatePlan)[2]}},
                    FirstPair(CreatePlan)[2])
    BY FirstPairIn
  <2>3. p[1] = FirstType(T, r)
    BY <2>2
  <2>4. p[1] \in T
    OBVIOUS
  <2>5. p[1] \in Type /\ r \in Region /\ p = <<p[1], r>>
    BY <2>1
  <2> HIDE DEF T, r
  <2> QED
    BY <2>3, <2>4, <2>5
<1>2. r # None /\ Pref = req.pref /\ FirstAsked = req.pref[1]
  BY <1>1, RegionBasics DEF Pref, FirstAsked
<1>3. CASE drv \in {"hetzner", "linode"}
  <2>1. T = OrPinned(Fitting)
    BY <1>1, <1>3, TypesAt
  <2>2. Estimate = PriceOfFirst(T, r)
    BY <1>2, <1>3, <2>1 DEF Estimate, estimateHetzner, estimateLinode, selectCandidates, selectTypes
  <2> QED
    BY <1>1, <1>3, <2>2 DEF PriceOfFirst, HourlyPrice, priceHetzner, priceLinode
<1>4. CASE drv = "scaleway"
  <2>1. T = OrPinned(selectTypesIn(r)) /\ r \in cat[p[1]].at
    BY <1>1, <1>4, TypesAt
  <2>2. Estimate = PriceOfFirst(T, r)
    BY <1>2, <1>4, <2>1 DEF Estimate, estimateScaleway
  <2> QED
    BY <1>1, <1>4, <2>1, <2>2 DEF PriceOfFirst, HourlyPrice, priceScaleway
<1>5. CASE drv \in {"vultr", "digitalocean"}
  <2>1. T = OrPinned({u \in Fitting : r \in cat[u].at})
    BY <1>1, <1>5, TypesAt
  <2>2. selectPlans(r) = {u \in Fitting : r \in cat[u].at}
        /\ selectSizes(r) = {u \in Fitting : r \in cat[u].at}
    BY <1>2 DEF selectPlans, selectSizes
  <2>3. Estimate = PriceOfFirst(T, r)
    BY <1>2, <1>5, <2>1, <2>2 DEF Estimate, estimateVultr, estimateDigitalOcean
  <2> QED
    BY <1>1, <1>5, <2>3 DEF PriceOfFirst, HourlyPrice, priceUniform
<1>6. CASE drv = "lambda"
  <2>1. ResolveGPUType # {} /\ p[1] = FirstType(ResolveGPUType, None)
    BY <1>6, LambdaPlan
  <2>2. OrPinned(ResolveGPUType) = ResolveGPUType
    BY <2>1 DEF OrPinned, ResolveGPUType
  <2>3. FirstType(ResolveGPUType, FirstAsked) = FirstType(ResolveGPUType, None)
    BY <1>6 DEF FirstType, Rank
  <2>4. Estimate = PriceOfFirst(ResolveGPUType, FirstAsked)
    BY <1>6, <2>2 DEF Estimate, estimateLambda
  <2> QED
    BY <1>6, <2>1, <2>3, <2>4 DEF PriceOfFirst, HourlyPrice, priceUniform
<1> QED
  BY <1>3, <1>4, <1>5, <1>6, DriverNames

\* --max-cost holds: when the region asked for first is where the nodes went and
\* each got what it asked for first, the bill over the window is within the cap,
\* for every catalog, cap, window and number of nodes (digitalocean's GPU sizes
\* excepted, which are priced without the region).
THEOREM BudgetHolds == Spec => []WithinCap
<1>1. PlacementInv => WithinCap
  <2> SUFFICES ASSUME PlacementInv, cmd = "placed", req.cap > 0, req.pref # <<>>,
                      \A i \in DOMAIN placed : placed[i].first,
                      drv = "lambda" \/ placed[1].at = req.pref[1],
                      ~(drv = "digitalocean" /\ req.gpu)
               PROVE  cat[placed[1].type].price[IF drv \in {"hetzner", "scaleway", "linode"}
                                                THEN placed[1].at ELSE Base]
                        * req.window * req.nodes <= req.cap
    BY DEF WithinCap
  <2>1. Given /\ PlacedInv /\ est = Estimate /\ Affordable
    BY DEF PlacementInv, SearchInv, BudgetInv
  <2>2. 1 \in 1..Len(placed) /\ 1 \in DOMAIN placed
    <3>1. placed \in Seq([type : Type, at : Region, first : BOOLEAN]) /\ Len(placed) = req.nodes
      BY <2>1 DEF PlacedInv
    <3>2. req.nodes \in 1..MaxNode
      BY <2>1 DEF Given, Request
    <3> QED
      BY <3>1, <3>2
  <2>3. Got(1) \in CreatePlan /\ Got(1) = FirstPair(CreatePlan)
    BY <2>1, <2>2 DEF PlacedInv
  <2>4. Got(1)[1] = placed[1].type /\ Got(1)[2] = placed[1].at
    BY DEF Got
  <2>5. est = cat[placed[1].type].price[IF drv \in {"hetzner", "scaleway", "linode"}
                                        THEN placed[1].at ELSE Base]
    BY <2>1, <2>3, <2>4, EstimateIsPrice
  <2>6. req.cap # 0
    <3>1. req.cap \in Caps \cup {0}
      BY <2>1 DEF Given, Request
    <3>2. Caps \cup {0} \subseteq Nat
      BY PlacementAssumption
    <3> QED
      BY <3>1, <3>2
  <2>7. est * req.window * req.nodes <= req.cap
    BY <2>1, <2>6 DEF Affordable
  <2> QED
    BY <2>5, <2>7
<1> QED
  BY <1>1, Inductive, PTL

\* A node gets the best that could be had: when a request is accepted, every pair
\* of the plan in a region that is preferred to its region, and every pair of its
\* region with a type that comes before its type (a smaller one at hetzner, a
\* cheaper one elsewhere), has been asked for and refused; only the zones scaleway
\* could not list may hold a better one, and the accepted one is in none of those.
THEOREM BestAvailable ==
    Spec => [][Accepted =>
                 /\ Pair[2] \notin skipped
                 /\ \A p \in CreatePlan \ tried : p[2] \notin skipped =>
                      /\ place(Pair[2], Pref) <= place(p[2], Pref)
                      /\ p[2] = Pair[2] => Rank(p[2])[Pair[1]] <= Rank(p[2])[p[1]]]_vars
<1>1. ASSUME PlacementInv, Accepted, NEW p \in CreatePlan \ tried, p[2] \notin skipped
      PROVE  /\ place(Pair[2], Pref) <= place(p[2], Pref)
             /\ p[2] = Pair[2] => Rank(p[2])[Pair[1]] <= Rank(p[2])[p[1]]
  <2>1. Given /\ plan \in SUBSET CreatePlan /\ plan # {} /\ p \in plan
    BY <1>1 DEF PlacementInv, SearchInv, PlanInv, Accepted
  <2> QED
    BY <2>1, FirstPairIn DEF Pair
<1>2. ASSUME PlacementInv, Accepted PROVE Pair[2] \notin skipped
  <2>1. Pair \in plan
    BY <1>2, PairIn DEF PlacementInv, Accepted
  <2> QED
    BY <2>1, <1>2 DEF PlacementInv, SearchInv, PlanInv
<1>3. PlacementInv /\ [Next]_vars =>
        [Accepted =>
           /\ Pair[2] \notin skipped
           /\ \A p \in CreatePlan \ tried : p[2] \notin skipped =>
                /\ place(Pair[2], Pref) <= place(p[2], Pref)
                /\ p[2] = Pair[2] => Rank(p[2])[Pair[1]] <= Rank(p[2])[p[1]]]_vars
  BY <1>1, <1>2
<1> QED
  BY <1>3, Inductive, PTL DEF Spec
=============================================================================
