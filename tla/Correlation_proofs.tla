------------------------- MODULE Correlation_proofs -------------------------
(***************************************************************************)
(* Proofs about the correlation engine, for any services and relation      *)
(* between them, any window, age limit and interval, and any number of     *)
(* anomalies and restarts: every anomaly is in one cluster, clusters are   *)
(* bounded in time, and connected clusters are merged.                     *)
(***************************************************************************)
EXTENDS Correlation, TLAPS, LeastElement

----------------------------------------------------------------------------
(* What incident_clusterer.add does to the list of clusters. *)

Anomaly == [service : Services, detectedAt : Time]

EligibleAt(t) == {c \in clusters : IsEligible(c, t)}

MatchingFor(i) == ConnectedClusters(events[i].service, EligibleAt(events[i].detectedAt))

\* What is known of the cluster m that takes anomaly i and absorbs the clusters in matching.
Takes(m, matching, i) ==
    /\ m \in Cluster
    /\ m.members = {i} \cup UNION {c.members : c \in matching}
    /\ IF matching = {} THEN m.created = events[i].detectedAt
       ELSE /\ \E c \in matching : m.created = c.created
            /\ \A c \in matching : m.created <= c.created

LEMMA TimeBounds == Time \in SUBSET Nat /\ Position \in SUBSET Nat /\ MaxTime \in Nat
  BY CorrelationAssumption DEF Time, Position

LEMMA NewClusterTakes ==
    ASSUME NEW i \in Position, events[i] \in Anomaly
    PROVE  Takes(NewCluster(i), {}, i)
  BY DEF Takes, NewCluster, Cluster, Anomaly

LEMMA MergedTakes ==
    ASSUME NEW i \in Position, events[i] \in Anomaly,
           NEW matching \in SUBSET Cluster, matching # {}
    PROVE  Takes(Merged(matching, i), matching, i)
<1>1. PICK o \in matching : o = CHOOSE c \in matching : \A d \in matching : c.born <= d.born
  <2>1. PICK births \in SUBSET Nat : births = {c.born : c \in matching}
    <3>1. {c.born : c \in matching} \in SUBSET Nat
      BY TimeBounds DEF Cluster
    <3> QED
      BY <3>1
  <2>2. \E x \in births : \A y \in births : x <= y
    <3>1. births # {}
      BY <2>1
    <3> QED
      BY <3>1, LeastExists
  <2>3. \E c \in matching : \A d \in matching : c.born <= d.born
    BY <2>1, <2>2
  <2> QED
    BY <2>3
<1>2. PICK target \in Cluster :
         /\ target = Add(o, i)
         /\ target.members = o.members \cup {i} /\ target.born = o.born
         /\ target.updated \in Time
  <2>1. Later(o.updated, events[i].detectedAt) \in Time
    BY DEF Later, Cluster, Anomaly
  <2>2. Add(o, i) \in Cluster
    BY <2>1 DEF Add, Cluster
  <2>3. /\ Add(o, i).members = o.members \cup {i} /\ Add(o, i).born = o.born
        /\ Add(o, i).updated \in Time
    BY <2>1 DEF Add, Cluster
  <2> QED
    BY <2>2, <2>3
<1>3. PICK bounds \in SUBSET Cluster : bounds = matching \cup {target}
  OBVIOUS
<1>4. PICK from \in Time :
         /\ from = CHOOSE t \in {c.created : c \in matching} :
                       \A c \in matching : t <= c.created
         /\ \E c \in matching : from = c.created
         /\ \A c \in matching : from <= c.created
  <2>1. PICK times \in SUBSET Time : times = {c.created : c \in matching}
    <3>1. {c.created : c \in matching} \in SUBSET Time
      BY DEF Cluster
    <3> QED
      BY <3>1
  <2>2. \E x \in times : \A y \in times : x <= y
    <3>1. times # {} /\ times \in SUBSET Nat
      BY <2>1, TimeBounds
    <3> QED
      BY <3>1, LeastExists
  <2>3. \E x \in times : \A c \in matching : x <= c.created
    BY <2>1, <2>2
  <2>4. PICK x \in times : x = CHOOSE t \in times : \A c \in matching : t <= c.created
    BY <2>3
  <2>5. \A c \in matching : x <= c.created
    BY <2>3, <2>4
  <2>6. \E c \in matching : x = c.created
    BY <2>1
  <2>7. x = CHOOSE t \in {c.created : c \in matching} : \A c \in matching : t <= c.created
    BY <2>1, <2>4
  <2> QED
    BY <2>5, <2>6, <2>7
<1>5. PICK till \in Time : till = CHOOSE t \in {c.updated : c \in bounds} :
                                      \A c \in bounds : c.updated <= t
  <2>1. PICK times \in SUBSET (0..MaxTime) : times = {c.updated : c \in bounds}
    <3>1. {c.updated : c \in bounds} \in SUBSET (0..MaxTime)
      BY DEF Cluster, Time
    <3> QED
      BY <3>1
  <2>2. \E x \in times : \A y \in times : y <= x
    <3>1. times # {}
      BY <1>3, <2>1
    <3> QED
      BY <3>1, GreatestExists, TimeBounds
  <2>3. \E x \in times : \A c \in bounds : c.updated <= x
    BY <2>1, <2>2
  <2> QED
    BY <2>1, <2>3 DEF Time
<1>6. PICK all \in SUBSET Position :
         /\ all = UNION {c.members : c \in bounds}
         /\ all = {i} \cup UNION {c.members : c \in matching}
  <2>1. UNION {c.members : c \in bounds} \in SUBSET Position
    BY DEF Cluster
  <2>2. UNION {c.members : c \in bounds} = {i} \cup UNION {c.members : c \in matching}
    <3>1. o \in matching /\ target.members = o.members \cup {i}
      BY <1>2
    <3>2. \A x : x \in UNION {c.members : c \in bounds} <=>
                  x \in target.members \/ x \in UNION {c.members : c \in matching}
      BY <1>3
    <3> QED
      BY <3>1, <3>2
  <2> QED
    BY <2>1, <2>2
<1>7. Merged(matching, i) = [born |-> target.born, members |-> all,
                             created |-> from, updated |-> till]
  BY <1>1, <1>2, <1>3, <1>4, <1>5, <1>6 DEF Merged
<1>8. target.born \in Position
  BY DEF Cluster
<1> QED
  BY <1>4, <1>6, <1>7, <1>8 DEF Takes, Cluster

\* One cluster takes the anomaly, in the place of those that match.
LEMMA AfterAddFacts ==
    ASSUME NEW i \in Position, events[i] \in Anomaly, clusters \in SUBSET Cluster
    PROVE  \E m \in Cluster :
              /\ AfterAdd(i) = (clusters \ MatchingFor(i)) \cup {m}
              /\ Takes(m, MatchingFor(i), i)
<1>1. PICK matching : matching = MatchingFor(i)
  OBVIOUS
<1>2. matching \in SUBSET clusters
  BY <1>1 DEF MatchingFor, ConnectedClusters, EligibleAt
<1>3. AfterAdd(i) = IF matching = {} THEN clusters \cup {NewCluster(i)}
                    ELSE (clusters \ matching) \cup {Merged(matching, i)}
  BY <1>1 DEF AfterAdd, MatchingFor, EligibleAt
<1>4. CASE matching = {}
  BY <1>1, <1>3, <1>4, NewClusterTakes DEF Takes
<1>5. CASE matching # {}
  <2>1. Takes(Merged(matching, i), matching, i)
    BY <1>2, <1>5, MergedTakes
  <2> QED
    BY <1>1, <1>3, <1>5, <2>1 DEF Takes
<1> QED
  BY <1>4, <1>5

----------------------------------------------------------------------------
(* Types. *)

LEMMA InitTyped == Init => TypeOK
  BY CorrelationAssumption DEF Init, TypeOK, Time

LEMMA NextToCloseFacts ==
    ASSUME TypeOK, closing # {}
    PROVE  NextToClose \in closing
<1>1. PICK births \in SUBSET Nat : births = {c.born : c \in closing}
  <2>1. {c.born : c \in closing} \in SUBSET Nat
    BY TimeBounds DEF TypeOK, Cluster
  <2> QED
    BY <2>1
<1>2. \E x \in births : \A y \in births : x <= y
  <2>1. births # {}
    BY <1>1
  <2> QED
    BY <2>1, LeastExists
<1>3. \E c \in closing : \A d \in closing : c.born <= d.born
  BY <1>1, <1>2
<1> QED
  BY <1>3 DEF NextToClose

\* An anomaly is read: what is known of the clusters afterwards.
LEMMA AddFacts ==
    ASSUME TypeOK, AddAnomaly
    PROVE  /\ position + 1 \in 1..Len(events) /\ position + 1 \in Position
           /\ events[position + 1] \in Anomaly
           /\ \E m \in Cluster :
                 /\ clusters' = (clusters \ MatchingFor(position + 1)) \cup {m}
                 /\ Takes(m, MatchingFor(position + 1), position + 1)
<1>1. position + 1 \in 1..Len(events) /\ position + 1 \in Position
  BY CorrelationAssumption DEF AddAnomaly, TypeOK, Position
<1>2. events[position + 1] \in Anomaly
  <2>1. events \in Seq(Anomaly)
    BY DEF TypeOK, Anomaly
  <2> QED
    BY <1>1, <2>1
<1> QED
  BY <1>1, <1>2, AfterAddFacts DEF AddAnomaly, TypeOK

LEMMA NextTyped ==
    ASSUME TypeOK, [Next]_vars
    PROVE  TypeOK'
<1>1. /\ now \in Time /\ events \in Seq([service : Services, detectedAt : Time])
      /\ Len(events) <= MaxEvents
      /\ committed \in 0..Len(events) /\ position \in 0..Len(events)
      /\ clusters \in SUBSET Cluster /\ closing \in SUBSET Cluster
      /\ pc \in {"poll", "check", "close"} /\ lastCheck \in Time
      /\ start \in 0..position /\ run \in 0..MaxCrashes
  BY DEF TypeOK
<1>2. /\ incidents \in SUBSET [members : SUBSET Position, published : BOOLEAN, run : 0..run]
      /\ dropped \in SUBSET [members : SUBSET Position, run : 0..run]
  BY DEF TypeOK
<1>3. CASE UNCHANGED vars
  BY <1>1, <1>2, <1>3 DEF TypeOK, vars
<1>4. CASE Tick
  <2>1. now' \in Time
    BY <1>1, <1>4, CorrelationAssumption DEF Tick, Time
  <2> QED
    BY <1>1, <1>2, <1>4, <2>1 DEF TypeOK, Tick
<1>5. ASSUME NEW s \in Services, NEW t \in Time, Publish(s, t) PROVE TypeOK'
  <2>1. PICK e \in [service : Services, detectedAt : Time] :
           e = [service |-> s, detectedAt |-> t]
    OBVIOUS
  <2>2. /\ events' \in Seq([service : Services, detectedAt : Time])
        /\ Len(events') = Len(events) + 1
    BY <1>1, <1>5, <2>1 DEF Publish
  <2>3. /\ Len(events') <= MaxEvents
        /\ committed' \in 0..Len(events') /\ position' \in 0..Len(events')
    BY <1>1, <1>5, <2>2, CorrelationAssumption DEF Publish
  <2> QED
    BY <1>1, <1>2, <1>5, <2>2, <2>3 DEF TypeOK, Publish
<1>6. CASE AddAnomaly
  <2>1. clusters' \in SUBSET Cluster
    BY <1>1, <1>6, AddFacts
  <2>2. position' \in 0..Len(events) /\ start \in 0..position'
    BY <1>1, <1>6 DEF AddAnomaly
  <2>3. pc' \in {"poll", "check", "close"}
    BY <1>6 DEF AddAnomaly
  <2> QED
    BY <1>1, <1>2, <1>6, <2>1, <2>2, <2>3 DEF TypeOK, AddAnomaly
<1>7. CASE PopFinalized
  BY <1>1, <1>2, <1>7 DEF TypeOK, PopFinalized
<1>8. CASE FailToSave \/ SaveAndPublish
  <2>1. NextToClose \in closing
    BY <1>8, NextToCloseFacts DEF FailToSave, SaveAndPublish
  <2>2. PICK c \in Cluster : c = NextToClose
    BY <1>1, <2>1
  <2>3. c.members \in SUBSET Position /\ run \in 0..run
    BY <1>1, CorrelationAssumption DEF Cluster
  <2>4. dropped' \in SUBSET [members : SUBSET Position, run : 0..run]
    BY <1>2, <1>8, <2>2, <2>3 DEF FailToSave, SaveAndPublish
  <2>5. incidents' \in SUBSET [members : SUBSET Position, published : BOOLEAN, run : 0..run]
    BY <1>2, <1>8, <2>2, <2>3 DEF FailToSave, SaveAndPublish, Outcomes
  <2> QED
    BY <1>1, <1>8, <2>4, <2>5 DEF TypeOK, FailToSave, SaveAndPublish
<1>9. CASE CheckDone
  BY <1>1, <1>2, <1>9 DEF TypeOK, CheckDone
<1>10. CASE AutoCommit
  BY <1>1, <1>2, <1>10 DEF TypeOK, AutoCommit
<1>11. CASE Restart
  <2>1. /\ run' \in 0..MaxCrashes /\ 0..run \subseteq 0..run'
        /\ start' \in 0..position'
    BY <1>1, <1>11, CorrelationAssumption DEF Restart
  <2>2. /\ incidents' \in SUBSET [members : SUBSET Position, published : BOOLEAN,
                                  run : 0..run']
        /\ dropped' \in SUBSET [members : SUBSET Position, run : 0..run']
    BY <1>2, <1>11, <2>1 DEF Restart
  <2> QED
    BY <1>1, <1>11, <2>1, <2>2 DEF TypeOK, Restart
<1> QED
  BY <1>3, <1>4, <1>5, <1>6, <1>7, <1>8, <1>9, <1>10, <1>11 DEF Next

\* Every variable keeps its type.
THEOREM TypeCorrect == Spec => []TypeOK
<1>1. TypeOK /\ [Next]_vars => TypeOK'
  BY NextTyped
<1> QED
  BY <1>1, InitTyped, PTL DEF Spec

----------------------------------------------------------------------------
(* Every anomaly is in one group. *)

Mine == (start + 1)..position
DroppedNow == {e \in dropped : e.run = run}
SavedNow == {e \in incidents : e.run = run}

IsIn(i, S) == \E c \in S : i \in c.members
IsInOne(i, S) == \E c \in S : i \in c.members /\ \A d \in S : i \in d.members => d = c

\* Anomaly i is in one element of one of four sets.
Placed(i, open, ending, given, saved) ==
    \/ IsInOne(i, open) /\ ~IsIn(i, ending) /\ ~IsIn(i, given) /\ ~IsIn(i, saved)
    \/ ~IsIn(i, open) /\ IsInOne(i, ending) /\ ~IsIn(i, given) /\ ~IsIn(i, saved)
    \/ ~IsIn(i, open) /\ ~IsIn(i, ending) /\ IsInOne(i, given) /\ ~IsIn(i, saved)
    \/ ~IsIn(i, open) /\ ~IsIn(i, ending) /\ ~IsIn(i, given) /\ IsInOne(i, saved)

AllMine(S) == \A c \in S : c.members \subseteq Mine

EachPlaced ==
    /\ \A i \in Mine : Placed(i, clusters, closing, DroppedNow, SavedNow)
    /\ AllMine(clusters) /\ AllMine(closing) /\ AllMine(DroppedNow) /\ AllMine(SavedNow)
    /\ pc # "close" => closing = {}

LEMMA PlacedInOneGroup ==
    ASSUME EachPlaced
    PROVE  EachAnomalyInOneGroup
<1>1. \A g : g \in Groups <=>
         \/ \E c \in clusters : g = <<"open", c.members>>
         \/ \E c \in closing : g = <<"closing", c.members>>
         \/ \E d \in DroppedNow : g = <<"dropped", d.members>>
         \/ \E n \in SavedNow : g = <<"saved", n.members>>
  BY DEF Groups, DroppedNow, SavedNow
<1>2. ASSUME NEW i \in Mine
      PROVE  \E g \in Groups : i \in g[2] /\ \A h \in Groups : i \in h[2] => h = g
  <2>1. Placed(i, clusters, closing, DroppedNow, SavedNow)
    BY DEF EachPlaced
  <2>2. CASE IsInOne(i, clusters) /\ ~IsIn(i, closing) /\ ~IsIn(i, DroppedNow)
             /\ ~IsIn(i, SavedNow)
    <3>1. PICK c \in clusters : i \in c.members
                               /\ \A d \in clusters : i \in d.members => d = c
      BY <2>2 DEF IsInOne
    <3>2. <<"open", c.members>> \in Groups
      BY <1>1
    <3>3. ASSUME NEW h \in Groups, i \in h[2] PROVE h = <<"open", c.members>>
      BY <1>1, <2>2, <3>1, <3>3 DEF IsIn
    <3> QED
      BY <3>1, <3>2, <3>3
  <2>3. CASE ~IsIn(i, clusters) /\ IsInOne(i, closing) /\ ~IsIn(i, DroppedNow)
             /\ ~IsIn(i, SavedNow)
    <3>1. PICK c \in closing : i \in c.members
                              /\ \A d \in closing : i \in d.members => d = c
      BY <2>3 DEF IsInOne
    <3>2. <<"closing", c.members>> \in Groups
      BY <1>1
    <3>3. ASSUME NEW h \in Groups, i \in h[2] PROVE h = <<"closing", c.members>>
      BY <1>1, <2>3, <3>1, <3>3 DEF IsIn
    <3> QED
      BY <3>1, <3>2, <3>3
  <2>4. CASE ~IsIn(i, clusters) /\ ~IsIn(i, closing) /\ IsInOne(i, DroppedNow)
             /\ ~IsIn(i, SavedNow)
    <3>1. PICK c \in DroppedNow : i \in c.members
                                 /\ \A d \in DroppedNow : i \in d.members => d = c
      BY <2>4 DEF IsInOne
    <3>2. <<"dropped", c.members>> \in Groups
      BY <1>1
    <3>3. ASSUME NEW h \in Groups, i \in h[2] PROVE h = <<"dropped", c.members>>
      BY <1>1, <2>4, <3>1, <3>3 DEF IsIn
    <3> QED
      BY <3>1, <3>2, <3>3
  <2>5. CASE ~IsIn(i, clusters) /\ ~IsIn(i, closing) /\ ~IsIn(i, DroppedNow)
             /\ IsInOne(i, SavedNow)
    <3>1. PICK c \in SavedNow : i \in c.members
                               /\ \A d \in SavedNow : i \in d.members => d = c
      BY <2>5 DEF IsInOne
    <3>2. <<"saved", c.members>> \in Groups
      BY <1>1
    <3>3. ASSUME NEW h \in Groups, i \in h[2] PROVE h = <<"saved", c.members>>
      BY <1>1, <2>5, <3>1, <3>3 DEF IsIn
    <3> QED
      BY <3>1, <3>2, <3>3
  <2> QED
    BY <2>1, <2>2, <2>3, <2>4, <2>5 DEF Placed
<1> QED
  BY <1>2 DEF EachAnomalyInOneGroup, Mine

LEMMA InitPlaced == Init => EachPlaced
  BY DEF Init, EachPlaced, Mine, AllMine, DroppedNow, SavedNow

\* An anomaly is read and joins the clusters that match.
LEMMA AddPlaced ==
    ASSUME TypeOK, EachPlaced, AddAnomaly
    PROVE  EachPlaced'
<1>1. PICK new \in Position : new = position + 1
  BY AddFacts
<1>0. PICK matching \in SUBSET clusters : matching = MatchingFor(position + 1)
  <2>1. MatchingFor(position + 1) \in SUBSET clusters
    BY DEF MatchingFor, ConnectedClusters, EligibleAt
  <2> QED
    BY <2>1
<1>2. PICK m \in Cluster :
         /\ clusters' = (clusters \ matching) \cup {m}
         /\ m.members = {new} \cup UNION {c.members : c \in matching}
  BY <1>0, <1>1, AddFacts DEF Takes
<1>3. /\ UNCHANGED <<closing, dropped, incidents, start, run>>
      /\ position' = new /\ closing = {}
  BY <1>1 DEF AddAnomaly, EachPlaced
<1>4. DroppedNow' = DroppedNow /\ SavedNow' = SavedNow
  BY <1>3 DEF DroppedNow, SavedNow
<1>5. /\ \A i \in Mine : i # new
      /\ Mine' = Mine \cup {new}
  BY <1>1, <1>3 DEF Mine, TypeOK
<1>6. AllMine(clusters) /\ AllMine(closing) /\ AllMine(DroppedNow) /\ AllMine(SavedNow)
  BY DEF EachPlaced
<1>7. ASSUME NEW i \in Mine
      PROVE  Placed(i, clusters', closing', DroppedNow', SavedNow')
  <2>1. Placed(i, clusters, closing, DroppedNow, SavedNow) /\ i # new
    BY <1>5 DEF EachPlaced
  <2>2. CASE IsInOne(i, clusters)
    <3>1. PICK c \in clusters : i \in c.members
                               /\ \A d \in clusters : i \in d.members => d = c
      BY <2>2 DEF IsInOne
    <3>2. ASSUME c \in matching PROVE IsInOne(i, clusters')
      <4>1. m \in clusters' /\ i \in m.members
        BY <1>2, <3>1, <3>2
      <4>2. ASSUME NEW d \in clusters', i \in d.members PROVE d = m
        BY <1>2, <3>1, <3>2, <4>2
      <4> QED
        BY <4>1, <4>2 DEF IsInOne
    <3>3. ASSUME c \notin matching PROVE IsInOne(i, clusters')
      <4>1. i \notin m.members
        BY <1>2, <2>1, <3>1, <3>3
      <4>2. c \in clusters' /\ \A d \in clusters' : i \in d.members => d = c
        BY <1>2, <3>1, <3>3, <4>1
      <4> QED
        BY <3>1, <4>2 DEF IsInOne
    <3>4. IsInOne(i, clusters')
      BY <3>2, <3>3
    <3>5. IsIn(i, clusters)
      BY <3>1 DEF IsIn
    <3>6. ~IsIn(i, closing) /\ ~IsIn(i, DroppedNow) /\ ~IsIn(i, SavedNow)
      BY <2>1, <3>5 DEF Placed
    <3> QED
      BY <1>3, <1>4, <3>4, <3>6 DEF Placed
  <2>3. CASE ~IsInOne(i, clusters)
    <3>1. ~IsIn(i, clusters)
      BY <2>1, <2>3 DEF Placed
    <3>2. ~IsIn(i, clusters')
      BY <1>2, <2>1, <3>1 DEF IsIn
    <3> QED
      BY <1>3, <1>4, <2>1, <2>3, <3>2 DEF Placed
  <2> QED
    BY <2>2, <2>3
<1>8. Placed(new, clusters', closing', DroppedNow', SavedNow')
  <2>1. ~IsIn(new, closing) /\ ~IsIn(new, DroppedNow) /\ ~IsIn(new, SavedNow)
    BY <1>5, <1>6 DEF AllMine, IsIn
  <2>2. m \in clusters' /\ new \in m.members
    BY <1>2
  <2>3. ASSUME NEW d \in clusters', new \in d.members PROVE d = m
    BY <1>2, <1>5, <1>6, <2>3 DEF AllMine
  <2>4. IsInOne(new, clusters')
    BY <2>2, <2>3 DEF IsInOne
  <2> QED
    BY <1>3, <1>4, <2>1, <2>4 DEF Placed
<1>9. \A c \in clusters' : c.members \subseteq Mine'
  BY <1>2, <1>5, <1>6 DEF AllMine
<1>10. /\ \A c \in closing' : c.members \subseteq Mine'
       /\ \A c \in DroppedNow' : c.members \subseteq Mine'
       /\ \A c \in SavedNow' : c.members \subseteq Mine'
  BY <1>3, <1>4, <1>5, <1>6 DEF AllMine
<1> QED
  BY <1>3, <1>5, <1>7, <1>8, <1>9, <1>10 DEF EachPlaced, AllMine

\* Finalized clusters leave the list.
LEMMA PopPlaced ==
    ASSUME TypeOK, EachPlaced, PopFinalized
    PROVE  EachPlaced'
<1>0. closing = {} /\ pc' = "close"
  BY DEF EachPlaced, PopFinalized
<1>1. /\ UNCHANGED <<position, dropped, incidents, start, run>>
      /\ closing' \subseteq clusters /\ clusters' = clusters \ closing'
  BY DEF PopFinalized
<1>2. Mine' = Mine /\ DroppedNow' = DroppedNow /\ SavedNow' = SavedNow
  BY <1>1 DEF Mine, DroppedNow, SavedNow
<1>3. AllMine(clusters) /\ AllMine(closing) /\ AllMine(DroppedNow) /\ AllMine(SavedNow)
  BY DEF EachPlaced
<1>4. ASSUME NEW i \in Mine
      PROVE  Placed(i, clusters', closing', DroppedNow', SavedNow')
  <2>1. Placed(i, clusters, closing, DroppedNow, SavedNow) /\ ~IsIn(i, closing)
    BY <1>0 DEF EachPlaced, IsIn
  <2>2. CASE IsInOne(i, clusters)
    <3>1. PICK c \in clusters : i \in c.members
                               /\ \A d \in clusters : i \in d.members => d = c
      BY <2>2 DEF IsInOne
    <3>2. \/ IsInOne(i, clusters') /\ ~IsIn(i, closing')
          \/ ~IsIn(i, clusters') /\ IsInOne(i, closing')
      BY <1>1, <3>1 DEF IsInOne, IsIn
    <3>3. ~IsIn(i, DroppedNow) /\ ~IsIn(i, SavedNow)
      BY <2>1, <3>1 DEF Placed, IsIn
    <3> QED
      BY <1>2, <3>2, <3>3 DEF Placed
  <2>3. CASE ~IsInOne(i, clusters)
    <3>1. ~IsIn(i, clusters)
      BY <2>1, <2>3 DEF Placed
    <3>2. ~IsIn(i, clusters') /\ ~IsIn(i, closing')
      BY <1>1, <3>1 DEF IsIn
    <3>3. \/ IsInOne(i, DroppedNow) /\ ~IsIn(i, SavedNow)
          \/ ~IsIn(i, DroppedNow) /\ IsInOne(i, SavedNow)
      BY <2>1, <2>3, <3>1 DEF Placed, IsInOne, IsIn
    <3> QED
      BY <1>2, <3>2, <3>3 DEF Placed
  <2> QED
    BY <2>2, <2>3
<1>5. /\ \A c \in clusters' : c.members \subseteq Mine
      /\ \A c \in closing' : c.members \subseteq Mine
  BY <1>1, <1>3 DEF AllMine
<1> QED
  BY <1>0, <1>2, <1>3, <1>4, <1>5 DEF EachPlaced, AllMine

\* One cluster is taken from those to close, and saved or given up.
LEMMA ClosePlaced ==
    ASSUME TypeOK, EachPlaced, FailToSave \/ SaveAndPublish
    PROVE  EachPlaced'
<1>1. PICK c \in Cluster : c \in closing /\ c = NextToClose
  BY NextToCloseFacts DEF FailToSave, SaveAndPublish, TypeOK
<1>2. /\ UNCHANGED <<position, clusters, start, run, pc>> /\ pc = "close"
      /\ closing' = closing \ {c}
  BY <1>1 DEF FailToSave, SaveAndPublish
<1>3. PICK f : /\ f.members = c.members
               /\ \/ DroppedNow' = DroppedNow \cup {f} /\ SavedNow' = SavedNow
                  \/ DroppedNow' = DroppedNow /\ SavedNow' = SavedNow \cup {f}
  <2>1. CASE FailToSave
    <3>1. PICK f : f = [members |-> c.members, run |-> run]
      OBVIOUS
    <3>2. dropped' = dropped \cup {f} /\ incidents' = incidents /\ run' = run
      BY <1>1, <2>1, <3>1 DEF FailToSave
    <3>3. f.members = c.members /\ f.run = run
      BY <3>1
    <3>4. DroppedNow' = DroppedNow \cup {f} /\ SavedNow' = SavedNow
      BY <3>2, <3>3 DEF DroppedNow, SavedNow
    <3> QED
      BY <3>3, <3>4
  <2>2. CASE SaveAndPublish
    <3>1. PICK f \in Outcomes(c) : incidents' = incidents \cup {f}
      BY <1>1, <2>2 DEF SaveAndPublish
    <3>2. dropped' = dropped /\ run' = run
      BY <2>2 DEF SaveAndPublish
    <3>3. f.members = c.members /\ f.run = run
      BY <3>1 DEF Outcomes
    <3>4. DroppedNow' = DroppedNow /\ SavedNow' = SavedNow \cup {f}
      BY <3>1, <3>2, <3>3 DEF DroppedNow, SavedNow
    <3> QED
      BY <3>3, <3>4
  <2> QED
    BY <2>1, <2>2
<1>4. Mine' = Mine
  BY <1>2 DEF Mine
<1>5. AllMine(clusters) /\ AllMine(closing) /\ AllMine(DroppedNow) /\ AllMine(SavedNow)
  BY DEF EachPlaced
<1>6. ASSUME NEW i \in Mine
      PROVE  Placed(i, clusters', closing', DroppedNow', SavedNow')
  <2>1. Placed(i, clusters, closing, DroppedNow, SavedNow)
    BY DEF EachPlaced
  <2>2. CASE i \in c.members
    <3>1. IsIn(i, closing)
      BY <1>1, <2>2 DEF IsIn
    <3>2. /\ ~IsIn(i, clusters) /\ IsInOne(i, closing)
          /\ ~IsIn(i, DroppedNow) /\ ~IsIn(i, SavedNow)
      BY <2>1, <3>1 DEF Placed
    <3>3. ~IsIn(i, closing')
      BY <1>1, <1>2, <2>2, <3>2 DEF IsIn, IsInOne
    <3>4. \/ IsInOne(i, DroppedNow') /\ ~IsIn(i, SavedNow')
          \/ ~IsIn(i, DroppedNow') /\ IsInOne(i, SavedNow')
      BY <1>3, <2>2, <3>2 DEF IsIn, IsInOne
    <3> QED
      BY <1>2, <3>2, <3>3, <3>4 DEF Placed
  <2>3. CASE i \notin c.members
    <3>1. /\ IsIn(i, closing') <=> IsIn(i, closing)
          /\ IsInOne(i, closing) => IsInOne(i, closing')
      BY <1>2, <2>3 DEF IsIn, IsInOne
    <3>2. /\ IsIn(i, DroppedNow') <=> IsIn(i, DroppedNow)
          /\ IsInOne(i, DroppedNow) => IsInOne(i, DroppedNow')
      BY <1>3, <2>3 DEF IsIn, IsInOne
    <3>3. /\ IsIn(i, SavedNow') <=> IsIn(i, SavedNow)
          /\ IsInOne(i, SavedNow) => IsInOne(i, SavedNow')
      BY <1>3, <2>3 DEF IsIn, IsInOne
    <3> QED
      BY <1>2, <2>1, <3>1, <3>2, <3>3 DEF Placed
  <2> QED
    BY <2>2, <2>3
<1>7. c.members \subseteq Mine
  BY <1>1, <1>5 DEF AllMine
<1>8. /\ \A d \in closing' : d.members \subseteq Mine
      /\ \A d \in DroppedNow' : d.members \subseteq Mine
      /\ \A d \in SavedNow' : d.members \subseteq Mine
  BY <1>2, <1>3, <1>5, <1>7 DEF AllMine
<1> QED
  BY <1>2, <1>4, <1>5, <1>6, <1>8 DEF EachPlaced, AllMine

LEMMA NextPlaced ==
    ASSUME TypeOK, EachPlaced, [Next]_vars
    PROVE  EachPlaced'
<1>1. ASSUME UNCHANGED <<position, clusters, closing, incidents, dropped, start, run>>,
             pc' # "close" => closing = {}
      PROVE  EachPlaced'
  BY <1>1 DEF EachPlaced, Mine, DroppedNow, SavedNow, AllMine
<1>2. CASE UNCHANGED vars
  BY <1>1, <1>2 DEF vars, EachPlaced
<1>3. CASE Tick \/ CheckDone \/ AutoCommit
  BY <1>1, <1>3 DEF Tick, CheckDone, AutoCommit, EachPlaced
<1>4. ASSUME NEW s \in Services, NEW t \in Time, Publish(s, t) PROVE EachPlaced'
  BY <1>1, <1>4 DEF Publish, EachPlaced
<1>5. CASE Restart
  <2>1. Mine' = {} /\ clusters' = {} /\ closing' = {}
    BY <1>5 DEF Restart, Mine, TypeOK
  <2>2. DroppedNow' = {} /\ SavedNow' = {}
    <3>1. run' = run + 1 /\ dropped' = dropped /\ incidents' = incidents
      BY <1>5 DEF Restart
    <3>2. /\ run \in Nat /\ \A e \in dropped : e.run \in 0..run
          /\ \A e \in incidents : e.run \in 0..run
      BY CorrelationAssumption DEF TypeOK
    <3> QED
      BY <3>1, <3>2 DEF DroppedNow, SavedNow
  <2> QED
    BY <2>1, <2>2 DEF EachPlaced, AllMine
<1> QED
  BY <1>2, <1>3, <1>4, <1>5, AddPlaced, PopPlaced, ClosePlaced DEF Next

\* incident_clusterer.add and pop_finalized neither lose an anomaly nor count it twice: each
\* one a process has read is in exactly one open, closing, saved or dropped cluster.
THEOREM NoAnomalyLostOrDoubled == Spec => []EachAnomalyInOneGroup
<1> DEFINE Inv == TypeOK /\ EachPlaced
<1>1. Init => Inv
  BY InitTyped, InitPlaced
<1>2. Inv /\ [Next]_vars => Inv'
  BY NextTyped, NextPlaced
<1>3. Inv => EachAnomalyInOneGroup
  BY PlacedInOneGroup
<1> QED
  BY <1>1, <1>2, <1>3, PTL DEF Spec

----------------------------------------------------------------------------
(* Clusters are bounded in time. *)

DetectedAt(i) == events[i].detectedAt

AllBounded(S) ==
    \A c \in S : \A i, j \in c.members : DetectedAt(i) - DetectedAt(j) < MaxClusterAge

\* A cluster is as old as its first anomaly, or older.
AllSince(S) ==
    \A c \in S : c.members # {} /\ \A i \in c.members : c.created <= DetectedAt(i)

SpreadInv ==
    ReadInOrder =>
        /\ AllSince(clusters)
        /\ AllBounded(clusters) /\ AllBounded(closing)
        /\ AllBounded(DroppedNow) /\ AllBounded(SavedNow)

OrderInv == TypeOK /\ EachPlaced /\ SpreadInv

LEMMA MineTyped ==
    ASSUME TypeOK, NEW i \in Mine
    PROVE  /\ i \in 1..Len(events) /\ i \in Nat /\ i <= position
           /\ events[i] \in Anomaly /\ DetectedAt(i) \in Nat
<1>1. i \in 1..Len(events) /\ i \in Nat /\ i <= position
  BY DEF Mine, TypeOK
<1>2. events[i] \in Anomaly
  <2>1. events \in Seq(Anomaly)
    BY DEF TypeOK, Anomaly
  <2> QED
    BY <1>1, <2>1
<1> QED
  BY <1>1, <1>2, TimeBounds DEF Anomaly, DetectedAt

LEMMA InOrder ==
    ASSUME ReadInOrder, NEW i \in Mine, NEW j \in Mine, i < j
    PROVE  DetectedAt(i) <= DetectedAt(j)
  BY DEF ReadInOrder, Mine, DetectedAt

LEMMA SpreadFollows ==
    ASSUME SpreadInv
    PROVE  SpreadBounded
<1> SUFFICES ASSUME ReadInOrder, NEW g \in Groups, NEW i \in g[2], NEW j \in g[2]
             PROVE  events[i].detectedAt - events[j].detectedAt < MaxClusterAge
  BY DEF SpreadBounded
<1>1. \E c \in clusters \cup closing \cup DroppedNow \cup SavedNow : g[2] = c.members
  BY DEF Groups, DroppedNow, SavedNow
<1> QED
  BY <1>1 DEF SpreadInv, AllBounded, DetectedAt

LEMMA InitSpread == Init => SpreadInv
  BY DEF Init, SpreadInv, AllSince, AllBounded, DroppedNow, SavedNow

\* The anomaly read next comes after all others.
LEMMA AddInOrder ==
    ASSUME TypeOK, AddAnomaly, ReadInOrder'
    PROVE  /\ ReadInOrder
           /\ position + 1 \in Nat /\ DetectedAt(position + 1) \in Nat
           /\ \A i \in Mine : DetectedAt(i) <= DetectedAt(position + 1)
<1>1. /\ position' = position + 1 /\ start' = start /\ events' = events
      /\ position \in Nat /\ start \in Nat /\ start <= position
  BY DEF AddAnomaly, TypeOK
<1>2. \A i, j \in (start + 1)..(position + 1) :
         i < j => events[i].detectedAt <= events[j].detectedAt
  BY <1>1 DEF ReadInOrder
<1>3. ReadInOrder
  BY <1>1, <1>2 DEF ReadInOrder
<1>4. DetectedAt(position + 1) \in Nat
  BY AddFacts, TimeBounds DEF Anomaly, DetectedAt
<1>5. ASSUME NEW i \in Mine PROVE DetectedAt(i) <= DetectedAt(position + 1)
  <2>1. /\ i \in (start + 1)..(position + 1) /\ i < position + 1
        /\ position + 1 \in (start + 1)..(position + 1)
    BY <1>1 DEF Mine
  <2> QED
    BY <1>2, <2>1 DEF DetectedAt
<1> QED
  BY <1>1, <1>3, <1>4, <1>5

LEMMA AddSpread ==
    ASSUME OrderInv, AddAnomaly, MaxClusterAge # 0
    PROVE  SpreadInv'
<1> SUFFICES ASSUME ReadInOrder' PROVE SpreadInv'
  BY DEF SpreadInv
<1>1. TypeOK /\ EachPlaced /\ SpreadInv
  BY DEF OrderInv
<1>2. PICK new \in Nat, t \in Nat :
         /\ new = position + 1 /\ t = DetectedAt(new)
         /\ \A i \in Mine : DetectedAt(i) <= t
  BY <1>1, AddInOrder
<1>3. ReadInOrder
  BY <1>1, AddInOrder
<1>4. PICK matching \in SUBSET clusters : matching = MatchingFor(position + 1)
  <2>1. MatchingFor(position + 1) \in SUBSET clusters
    BY DEF MatchingFor, ConnectedClusters, EligibleAt
  <2> QED
    BY <2>1
<1>5. PICK m \in Cluster :
         /\ clusters' = (clusters \ matching) \cup {m}
         /\ m.members = {new} \cup UNION {c.members : c \in matching}
         /\ IF matching = {} THEN m.created = t
            ELSE /\ \E c \in matching : m.created = c.created
                 /\ \A c \in matching : m.created <= c.created
  BY <1>1, <1>2, <1>4, AddFacts DEF Takes, DetectedAt
<1>6. \A c \in matching : t - c.created < MaxClusterAge
  BY <1>2, <1>4 DEF MatchingFor, ConnectedClusters, EligibleAt, IsEligible, DetectedAt
<1>7. /\ AllSince(clusters) /\ AllMine(clusters)
      /\ AllBounded(clusters) /\ AllBounded(closing)
      /\ AllBounded(DroppedNow) /\ AllBounded(SavedNow)
  BY <1>1, <1>3 DEF SpreadInv, EachPlaced
<1>8. m.created \in Nat /\ \A c \in clusters : c.created \in Nat
  BY <1>1, TimeBounds DEF Cluster, TypeOK
<1>9. m.created <= t /\ t - m.created < MaxClusterAge
  <2>1. CASE matching = {}
    BY <1>2, <1>5, <2>1, CorrelationAssumption
  <2>2. CASE matching # {}
    <3>1. PICK c \in matching : m.created = c.created
      BY <1>5, <2>2
    <3>2. PICK i \in c.members : c.created <= DetectedAt(i)
      BY <1>7 DEF AllSince
    <3>3. i \in Mine
      BY <1>7 DEF AllMine
    <3>4. DetectedAt(i) \in Nat /\ DetectedAt(i) <= t
      BY <1>1, <1>2, <3>3, MineTyped
    <3>5. m.created <= t
      BY <1>8, <3>1, <3>2, <3>4
    <3> QED
      BY <1>6, <3>1, <3>5
  <2> QED
    BY <2>1, <2>2
<1>10. ASSUME NEW i \in m.members
       PROVE  DetectedAt(i) \in Nat /\ m.created <= DetectedAt(i) /\ DetectedAt(i) <= t
  <2>1. CASE i = new
    BY <1>2, <1>9, <2>1
  <2>2. CASE i # new
    <3>1. PICK c \in matching : i \in c.members
      BY <1>5, <2>2
    <3>2. m.created <= c.created /\ c.created <= DetectedAt(i)
      BY <1>5, <1>7, <3>1 DEF AllSince
    <3>3. i \in Mine
      BY <1>7, <3>1 DEF AllMine
    <3>4. DetectedAt(i) \in Nat /\ DetectedAt(i) <= t
      BY <1>1, <1>2, <3>3, MineTyped
    <3> QED
      BY <1>8, <3>2, <3>4
  <2> QED
    BY <2>1, <2>2
<1>11. ASSUME NEW i \in m.members, NEW j \in m.members
       PROVE  DetectedAt(i) - DetectedAt(j) < MaxClusterAge
  <2>1. PICK x \in Nat, y \in Nat : x = DetectedAt(i) /\ y = DetectedAt(j)
    BY <1>10
  <2>2. m.created <= y /\ x <= t
    BY <1>10, <2>1
  <2>3. x - y < MaxClusterAge
    BY <1>2, <1>8, <1>9, <2>2, CorrelationAssumption
  <2> QED
    BY <2>1, <2>3
<1>12. /\ UNCHANGED <<events, closing, dropped, incidents, run>>
  BY DEF AddAnomaly
<1>13. AllSince(clusters')
  BY <1>5, <1>7, <1>10 DEF AllSince
<1>14. AllBounded(clusters')
  BY <1>5, <1>7, <1>11 DEF AllBounded
<1>15. DroppedNow' = DroppedNow /\ SavedNow' = SavedNow
  BY <1>12 DEF DroppedNow, SavedNow
<1> QED
  BY <1>7, <1>12, <1>13, <1>14, <1>15 DEF SpreadInv, AllSince, AllBounded, DetectedAt

LEMMA NextSpread ==
    ASSUME OrderInv, [Next]_vars, MaxClusterAge # 0
    PROVE  SpreadInv'
<1>1. TypeOK /\ EachPlaced /\ SpreadInv
  BY DEF OrderInv
<1>2. ASSUME UNCHANGED <<events, position, clusters, closing, incidents, dropped, start, run>>
      PROVE  SpreadInv'
  BY <1>1, <1>2 DEF SpreadInv, ReadInOrder, AllSince, AllBounded, DroppedNow, SavedNow, DetectedAt
<1>3. CASE UNCHANGED vars \/ Tick \/ CheckDone \/ AutoCommit
  BY <1>2, <1>3 DEF vars, Tick, CheckDone, AutoCommit
<1>4. ASSUME NEW s \in Services, NEW at \in Time, Publish(s, at) PROVE SpreadInv'
  <2>1. /\ \A i \in Mine : events'[i] = events[i]
        /\ UNCHANGED <<position, clusters, closing, incidents, dropped, start, run>>
    BY <1>1, <1>4 DEF Publish, Mine, TypeOK
  <2>2. ReadInOrder' => ReadInOrder
    BY <2>1 DEF ReadInOrder, Mine
  <2>3. AllMine(clusters) /\ AllMine(closing) /\ AllMine(DroppedNow) /\ AllMine(SavedNow)
    BY <1>1 DEF EachPlaced
  <2>4. DroppedNow' = DroppedNow /\ SavedNow' = SavedNow
    BY <2>1 DEF DroppedNow, SavedNow
  <2>5. \A i \in Mine : DetectedAt(i)' = DetectedAt(i)
    BY <2>1 DEF DetectedAt
  <2>6. ReadInOrder =>
           AllSince(clusters)' /\ AllBounded(clusters)' /\ AllBounded(closing)'
    BY <1>1, <2>1, <2>3, <2>5 DEF SpreadInv, AllSince, AllBounded, AllMine
  <2>7. ReadInOrder => AllBounded(DroppedNow)' /\ AllBounded(SavedNow)'
    BY <1>1, <2>3, <2>4, <2>5 DEF SpreadInv, AllBounded, AllMine
  <2> QED
    BY <2>2, <2>6, <2>7 DEF SpreadInv
<1>5. CASE PopFinalized
  <2>1. /\ UNCHANGED <<events, position, incidents, dropped, start, run>>
        /\ clusters' \subseteq clusters /\ closing' \subseteq clusters
    BY <1>5 DEF PopFinalized
  <2> QED
    BY <1>1, <2>1
    DEF SpreadInv, ReadInOrder, AllSince, AllBounded, DroppedNow, SavedNow, DetectedAt
<1>6. CASE FailToSave \/ SaveAndPublish
  <2>1. PICK c \in closing : c = NextToClose
    BY <1>1, <1>6, NextToCloseFacts DEF FailToSave, SaveAndPublish
  <2>2. /\ UNCHANGED <<events, position, clusters, start, run>>
        /\ closing' \subseteq closing
    BY <1>6 DEF FailToSave, SaveAndPublish
  <2>3. /\ \A d \in DroppedNow' : d \in DroppedNow \/ d.members = c.members
        /\ \A d \in SavedNow' : d \in SavedNow \/ d.members = c.members
    BY <1>6, <2>1 DEF FailToSave, SaveAndPublish, Outcomes, DroppedNow, SavedNow
  <2>4. ReadInOrder' => ReadInOrder
    BY <2>2 DEF ReadInOrder
  <2>5. ReadInOrder =>
           AllSince(clusters)' /\ AllBounded(clusters)' /\ AllBounded(closing)'
    BY <1>1, <2>2 DEF SpreadInv, AllSince, AllBounded, DetectedAt
  <2>6. ReadInOrder => AllBounded(DroppedNow)' /\ AllBounded(SavedNow)'
    BY <1>1, <2>1, <2>2, <2>3 DEF SpreadInv, AllBounded, DetectedAt
  <2> QED
    BY <2>4, <2>5, <2>6 DEF SpreadInv
<1>7. CASE Restart
  <2>1. EachPlaced' /\ TypeOK' /\ Mine' = {} /\ clusters' = {} /\ closing' = {}
    BY <1>1, <1>7, NextPlaced, NextTyped DEF Next, Restart, Mine, TypeOK
  <2>2. \A d \in DroppedNow' \cup SavedNow' : d.members = {}
    BY <2>1 DEF EachPlaced, AllMine
  <2> QED
    BY <2>1, <2>2 DEF SpreadInv, AllSince, AllBounded
<1> QED
  BY <1>3, <1>4, <1>5, <1>6, <1>7, AddSpread DEF Next

\* Whatever merges with whatever: when anomalies arrive in the order of their detection, those
\* of one cluster are less than the age limit apart (is_eligible in incident_clusterer.py).
THEOREM ClustersAreBounded ==
    ASSUME MaxClusterAge # 0
    PROVE  Spec => []SpreadBounded
<1>1. Init => OrderInv
  BY InitTyped, InitPlaced, InitSpread DEF OrderInv
<1>2. OrderInv /\ [Next]_vars => OrderInv'
  BY NextTyped, NextPlaced, NextSpread DEF OrderInv
<1>3. OrderInv => SpreadBounded
  BY SpreadFollows DEF OrderInv
<1> QED
  BY <1>1, <1>2, <1>3, PTL DEF Spec

\* An anomaly that arrives late is not put into an older cluster, either.
LEMMA AddJoins ==
    ASSUME TypeOK, EachPlaced, AddAnomaly, MaxClusterAge # 0,
           NEW c \in clusters', position + 1 \in c.members
    PROVE  events[position + 1].detectedAt - c.created < MaxClusterAge
<1>1. PICK matching \in SUBSET clusters : matching = MatchingFor(position + 1)
  <2>1. MatchingFor(position + 1) \in SUBSET clusters
    BY DEF MatchingFor, ConnectedClusters, EligibleAt
  <2> QED
    BY <2>1
<1>2. PICK m \in Cluster :
         /\ clusters' = (clusters \ matching) \cup {m}
         /\ IF matching = {} THEN m.created = events[position + 1].detectedAt
            ELSE \E d \in matching : m.created = d.created
  BY <1>1, AddFacts DEF Takes
<1>3. c = m
  <2>1. \A d \in clusters : position + 1 \notin d.members
    BY DEF EachPlaced, AllMine, Mine, TypeOK
  <2> QED
    BY <1>2, <2>1
<1>4. CASE matching = {}
  <2>1. events[position + 1].detectedAt \in Nat
    BY AddFacts, TimeBounds DEF Anomaly
  <2>2. PICK t \in Nat : t = events[position + 1].detectedAt
    BY <2>1
  <2>3. c.created = t /\ t - t < MaxClusterAge
    BY <1>2, <1>3, <1>4, <2>2, CorrelationAssumption
  <2> QED
    BY <2>2, <2>3
<1>5. CASE matching # {}
  <2>1. PICK d \in matching : m.created = d.created
    BY <1>2, <1>5
  <2>2. IsEligible(d, events[position + 1].detectedAt)
    BY <1>1 DEF MatchingFor, ConnectedClusters, EligibleAt
  <2> QED
    BY <1>3, <2>1, <2>2 DEF IsEligible
<1> QED
  BY <1>4, <1>5

\* is_eligible bounds how late an anomaly may join a cluster, whatever the order of arrival.
THEOREM NoneJoinsLate ==
    ASSUME MaxClusterAge # 0
    PROVE  Spec => NoLateJoin
<1> DEFINE Inv == TypeOK /\ EachPlaced
           Joins == \A c \in clusters' :
              position' = position + 1 /\ position' \in c.members =>
                 events'[position'].detectedAt - c.created < MaxClusterAge
<1>1. Init => Inv
  BY InitTyped, InitPlaced
<1>2. Inv /\ [Next]_vars => Inv'
  BY NextTyped, NextPlaced
<1>3. Inv /\ [Next]_vars => [Joins]_vars
  <2> SUFFICES ASSUME Inv, Next, position' = position + 1,
                      NEW c \in clusters', position' \in c.members
               PROVE  events'[position'].detectedAt - c.created < MaxClusterAge
    OBVIOUS
  <2>1. CASE AddAnomaly
    BY <2>1, AddJoins DEF AddAnomaly
  <2>2. CASE Restart
    BY <2>2 DEF Restart
  <2>3. position \in Nat
    BY DEF TypeOK
  <2>4. CASE ~AddAnomaly /\ ~Restart
    <3>1. position' = position
      BY <2>4
      DEF Next, Tick, Publish, PopFinalized, FailToSave, SaveAndPublish, CheckDone, AutoCommit
    <3> QED
      BY <2>3, <3>1
  <2> QED
    BY <2>1, <2>2, <2>4
<1>4. NoLateJoin <=> [][Joins]_vars
  BY DEF NoLateJoin
<1> HIDE DEF Inv, Joins
<1> QED
  BY <1>1, <1>2, <1>3, <1>4, PTL DEF Spec

----------------------------------------------------------------------------
(* Connected clusters are merged. *)

\* Clusters that can still take an anomaly detected at t are not connected.
ApartAt(t) ==
    \A c, d \in clusters :
        IsEligible(c, t) /\ IsEligible(d, t) /\ AreConnected(c, d) => c = d

MergedInv ==
    ReadInOrder =>
        /\ \A c \in clusters : c.members # {}
        /\ position > start => ApartAt(DetectedAt(position))

LEMMA RelatedFacts ==
    /\ \A s \in Services : s \in Related[s]
    /\ \A s, t \in Services : t \in Related[s] <=> s \in Related[t]
  BY CorrelationAssumption

LEMMA ServicesTyped ==
    ASSUME TypeOK, NEW c, c.members \subseteq Mine
    PROVE  ServicesOf(c) \subseteq Services
<1>1. ASSUME NEW i \in c.members PROVE events[i].service \in Services
  BY MineTyped DEF Anomaly
<1> QED
  BY <1>1 DEF ServicesOf

LEMMA ConnectedEitherWay ==
    ASSUME NEW c, NEW d, ServicesOf(c) \subseteq Services, ServicesOf(d) \subseteq Services,
           AreConnected(c, d)
    PROVE  AreConnected(d, c)
  BY RelatedFacts DEF AreConnected

\* connected_clusters finds every eligible cluster with a service related to the anomaly's.
LEMMA NeighboursMatch ==
    ASSUME NEW E, NEW s \in Services, NEW d \in E, NEW y \in ServicesOf(d), y \in Related[s],
           \A e \in E : e.born \in Nat,
           \A e \in E : y \in ServicesOf(e) => e = d
    PROVE  d \in ConnectedClusters(s, E)
<1>1. PICK owned : owned = UNION {ServicesOf(c) : c \in E}
  OBVIOUS
<1>2. y \in owned
  BY <1>1
<1>3. y \in Component(s, owned)
  BY <1>2 DEF Component, Neighbours
<1>4. IsOwner(d, y, E)
  BY DEF IsOwner
<1> QED
  BY <1>1, <1>3, <1>4 DEF ConnectedClusters

LEMMA AddMerges ==
    ASSUME TypeOK, EachPlaced, MergedInv, AddAnomaly
    PROVE  MergedInv'
<1> SUFFICES ASSUME ReadInOrder' PROVE MergedInv'
  BY DEF MergedInv
<1>1. PICK new \in Nat, t \in Nat, s \in Services :
         /\ new = position + 1 /\ t = DetectedAt(new) /\ s = events[new].service
         /\ \A i \in Mine : DetectedAt(i) <= t
  BY AddInOrder, AddFacts DEF Anomaly
<1>2. /\ ReadInOrder /\ AllMine(clusters)
      /\ \A c \in clusters : c.members # {} /\ c \in Cluster
      /\ position > start => ApartAt(DetectedAt(position))
  BY AddInOrder DEF MergedInv, EachPlaced, TypeOK
<1>3. PICK E \in SUBSET clusters : E = EligibleAt(t)
  BY DEF EligibleAt
<1>4. PICK matching \in SUBSET E : matching = MatchingFor(new) /\ matching = ConnectedClusters(s, E)
  <2>1. MatchingFor(new) = ConnectedClusters(s, E)
    BY <1>1, <1>3 DEF MatchingFor, DetectedAt
  <2>2. ConnectedClusters(s, E) \in SUBSET E
    BY DEF ConnectedClusters
  <2> QED
    BY <2>1, <2>2
<1>5. PICK m \in Cluster :
         /\ clusters' = (clusters \ matching) \cup {m}
         /\ m.members = {new} \cup UNION {c.members : c \in matching}
  BY <1>1, <1>4, AddFacts DEF Takes
<1>6. ASSUME NEW c \in E, NEW d \in E, AreConnected(c, d) PROVE c = d
  <2>1. PICK i \in c.members : TRUE
    BY <1>2, <1>3
  <2>2. i \in Mine /\ position \in Mine /\ position > start
    BY <1>2, <1>3 DEF AllMine, Mine, TypeOK
  <2>3. PICK p \in Nat : p = DetectedAt(position) /\ p <= t
    BY <1>1, <2>2, MineTyped
  <2>4. ASSUME NEW e \in E PROVE IsEligible(e, p)
    <3>1. t - e.updated <= Window /\ t - e.created < MaxClusterAge
      BY <1>3 DEF EligibleAt, IsEligible
    <3>2. e.updated \in Nat /\ e.created \in Nat
      BY <1>2, <1>3, TimeBounds DEF Cluster
    <3> QED
      BY <2>3, <3>1, <3>2, CorrelationAssumption DEF IsEligible
  <2> QED
    BY <1>2, <1>3, <1>6, <2>2, <2>3, <2>4 DEF ApartAt
<1>7. \A c \in clusters : ServicesOf(c) \subseteq Services
  BY <1>2, ServicesTyped DEF AllMine
<1>8. ASSUME NEW d \in E, NEW y \in ServicesOf(d), y \in Related[s]
      PROVE  d \in matching
  <2>1. \A e \in E : e.born \in Nat
    BY <1>2, <1>3, TimeBounds DEF Cluster
  <2>2. ASSUME NEW e \in E, y \in ServicesOf(e) PROVE e = d
    <3>1. y \in Services
      BY <1>3, <1>7
    <3>2. AreConnected(e, d)
      BY <2>2, <3>1, RelatedFacts DEF AreConnected
    <3> QED
      BY <1>6, <3>2
  <2> QED
    BY <1>4, <1>8, <2>1, <2>2, NeighboursMatch
<1>9. ASSUME NEW x \in ServicesOf(m)
      PROVE  x = s \/ \E e \in matching : x \in ServicesOf(e)
  BY <1>1, <1>5 DEF ServicesOf
<1>10. ASSUME NEW d \in E, d \notin matching PROVE ~AreConnected(m, d)
  <2> SUFFICES ASSUME NEW x \in ServicesOf(m), NEW y \in ServicesOf(d), y \in Related[x]
               PROVE  FALSE
    BY DEF AreConnected
  <2>1. CASE x = s
    BY <1>8, <1>10, <2>1
  <2>2. ASSUME NEW e \in matching, x \in ServicesOf(e) PROVE FALSE
    <3>1. AreConnected(e, d)
      BY <2>2 DEF AreConnected
    <3> QED
      BY <1>6, <1>10, <3>1
  <2> QED
    BY <1>9, <2>1, <2>2
<1>11. ServicesOf(m) \subseteq Services
  BY <1>3, <1>7, <1>9
<1>12. ASSUME NEW c \in clusters', NEW d \in clusters', IsEligible(c, t), IsEligible(d, t),
              AreConnected(c, d)
       PROVE  c = d
  <2>1. \A e \in clusters' : e # m => e \in clusters /\ e \notin matching
    BY <1>5
  <2>2. \A e \in clusters : IsEligible(e, t) => e \in E
    BY <1>3 DEF EligibleAt
  <2>3. CASE c # m /\ d # m
    BY <1>6, <1>12, <2>1, <2>2, <2>3
  <2>4. CASE c = m /\ d # m
    BY <1>10, <1>12, <2>1, <2>2, <2>4
  <2>5. CASE c # m /\ d = m
    <3>1. c \in E /\ c \notin matching
      BY <1>12, <2>1, <2>2, <2>5
    <3>2. ServicesOf(c) \subseteq Services
      BY <1>3, <1>7, <3>1
    <3>3. AreConnected(m, c)
      BY <1>11, <1>12, <2>5, <3>2, ConnectedEitherWay
    <3> QED
      BY <1>10, <3>1, <3>3
  <2> QED
    BY <2>3, <2>4, <2>5
<1>13. events' = events /\ position' = new
  BY <1>1 DEF AddAnomaly
<1>14. \A c \in clusters' : c.members # {}
  BY <1>2, <1>5
<1>15. ApartAt(DetectedAt(position))'
  BY <1>1, <1>12, <1>13 DEF ApartAt, AreConnected, ServicesOf, DetectedAt
<1> QED
  BY <1>14, <1>15 DEF MergedInv

LEMMA NextMerged ==
    ASSUME TypeOK, EachPlaced, MergedInv, [Next]_vars
    PROVE  MergedInv'
<1>1. ASSUME UNCHANGED <<events, position, start>>, clusters' \subseteq clusters
      PROVE  MergedInv'
  BY <1>1 DEF MergedInv, ReadInOrder, ApartAt, AreConnected, ServicesOf, DetectedAt
<1>2. CASE UNCHANGED vars \/ Tick \/ PopFinalized \/ FailToSave \/ SaveAndPublish
           \/ CheckDone \/ AutoCommit
  BY <1>1, <1>2
  DEF vars, Tick, PopFinalized, FailToSave, SaveAndPublish, CheckDone, AutoCommit
<1>3. ASSUME NEW s \in Services, NEW at \in Time, Publish(s, at) PROVE MergedInv'
  <2>1. /\ \A i \in Mine : events'[i] = events[i]
        /\ UNCHANGED <<position, clusters, start>>
    BY <1>3 DEF Publish, Mine, TypeOK
  <2>2. ReadInOrder' => ReadInOrder
    BY <2>1 DEF ReadInOrder, Mine
  <2>3. \A c \in clusters : ServicesOf(c)' = ServicesOf(c)
    BY <2>1 DEF ServicesOf, EachPlaced, AllMine
  <2>4. position > start => position \in Mine
    BY DEF Mine, TypeOK
  <2>5. position > start => DetectedAt(position)' = DetectedAt(position)
    BY <2>1, <2>4 DEF DetectedAt
  <2>6. \A c, d \in clusters : AreConnected(c, d)' <=> AreConnected(c, d)
    BY <2>3 DEF AreConnected
  <2> QED
    BY <2>1, <2>2, <2>5, <2>6 DEF MergedInv, ApartAt
<1>4. CASE Restart
  BY <1>4 DEF Restart, MergedInv, ApartAt
<1> QED
  BY <1>2, <1>3, <1>4, AddMerges DEF Next

\* When anomalies arrive in the order of their detection, connected_clusters and the merge in
\* add leave no two open clusters apart that belong to one fault.
THEOREM ConnectedAreMerged == Spec => []ConnectedClustersMerged
<1> DEFINE Inv == TypeOK /\ EachPlaced /\ MergedInv
<1>1. Init => Inv
  <2>1. Init => MergedInv
    BY DEF Init, MergedInv, ApartAt
  <2> QED
    BY <2>1, InitTyped, InitPlaced
<1>2. Inv /\ [Next]_vars => Inv'
  BY NextTyped, NextPlaced, NextMerged
<1>3. Inv => ConnectedClustersMerged
  BY DEF MergedInv, ApartAt, ConnectedClustersMerged, DetectedAt
<1> QED
  BY <1>1, <1>2, <1>3, PTL DEF Spec

=============================================================================
