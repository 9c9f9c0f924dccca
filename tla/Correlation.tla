----------------------------- MODULE Correlation -----------------------------
(***************************************************************************)
(* The correlation engine (correlation/main.py and                         *)
(* clustering/incident_clusterer.py, with what it needs of the Granger     *)
(* engine, the incident store, the incident publisher and the consumer).   *)
(* One thread reads anomaly-events, groups anomalies of connected services *)
(* into clusters, and from time to time closes clusters: root cause, row   *)
(* in TimescaleDB, message on incident-alerts.  Clusters are only in       *)
(* memory.  The consumer commits in the background what poll() has handed  *)
(* out.                                                                    *)
(*                                                                         *)
(* An anomaly is its position in the topic.  It is placed in a cluster by  *)
(* its own time (detected_at); a cluster is closed by the wall clock.      *)
(***************************************************************************)
EXTENDS Integers, Sequences, FiniteSets

CONSTANTS
    Services,
    Related,        \* Related[s]: s and the services within CORRELATION_HOPS
    Window,         \* CORRELATION_WINDOW_SECONDS
    MaxClusterAge,  \* CORRELATION_MAX_CLUSTER_AGE_SECONDS
    CheckInterval,  \* FINALIZE_CHECK_INTERVAL_SECONDS
    MaxDelay,       \* bound: age of an anomaly when it gets on the topic
    MaxTime,        \* bound: the clock stops here
    LastEvent,      \* bound: no anomaly is published after this time
    MaxEvents,      \* bound: anomalies on the topic
    MaxCrashes      \* bound: restarts of the engine

ASSUME CorrelationAssumption ==
    /\ Related \in [Services -> SUBSET Services]
    /\ \A s \in Services : s \in Related[s]
    /\ \A s, t \in Services : t \in Related[s] <=> s \in Related[t]
    /\ Window \in Nat /\ MaxClusterAge \in Nat /\ CheckInterval \in Nat
    /\ MaxDelay \in Nat /\ MaxTime \in Nat /\ LastEvent \in 0..MaxTime
    /\ MaxEvents \in Nat /\ MaxCrashes \in Nat

VARIABLES
    now,        \* the wall clock
    events,     \* topic anomaly-events: [service, detectedAt]
    committed,  \* offset of the consumer group
    position,   \* anomalies this process and its predecessors read
    clusters,   \* IncidentClusterer._active_clusters
    closing,    \* what pop_finalized returned and is not dealt with yet
    pc,         \* where the loop is
    lastCheck,  \* when finalized clusters were last looked for
    incidents,  \* rows of table incidents, and whether each is on the topic
    dropped,    \* history: clusters given up
    start,      \* history: the position this process started from
    run         \* restarts so far

vars == <<now, events, committed, position, clusters, closing, pc, lastCheck,
          incidents, dropped, start, run>>

Time == 0..MaxTime

----------------------------------------------------------------------------
\* Cluster and IncidentClusterer.  `born`, the anomaly a cluster was opened
\* with, stands for its place in the list: the oldest cluster comes first.

ServicesOf(c) == {events[i].service : i \in c.members}

\* Mutant: milliseconds are taken for seconds.
NewClusterMillis(i) ==
    [born |-> i, members |-> {i},
     created |-> 1000 * events[i].detectedAt, updated |-> events[i].detectedAt]

NewCluster(i) ==
    [born |-> i, members |-> {i},
     created |-> events[i].detectedAt, updated |-> events[i].detectedAt]

Later(x, y) == IF x >= y THEN x ELSE y
Earlier(x, y) == IF x <= y THEN x ELSE y

Add(c, i) ==
    [c EXCEPT !.members = @ \cup {i},
              !.updated = Later(@, events[i].detectedAt)]

\* Mutant: only idleness makes a cluster ineligible.
IsEligibleAnyAge(c, t) == t - c.updated <= Window

\* Mutant: the age limit is inclusive.
IsEligibleInclusive(c, t) ==
    t - c.updated <= Window /\ t - c.created <= MaxClusterAge

IsEligible(c, t) == t - c.updated <= Window /\ t - c.created < MaxClusterAge

\* get_related_services, whose direction is left open, once for every service.
Neighbours(s) == Related[s]

\* Breadth-first search over the services that have an open anomaly: the least
\* set that holds s and the owned neighbours of its elements.
Component(s, owned) ==
    LET IsClosed(V) == \A x \in V : Neighbours(x) \cap owned \subseteq V
        candidates == {V \in SUBSET (owned \cup {s}) : s \in V /\ IsClosed(V)}
    IN  {x \in owned \cup {s} : \A V \in candidates : x \in V}

\* owner[s] is the last eligible cluster that has service s.
IsOwner(c, s, eligible) ==
    /\ s \in ServicesOf(c)
    /\ \A d \in eligible : s \in ServicesOf(d) => d.born <= c.born

ConnectedClusters(s, eligible) ==
    LET owned == UNION {ServicesOf(c) : c \in eligible}
        visited == Component(s, owned)
    IN  {c \in eligible : \E x \in visited : IsOwner(c, x, eligible)}

\* The first matching cluster takes the anomaly and absorbs the others.
Merged(matching, i) ==
    LET target == Add(CHOOSE c \in matching : \A d \in matching : c.born <= d.born, i)
        bounds == (matching \cup {target})
    IN  [born |-> target.born,
         members |-> UNION {c.members : c \in bounds},
         created |-> CHOOSE t \in {c.created : c \in matching} :
                        \A c \in matching : t <= c.created,
         updated |-> CHOOSE t \in {c.updated : c \in bounds} :
                        \A c \in bounds : c.updated <= t]

\* Mutant: the absorbed clusters stay in the list.
AfterAddKeeps(i) ==
    LET t == events[i].detectedAt
        eligible == {c \in clusters : IsEligible(c, t)}
        matching == ConnectedClusters(events[i].service, eligible)
        oldest == {c \in matching : \A d \in matching : c.born <= d.born}
    IN  IF matching = {} THEN clusters \cup {NewCluster(i)}
        ELSE (clusters \ oldest) \cup {Merged(matching, i)}

\* Mutant: the anomaly joins the first matching cluster, the others stay apart.
AfterAddFirst(i) ==
    LET t == events[i].detectedAt
        eligible == {c \in clusters : IsEligible(c, t)}
        matching == ConnectedClusters(events[i].service, eligible)
        oldest == {c \in matching : \A d \in matching : c.born <= d.born}
    IN  IF matching = {} THEN clusters \cup {NewCluster(i)}
        ELSE (clusters \ oldest) \cup {Merged(oldest, i)}

AfterAdd(i) ==
    LET t == events[i].detectedAt
        eligible == {c \in clusters : IsEligible(c, t)}
        matching == ConnectedClusters(events[i].service, eligible)
    IN  IF matching = {} THEN clusters \cup {NewCluster(i)}
        ELSE (clusters \ matching) \cup {Merged(matching, i)}

IsFinal(c) == now - c.updated > Window \/ now - c.created > MaxClusterAge

----------------------------------------------------------------------------
Init ==
    /\ now = 0 /\ events = <<>> /\ committed = 0 /\ position = 0
    /\ clusters = {} /\ closing = {} /\ pc = "poll" /\ lastCheck = 0
    /\ incidents = {} /\ dropped = {} /\ start = 0 /\ run = 0

Tick ==
    /\ now < MaxTime
    /\ now' = now + 1
    /\ UNCHANGED <<events, committed, position, clusters, closing, pc, lastCheck,
                   incidents, dropped, start, run>>

\* The Flink job publishes an anomaly when the checkpoint that covers it is
\* complete; partitions and services are not in step with one another.
Publish(s, t) ==
    /\ Len(events) < MaxEvents
    /\ now <= LastEvent
    /\ events' = Append(events, [service |-> s, detectedAt |-> t])
    /\ UNCHANGED <<now, committed, position, clusters, closing, pc, lastCheck,
                   incidents, dropped, start, run>>

\* poll() returns an anomaly: it is clustered at once.
AddAnomaly ==
    /\ pc = "poll"
    /\ position < Len(events)
    /\ position' = position + 1
    /\ clusters' = AfterAdd(position + 1)
    /\ pc' = IF now - lastCheck >= CheckInterval THEN "check" ELSE "poll"
    /\ UNCHANGED <<now, events, committed, closing, lastCheck, incidents, dropped,
                   start, run>>

\* Mutant: finalized clusters are looked for only after an anomaly.
PopOnAnomaly ==
    /\ pc = "check"
    /\ closing' = {c \in clusters : IsFinal(c)}
    /\ clusters' = clusters \ closing'
    /\ pc' = "close"
    /\ UNCHANGED <<now, events, committed, position, lastCheck, incidents, dropped,
                   start, run>>

\* pop_finalized: when a check is due, or poll() returns nothing, be it that
\* there is nothing yet, or that the fetch is slow, fails or does not decode.
PopFinalized ==
    /\ pc \in {"poll", "check"}
    /\ closing' = {c \in clusters : IsFinal(c)}
    /\ clusters' = clusters \ closing'
    /\ pc' = "close"
    /\ UNCHANGED <<now, events, committed, position, lastCheck, incidents, dropped,
                   start, run>>

NextToClose == CHOOSE c \in closing : \A d \in closing : c.born <= d.born

\* find_root_cause or save_incident raises: the cluster is given up.
FailToSave ==
    /\ pc = "close" /\ closing # {}
    /\ dropped' = dropped \cup {[members |-> NextToClose.members, run |-> run]}
    /\ closing' = closing \ {NextToClose}
    /\ UNCHANGED <<now, events, committed, position, clusters, pc, lastCheck,
                   incidents, start, run>>

\* JsonProducer.send waits ten seconds for the broker.  Whether it returns or
\* raises does not matter to the loop; when it raises, the message may be on the
\* topic or not.
Outcomes(c) ==
    {[members |-> c.members, published |-> p, run |-> run] : p \in BOOLEAN}

\* The row is committed; then the incident is published.  (A commit whose answer
\* is lost leaves a row without a message, too.)
SaveAndPublish ==
    /\ pc = "close" /\ closing # {}
    /\ \E incident \in Outcomes(NextToClose) : incidents' = incidents \cup {incident}
    /\ closing' = closing \ {NextToClose}
    /\ UNCHANGED <<now, events, committed, position, clusters, pc, lastCheck,
                   dropped, start, run>>

\* Every finalized cluster has been dealt with.
CheckDone ==
    /\ pc = "close" /\ closing = {}
    /\ lastCheck' = now
    /\ pc' = "poll"
    /\ UNCHANGED <<now, events, committed, position, clusters, closing, incidents,
                   dropped, start, run>>

\* enable.auto.commit: the client commits, at any time, what poll() returned.
AutoCommit ==
    /\ committed # position
    /\ committed' = position
    /\ UNCHANGED <<now, events, position, clusters, closing, pc, lastCheck,
                   incidents, dropped, start, run>>

\* The engine dies, or is stopped, and is started again.
Restart ==
    /\ run < MaxCrashes
    /\ run' = run + 1
    /\ position' = committed /\ start' = committed
    /\ clusters' = {} /\ closing' = {}
    /\ pc' = "poll" /\ lastCheck' = now
    /\ UNCHANGED <<now, events, committed, incidents, dropped>>

Loop ==
    \/ AddAnomaly \/ PopFinalized
    \/ FailToSave \/ SaveAndPublish \/ CheckDone

Next ==
    \/ Tick
    \/ \E s \in Services, t \in {u \in Time : u <= now /\ now - u <= MaxDelay} :
          Publish(s, t)
    \/ AddAnomaly
    \/ PopFinalized
    \/ FailToSave
    \/ SaveAndPublish
    \/ CheckDone
    \/ AutoCommit
    \/ Restart

Spec == Init /\ [][Next]_vars

\* The loop goes round (poll() and every database or broker call returns) and
\* time passes.
FairSpec == Spec /\ WF_vars(Loop) /\ WF_vars(Tick)

----------------------------------------------------------------------------
(* Properties *)

Position == 1..MaxEvents
Cluster == [born : Position, members : SUBSET Position, created : Time, updated : Time]

\* Every variable holds a value of its type.
TypeOK ==
    /\ now \in Time
    /\ events \in Seq([service : Services, detectedAt : Time])
    /\ Len(events) <= MaxEvents
    /\ committed \in 0..Len(events) /\ position \in 0..Len(events)
    /\ clusters \in SUBSET Cluster /\ closing \in SUBSET Cluster
    /\ pc \in {"poll", "check", "close"}
    /\ lastCheck \in Time
    /\ incidents \in SUBSET [members : SUBSET Position, published : BOOLEAN,
                             run : 0..run]
    /\ dropped \in SUBSET [members : SUBSET Position, run : 0..run]
    /\ start \in 0..position
    /\ run \in 0..MaxCrashes

\* Where the anomalies this process has read are.
Groups ==
    {<<"open", c.members>> : c \in clusters}
        \cup {<<"closing", c.members>> : c \in closing}
        \cup {<<"dropped", d.members>> : d \in {e \in dropped : e.run = run}}
        \cup {<<"saved", n.members>> : n \in {e \in incidents : e.run = run}}

\* Merging and closing neither loses an anomaly nor counts it twice: each one
\* this process read is in exactly one open, closing, saved or dropped cluster.
EachAnomalyInOneGroup ==
    \A i \in (start + 1)..position : \E g \in Groups :
        i \in g[2] /\ \A h \in Groups : i \in h[2] => h = g

ReadInOrder ==
    \A i, j \in (start + 1)..position :
        i < j => events[i].detectedAt <= events[j].detectedAt

\* When anomalies arrive in the order of their detection, those of one cluster
\* are less than MaxClusterAge apart, also after merges.
SpreadBounded ==
    ReadInOrder =>
        \A g \in Groups : \A i, j \in g[2] :
            events[i].detectedAt - events[j].detectedAt < MaxClusterAge

AreConnected(c, d) ==
    \E x \in ServicesOf(c), y \in ServicesOf(d) : y \in Related[x]

\* When anomalies arrive in the order of their detection, two open clusters
\* that both can still take an anomaly have no connected services: what belongs
\* to one fault is not split.
ConnectedClustersMerged ==
    ReadInOrder /\ position > start =>
        \A c, d \in clusters :
            /\ IsEligible(c, events[position].detectedAt)
            /\ IsEligible(d, events[position].detectedAt)
            /\ AreConnected(c, d)
            => c = d

\* A cluster never takes an anomaly that is detected MaxClusterAge or more
\* after it was opened, whatever the order of arrival.
NoLateJoin ==
    [][\A c \in clusters' : position' = position + 1 /\ position' \in c.members =>
          events'[position'].detectedAt - c.created < MaxClusterAge]_vars

\* Every anomaly the last process read is saved with an incident or given up
\* with its cluster in the end: no cluster stays open for ever.
AnomaliesConcluded ==
    \A i \in Position :
        (run = MaxCrashes /\ i \in (start + 1)..position) ~>
            \/ \E n \in incidents : i \in n.members
            \/ \E d \in dropped : i \in d.members

\* correlation/config.py: "a group that has offsets always resumes from them,
\* so restarts never lose anomalies".
RestartsLoseNothing ==
    \A i \in 1..committed :
        \/ i \in (start + 1)..position
        \/ \E n \in incidents : i \in n.members
        \/ \E d \in dropped : i \in d.members

=============================================================================
