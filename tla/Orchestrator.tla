---------------------------- MODULE Orchestrator ----------------------------
(***************************************************************************)
(* The response orchestrator (orchestrator/main.py, incident_filter.py,    *)
(* rule_engine.py, integrations/k8s_client.py): a single-threaded consumer *)
(* of incident-alerts that filters each incident, matches it against the   *)
(* rules, acts on the cluster, posts to Slack and then commits the offset. *)
(* The filter's memory and the pending HPA reverts live in the process and *)
(* die with it; the cluster, the topic and the committed offset do not.    *)
(*                                                                         *)
(* A call to the API server has three outcomes: "ok", "refused" (nothing   *)
(* happened) and "timeout" (the patch was applied, the answer was lost).   *)
(***************************************************************************)
EXTENDS Integers, Sequences, FiniteSets

CONSTANTS
    Incidents,     \* incidents, told apart by id: [id, service, severity, cpu, wide]
    Services,      \* root-cause services
    Deployed,      \* those with a rollout: SERVICE_ID_TO_ROLLOUT
    None,          \* no entry in a dict, no message in hand
    Garbage,       \* a message that cannot be decoded
    BaseMin,       \* minReplicas of the deployed HPAs (k8s/*.yaml)
    ScaleUpMin,    \* HPA_SCALE_UP_MIN_REPLICAS
    RevertAfter,   \* HPA_REVERT_AFTER_SECONDS
    RevertRetry,   \* REVERT_RETRY_SECONDS
    Cooldown,      \* ORCH_COOLDOWN_SECONDS
    MaxAge,        \* ORCH_MAX_INCIDENT_AGE_SECONDS
    MaxSeen,       \* IncidentFilter.max_seen
    MaxLag,        \* bound: age of an incident when it gets on the topic
    MaxTime,       \* bound: the clock stops here
    MaxAlerts,     \* bound: messages the topic may hold
    MaxCrashes,    \* bound: restarts of the process
    MaxRewinds     \* bound: redeliveries to a running process

ASSUME OrchestratorAssumption ==
    /\ \A i \in Incidents : i.service \in Services /\ i.severity \in Nat
    /\ \A i, j \in Incidents : i.id = j.id => i = j
    /\ Garbage \notin Incidents
    /\ None \notin [at : Nat, severity : Nat] \cup [original : Nat, revertAt : Nat]
    /\ Deployed \subseteq Services
    /\ BaseMin \in Nat /\ ScaleUpMin \in Nat /\ BaseMin < ScaleUpMin
    /\ RevertAfter \in Nat /\ RevertRetry \in Nat \ {0}
    /\ Cooldown \in Nat /\ MaxAge \in Nat /\ MaxSeen \in Nat
    /\ MaxLag \in Nat /\ MaxTime \in Nat /\ MaxAlerts \in Nat /\ MaxCrashes \in Nat
    /\ MaxRewinds \in Nat

VARIABLES
    now,        \* the clock
    alerts,     \* topic incident-alerts: [body, closedAt]
    committed,  \* offset of the consumer group
    pc,         \* where the consumer loop is
    position,   \* messages fetched by this consumer
    seen,       \* IncidentFilter._seen, oldest first
    last,       \* IncidentFilter._last: service -> (acted at, severity)
    raised,     \* K8sClient._raised: rollout -> (original, revert at)
    enabled,    \* K8sClient, or DisabledK8sClient
    hpa,        \* the cluster: minReplicas of every rollout's HPA
    canary,     \* the cluster: phase of every rollout
    checks,     \* history: what IncidentFilter said, and when
    posts,      \* history: Slack messages about each message of the topic
    run,        \* restarts so far
    rewinds     \* redeliveries so far

topicVars   == <<alerts, committed>>
loopVars    == <<pc, position>>
filterVars  == <<seen, last>>
clientVars  == <<raised, enabled>>
clusterVars == <<hpa, canary>>
historyVars == <<checks, posts>>
vars == <<now, topicVars, loopVars, filterVars, clientVars, clusterVars,
          historyVars, run, rewinds>>

Time == 0..MaxTime
InHand == alerts[position]

----------------------------------------------------------------------------
\* RuleEngine and rules.yaml: the first rule that matches.

Rules == <<
    [minSeverity |-> 4, cpu |-> FALSE, wide |-> TRUE,
     actions |-> {"trigger_hpa", "rollback_canary", "generate_runbook", "post_slack"}],
    [minSeverity |-> 4, cpu |-> FALSE, wide |-> FALSE,
     actions |-> {"trigger_hpa", "generate_runbook", "post_slack"}],
    [minSeverity |-> 3, cpu |-> TRUE, wide |-> FALSE,
     actions |-> {"trigger_hpa", "post_slack"}],
    [minSeverity |-> 2, cpu |-> FALSE, wide |-> FALSE, actions |-> {"post_slack"}],
    [minSeverity |-> 0, cpu |-> FALSE, wide |-> FALSE, actions |-> {"post_slack"}] >>

Matches(rule, incident) ==
    /\ incident.severity >= rule.minSeverity
    /\ rule.cpu => incident.cpu
    /\ rule.wide => incident.wide

ActionsFor(incident) ==
    LET matching == {n \in DOMAIN Rules : Matches(Rules[n], incident)}
        first == CHOOSE n \in matching : \A m \in matching : n <= m
    IN  Rules[first].actions

----------------------------------------------------------------------------
\* IncidentFilter.check

\* Mutant: the filter does not look at the ids.
NeverDuplicate(id) == FALSE

IsDuplicate(id) == \E n \in DOMAIN seen : seen[n] = id

\* Mutant: the filter's memory is not bounded.
RememberUnbounded(id) == Append(seen, id)

\* Recorded first, whatever the verdict; the oldest id is evicted.
Remember(id) ==
    LET s == Append(seen, id) IN IF Len(s) > MaxSeen THEN Tail(s) ELSE s

IsStale(message) == now - message.closedAt > MaxAge

\* Mutant: the cooldown swallows escalations.
InCooldownAlways(incident) ==
    LET l == last[incident.service] IN l # None /\ now - l.at < Cooldown

\* Mutant: the cooldown lets an incident of the same severity through.
InCooldownLower(incident) ==
    LET l == last[incident.service]
    IN  l # None /\ now - l.at < Cooldown /\ incident.severity < l.severity

InCooldown(incident) ==
    LET l == last[incident.service]
    IN  l # None /\ now - l.at < Cooldown /\ incident.severity <= l.severity

FilterVerdict(message) ==
    IF IsDuplicate(message.body.id) THEN "duplicate"
    ELSE IF IsStale(message) THEN "stale"
    ELSE IF InCooldown(message.body) THEN "cooldown"
    ELSE "act"

----------------------------------------------------------------------------
Init ==
    /\ now = 0
    /\ alerts = <<>> /\ committed = 0
    /\ pc = "poll" /\ position = 0
    /\ seen = <<>> /\ last = [s \in Services |-> None]
    /\ raised = [d \in Deployed |-> None] /\ enabled \in BOOLEAN
    /\ hpa = [d \in Deployed |-> BaseMin]
    /\ canary \in [Deployed -> {"healthy", "progressing"}]
    /\ checks = <<>> /\ posts = [n \in 1..MaxAlerts |-> 0]
    /\ run = 0 /\ rewinds = 0

Tick ==
    /\ now < MaxTime
    /\ now' = now + 1
    /\ UNCHANGED <<topicVars, loopVars, filterVars, clientVars, clusterVars,
                   historyVars, run, rewinds>>

\* The correlation engine publishes an incident, once (its producer is
\* idempotent), some time after its last anomaly, which closed_at is the time
\* of; anything else on the topic is a message that does not decode.
Publish(body, closedAt) ==
    /\ Len(alerts) < MaxAlerts
    /\ body # Garbage => \A n \in DOMAIN alerts : alerts[n].body # body
    /\ alerts' = Append(alerts, [body |-> body, closedAt |-> closedAt])
    /\ UNCHANGED <<now, committed, loopVars, filterVars, clientVars,
                   clusterVars, historyVars, run, rewinds>>

\* Mutant: the consumer commits when it fetches (enable.auto.commit).
PollAutoCommit ==
    /\ pc = "poll"
    /\ \/ position < Len(alerts) /\ position' = position + 1 /\ pc' = "revert"
       \/ position = Len(alerts) /\ position' = position /\ pc' = "revert idle"
    /\ committed' = position'
    /\ UNCHANGED <<now, alerts, filterVars, clientVars, clusterVars,
                   historyVars, run, rewinds>>

\* Mutant: the consumer waits for a message (for msg in consumer).
PollBlocking ==
    /\ pc = "poll"
    /\ position < Len(alerts) /\ position' = position + 1 /\ pc' = "revert"
    /\ UNCHANGED <<now, topicVars, filterVars, clientVars, clusterVars,
                   historyVars, run, rewinds>>

\* consumer.poll(timeout, max_records=1): a message or nothing.
Poll ==
    /\ pc = "poll"
    /\ \/ position < Len(alerts) /\ position' = position + 1 /\ pc' = "revert"
       \/ position = Len(alerts) /\ position' = position /\ pc' = "revert idle"
    /\ UNCHANGED <<now, topicVars, filterVars, clientVars, clusterVars,
                   historyVars, run, rewinds>>

IsDue(d) == raised[d] # None /\ raised[d].revertAt <= now

\* revert_expired: every hold that has expired is patched back; a hold whose
\* patch fails, with or without effect, is retried later.
RevertExpired ==
    /\ pc \in {"revert", "revert idle"}
    /\ \E answer \in [Deployed -> {"ok", "refused", "timeout"}] :
        LET due == {d \in Deployed : IsDue(d)} IN
        /\ \A d \in Deployed \ due : answer[d] = "ok"
        /\ hpa' = [d \in Deployed |->
                     IF d \in due /\ answer[d] # "refused"
                     THEN raised[d].original ELSE hpa[d]]
        /\ raised' = [d \in Deployed |->
                        IF d \notin due THEN raised[d]
                        ELSE IF answer[d] = "ok" THEN None
                        ELSE [raised[d] EXCEPT !.revertAt = now + RevertRetry]]
    /\ pc' = IF pc = "revert" THEN "check" ELSE "poll"
    /\ UNCHANGED <<now, topicVars, position, filterVars, enabled, canary,
                   historyVars, run, rewinds>>

\* Mutant: a message that does not decode kills the consumer, again and again.
SkipGarbageFatal ==
    /\ pc = "check" /\ InHand.body = Garbage
    /\ pc' = "poll" /\ position' = committed
    /\ UNCHANGED <<now, topicVars, filterVars, clientVars, clusterVars,
                   historyVars, run, rewinds>>

SkipGarbage ==
    /\ pc = "check" /\ InHand.body = Garbage
    /\ pc' = "commit"
    /\ UNCHANGED <<now, topicVars, position, filterVars, clientVars,
                   clusterVars, historyVars, run, rewinds>>

\* IncidentFilter.check: the id is remembered and the cooldown starts before
\* anything is done about the incident.
Check ==
    /\ pc = "check" /\ InHand.body # Garbage
    /\ LET incident == InHand.body
           verdict == FilterVerdict(InHand)
       IN  /\ seen' = IF verdict = "duplicate" THEN seen ELSE Remember(incident.id)
           /\ last' = IF verdict = "act"
                      THEN [last EXCEPT ![incident.service] =
                              [at |-> now, severity |-> incident.severity]]
                      ELSE last
           /\ checks' = Append(checks, [message |-> position, verdict |-> verdict,
                                        at |-> now, run |-> run])
           /\ pc' = IF verdict = "act" THEN "hpa" ELSE "commit"
    /\ UNCHANGED <<now, topicVars, position, clientVars, clusterVars, posts, run,
                   rewinds>>

\* The rule asks for a scale-up of a service this client can act on.
ScaleUpWanted ==
    /\ "trigger_hpa" \in ActionsFor(InHand.body)
    /\ enabled /\ InHand.body.service \in Deployed

\* trigger_hpa with nothing to change: no such action or rollout, or the HPA
\* could not be read, or its minimum is high enough already.
NoScaleUp ==
    /\ pc = "hpa"
    /\ ScaleUpWanted => raised[InHand.body.service] = None
    /\ pc' = "canary"
    /\ UNCHANGED <<now, topicVars, position, filterVars, clientVars,
                   clusterVars, historyVars, run, rewinds>>

\* trigger_hpa, "already raised by an earlier incident: just extend the hold".
ExtendHold ==
    /\ pc = "hpa"
    /\ ScaleUpWanted
    /\ raised[InHand.body.service] # None
    /\ raised' = [raised EXCEPT ![InHand.body.service].revertAt = now + RevertAfter]
    /\ pc' = "canary"
    /\ UNCHANGED <<now, topicVars, position, filterVars, enabled, clusterVars,
                   historyVars, run, rewinds>>

\* Mutant: the HPA is patched without a look at its minimum.
ScaleUpBlindly ==
    /\ pc = "hpa"
    /\ ScaleUpWanted
    /\ LET d == InHand.body.service IN
        /\ raised[d] = None
        /\ hpa' = [hpa EXCEPT ![d] = ScaleUpMin]
        /\ \/ raised' = [raised EXCEPT ![d] = [original |-> hpa[d],
                                              revertAt |-> now + RevertAfter]]
           \/ raised' = raised
    /\ pc' = "canary"
    /\ UNCHANGED <<now, topicVars, position, filterVars, enabled, canary,
                   historyVars, run, rewinds>>

\* trigger_hpa patches the HPA; the hold is recorded only if the call returns.
ScaleUp ==
    /\ pc = "hpa"
    /\ ScaleUpWanted
    /\ LET d == InHand.body.service IN
        /\ raised[d] = None
        /\ hpa[d] < ScaleUpMin
        /\ hpa' = [hpa EXCEPT ![d] = ScaleUpMin]
        /\ \/ raised' = [raised EXCEPT ![d] = [original |-> hpa[d],
                                              revertAt |-> now + RevertAfter]]
           \/ raised' = raised
    /\ pc' = "canary"
    /\ UNCHANGED <<now, topicVars, position, filterVars, enabled, canary,
                   historyVars, run, rewinds>>

RollbackWanted ==
    /\ "rollback_canary" \in ActionsFor(InHand.body)
    /\ enabled /\ InHand.body.service \in Deployed

\* rollback_canary: a canary in flight is aborted; a call that fails is
\* swallowed by _safe.  (A canary promoted meanwhile ignores the abort.)
RollbackCanary ==
    /\ pc = "canary"
    /\ \/ UNCHANGED canary
       \/ /\ RollbackWanted
          /\ canary[InHand.body.service] = "progressing"
          /\ canary' = [canary EXCEPT ![InHand.body.service] = "degraded"]
    /\ pc' = "slack"
    /\ UNCHANGED <<now, topicVars, position, filterVars, clientVars, hpa,
                   historyVars, run, rewinds>>

\* The runbook and the Slack message; a failed post is not tried again.
PostSlack ==
    /\ pc = "slack"
    /\ \/ posts' = [posts EXCEPT ![position] = @ + 1]
       \/ UNCHANGED posts
    /\ pc' = "commit"
    /\ UNCHANGED <<now, topicVars, position, filterVars, clientVars,
                   clusterVars, checks, run, rewinds>>

Commit ==
    /\ pc = "commit"
    /\ committed' = position
    /\ pc' = "poll"
    /\ UNCHANGED <<now, alerts, position, filterVars, clientVars, clusterVars,
                   historyVars, run, rewinds>>

\* The process dies anywhere (a commit that fails kills it, too) and is started
\* again: its memory is empty and it reads from the committed offset.
Crash ==
    /\ run < MaxCrashes
    /\ run' = run + 1
    /\ position' = committed /\ pc' = "poll"
    /\ seen' = <<>> /\ last' = [s \in Services |-> None]
    /\ raised' = [d \in Deployed |-> None] /\ enabled' \in BOOLEAN
    /\ UNCHANGED <<now, topicVars, clusterVars, historyVars, rewinds>>

\* A rebalance or an offset reset: the running process is handed messages it
\* has read before.
Redeliver ==
    /\ rewinds < MaxRewinds
    /\ pc = "poll"
    /\ \E p \in 0..(position - 1) : position' = p
    /\ rewinds' = rewinds + 1
    /\ UNCHANGED <<now, topicVars, pc, filterVars, clientVars, clusterVars,
                   historyVars, run>>

Loop ==
    \/ Poll \/ RevertExpired \/ SkipGarbage \/ Check
    \/ NoScaleUp \/ ExtendHold \/ ScaleUp
    \/ RollbackCanary \/ PostSlack \/ Commit

Next ==
    \/ Tick
    \/ \E body \in Incidents \cup {Garbage},
          closedAt \in {t \in Time : t <= now /\ now - t <= MaxLag} :
            Publish(body, closedAt)
    \/ Loop
    \/ Crash
    \/ Redeliver

Spec == Init /\ [][Next]_vars

\* Every call has a timeout, so the loop never stops going round.
FairSpec == Spec /\ WF_vars(Loop)

----------------------------------------------------------------------------
(* Properties *)

Entry == [at : Time, severity : Nat] \cup {None}
Hold == [original : Nat, revertAt : Nat] \cup {None}
Pcs == {"poll", "revert", "revert idle", "check", "hpa", "canary", "slack", "commit"}

\* Every variable holds a value of its type, and the filter's memory is bounded.
TypeOK ==
    /\ now \in Time
    /\ alerts \in Seq([body : Incidents \cup {Garbage}, closedAt : Time])
    /\ committed \in 0..Len(alerts)
    /\ pc \in Pcs
    /\ position \in 0..Len(alerts)
    /\ seen \in Seq({i.id : i \in Incidents}) /\ Len(seen) <= MaxSeen
    /\ last \in [Services -> Entry]
    /\ raised \in [Deployed -> Hold]
    /\ enabled \in BOOLEAN
    /\ hpa \in [Deployed -> Nat]
    /\ canary \in [Deployed -> {"healthy", "progressing", "degraded"}]
    /\ checks \in Seq([message : 1..Len(alerts), at : Time, run : 0..run,
                       verdict : {"act", "duplicate", "stale", "cooldown"}])
    /\ posts \in [1..MaxAlerts -> Nat]
    /\ run \in 0..MaxCrashes
    /\ rewinds \in 0..MaxRewinds

Subject(n) == alerts[checks[n].message].body
Acts == {n \in DOMAIN checks : checks[n].verdict = "act"}
SameRun(m, n) == m < n /\ checks[m].run = checks[n].run

\* At-least-once: a message is behind the committed offset only if the filter
\* has judged it, whatever crashes and redeliveries came in between.
JudgedBeforeCommit ==
    \A i \in 1..committed :
        alerts[i].body # Garbage => \E n \in DOMAIN checks : checks[n].message = i

\* No incident is swallowed without cause: a duplicate was judged before by the
\* same process, a stale one is old, and one in cooldown follows an incident of
\* its service, acted on less than Cooldown before, that was at least as severe.
SkipsJustified ==
    \A n \in DOMAIN checks :
        /\ checks[n].verdict = "duplicate" =>
             \E m \in DOMAIN checks :
                SameRun(m, n) /\ checks[m].message = checks[n].message
        /\ checks[n].verdict = "stale" =>
             checks[n].at - alerts[checks[n].message].closedAt > MaxAge
        /\ checks[n].verdict = "cooldown" =>
             \E m \in Acts :
                /\ SameRun(m, n)
                /\ Subject(m).service = Subject(n).service
                /\ checks[n].at - checks[m].at < Cooldown
                /\ Subject(n).severity <= Subject(m).severity

\* One process acts twice on a service within the cooldown only to escalate.
CooldownRespected ==
    \A n \in Acts : \A m \in Acts :
        /\ SameRun(m, n)
        /\ Subject(m).service = Subject(n).service
        /\ checks[n].at - checks[m].at < Cooldown
        => Subject(n).severity > Subject(m).severity

\* One process acts twice on a message only if MaxSeen others pushed its id out
\* of the filter's memory in between.
ActsOncePerRun ==
    \A n \in Acts : \A m \in Acts :
        SameRun(m, n) /\ checks[m].message = checks[n].message =>
            MaxSeen <= Cardinality({x \in (m + 1)..(n - 1) :
                                      checks[x].verdict # "duplicate"})

\* The value a hold will put back is the one from before any incident: neither
\* a lost answer nor a restart makes the raised value pass for the original.
OriginalKept ==
    \A d \in Deployed :
        /\ raised[d] # None => raised[d].original = BaseMin
        /\ hpa[d] \in {BaseMin, ScaleUpMin}

\* Every message is behind the committed offset for good in the end.
MessagesHandled ==
    \A i \in 1..MaxAlerts : (Len(alerts) >= i) ~> [](committed >= i)

\* A hold whose time has come is put back (or its retry scheduled), also when
\* no further incident arrives.
RevertsAttempted == \A d \in Deployed : IsDue(d) ~> ~IsDue(d)

\* orchestrator/main.py: "A crash mid-handling means redelivery, which
\* IncidentFilter de-duplicates".
NoDoublePost == \A i \in 1..MaxAlerts : posts[i] <= 1

=============================================================================
