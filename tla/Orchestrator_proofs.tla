------------------------- MODULE Orchestrator_proofs -------------------------
(***************************************************************************)
(* Proofs about the response orchestrator: its type invariant, the promise *)
(* of the HPA hold, and what IncidentFilter guarantees within one process. *)
(***************************************************************************)
EXTENDS Orchestrator, SequenceTheorems, FiniteSetTheorems, TLAPS

Verdicts == {"act", "duplicate", "stale", "cooldown"}
CheckRecord == [message : 1..Len(alerts), at : Time, run : 0..run, verdict : Verdicts]
Message == [body : Incidents \cup {Garbage}, closedAt : Time]
Ids == {i.id : i \in Incidents}

\* The loop deals with a message: the one at `position`.
HasMessage == pc \notin {"poll", "revert idle"}

HandOK == HasMessage => position > 0

\* The verdict of step n was given by the process that runs now.
IsCurrent(n) == n \in DOMAIN checks /\ checks[n].run = run

\* The filter judged incidents, each published in one message only, in the past.
PublishedOnce ==
    \A i, j \in DOMAIN alerts :
        alerts[i].body # Garbage /\ alerts[i].body = alerts[j].body => i = j

HistoryOK ==
    /\ \A n \in DOMAIN checks : Subject(n) \in Incidents /\ checks[n].at <= now
    /\ PublishedOnce

\* What the filter remembers is about incidents this process judged.
SeenJudged ==
    \A k \in DOMAIN seen : \E m \in DOMAIN checks : IsCurrent(m) /\ Subject(m).id = seen[k]

\* A cooldown was started by this process when it acted on an incident.
LastIsAct ==
    \A s \in Services :
        last[s] # None =>
            \E m \in Acts :
                /\ IsCurrent(m)
                /\ Subject(m).service = s
                /\ checks[m].at = last[s].at
                /\ Subject(m).severity = last[s].severity

\* The cooldown of a service speaks for every act on it: it began no earlier,
\* and if it began within a cooldown of the act, at no lower severity.
LastCovers ==
    \A n \in Acts :
        IsCurrent(n) =>
            LET l == last[Subject(n).service]
            IN  /\ l # None
                /\ checks[n].at <= l.at
                /\ l.at - checks[n].at < Cooldown => Subject(n).severity <= l.severity

FilterInv == HistoryOK /\ SeenJudged /\ LastIsAct /\ LastCovers

\* What the filter remembered after verdict n.
NewSince(n) == {x \in (n + 1)..Len(checks) : checks[x].verdict # "duplicate"}

\* An id judged by this process is as deep in the filter's memory as ids were
\* remembered after it, until MaxSeen of them were.
MemoryOK ==
    \A n \in DOMAIN checks :
        IsCurrent(n) /\ checks[n].verdict # "duplicate" =>
            \/ MaxSeen <= Cardinality(NewSince(n))
            \/ \E k \in DOMAIN seen :
                  seen[k] = Subject(n).id /\ Cardinality(NewSince(n)) + k = Len(seen)

\* The filter has judged the message at offset i, unless it does not decode.
Judged(i) ==
    alerts[i].body # Garbage => \E n \in DOMAIN checks : checks[n].message = i

\* Everything this consumer is done with was judged, by this process or, up to
\* the committed offset, by an earlier one.
ReadWasJudged ==
    \A i \in 1..position : i < position \/ pc \notin {"revert", "check"} => Judged(i)

\* A step that leaves the filter, its history and the process alone.
Quiet == UNCHANGED <<checks, seen, last, run>>

----------------------------------------------------------------------------
(* Sequences. *)

LEMMA AppendFacts ==
    ASSUME NEW S, NEW s \in Seq(S), NEW e \in S
    PROVE  /\ Append(s, e) \in Seq(S)
           /\ Len(s) \in Nat
           /\ Len(Append(s, e)) = Len(s) + 1
           /\ DOMAIN s = 1 .. Len(s)
           /\ DOMAIN Append(s, e) = 1 .. (Len(s) + 1)
           /\ \A i \in 1 .. Len(s) : Append(s, e)[i] = s[i]
           /\ Append(s, e)[Len(s) + 1] = e
  OBVIOUS

\* What the filter remembers: the new id, and nothing that was not there before.
LEMMA RememberFacts ==
    ASSUME seen \in Seq(Ids), Len(seen) <= MaxSeen, NEW id \in Ids
    PROVE  /\ Remember(id) \in Seq(Ids)
           /\ Len(Remember(id)) <= MaxSeen
           /\ \A n \in DOMAIN Remember(id) :
                 \/ Remember(id)[n] = id
                 \/ \E m \in DOMAIN seen : Remember(id)[n] = seen[m]
<1> DEFINE s == Append(seen, id)
<1>1. /\ s \in Seq(Ids) /\ Len(s) = Len(seen) + 1 /\ Len(seen) \in Nat
      /\ DOMAIN seen = 1 .. Len(seen) /\ DOMAIN s = 1 .. (Len(seen) + 1)
      /\ \A i \in 1 .. Len(seen) : s[i] = seen[i]
      /\ s[Len(seen) + 1] = id
  BY AppendFacts
<1>2. CASE Len(s) > MaxSeen
  <2>1. Remember(id) = Tail(s)
    BY <1>2 DEF Remember
  <2>2. /\ Tail(s) \in Seq(Ids) /\ Len(Tail(s)) = Len(s) - 1
        /\ DOMAIN Tail(s) = 1 .. Len(seen)
        /\ \A i \in 1 .. Len(seen) : Tail(s)[i] = s[i + 1]
    BY <1>1
  <2>3. \A n \in 1 .. Len(seen) : n + 1 \in 1 .. Len(seen) \/ n + 1 = Len(seen) + 1
    BY <1>1
  <2> QED
    BY <1>1, <2>1, <2>2, <2>3
<1>3. CASE ~(Len(s) > MaxSeen)
  <2>1. Remember(id) = s
    BY <1>3 DEF Remember
  <2>2. MaxSeen \in Nat
    BY OrchestratorAssumption
  <2> QED
    BY <1>1, <1>3, <2>1, <2>2
<1> QED
  BY <1>2, <1>3

----------------------------------------------------------------------------
(* Type correctness. *)

LEMMA InitTypeOK == Init => TypeOK /\ HandOK
  BY OrchestratorAssumption
     DEF Init, TypeOK, HandOK, HasMessage, Time, Entry, Hold, Pcs

\* A message in hand is one of the topic.
LEMMA InHandFacts ==
    ASSUME TypeOK, HandOK, HasMessage
    PROVE  position \in 1 .. Len(alerts) /\ InHand \in Message
<1>1. position \in 1 .. Len(alerts)
  <2>1. position \in 0 .. Len(alerts) /\ Len(alerts) \in Nat
    BY DEF TypeOK
  <2>2. position > 0
    BY DEF HandOK
  <2> QED
    BY <2>1, <2>2
<1>2. alerts \in Seq(Message)
  BY DEF TypeOK, Message
<1> QED
  BY <1>1, <1>2, ElementOfSeq DEF InHand

\* One pass of revert_expired leaves well-formed holds.
LEMMA RevertType ==
    ASSUME TypeOK, RevertExpired
    PROVE  raised' \in [Deployed -> Hold] /\ hpa' \in [Deployed -> Nat]
<1>1. \A d \in Deployed : IsDue(d) =>
         raised[d] \in [original : Nat, revertAt : Nat]
  BY DEF TypeOK, IsDue, Hold
<1>2. now + RevertRetry \in Nat
  BY OrchestratorAssumption DEF TypeOK, Time
<1>3. \A d \in Deployed : raised[d] \in Hold /\ hpa[d] \in Nat
  BY DEF TypeOK
<1>4. \A d \in Deployed : IsDue(d) =>
         /\ raised[d].original \in Nat
         /\ [raised[d] EXCEPT !.revertAt = now + RevertRetry] \in Hold
  BY <1>1, <1>2 DEF Hold
<1>5. None \in Hold
  BY DEF Hold
<1> QED
  <2>1. PICK answer \in [Deployed -> {"ok", "refused", "timeout"}] :
          /\ hpa' = [d \in Deployed |->
                       IF d \in {e \in Deployed : IsDue(e)} /\ answer[d] # "refused"
                       THEN raised[d].original ELSE hpa[d]]
          /\ raised' = [d \in Deployed |->
                          IF d \notin {e \in Deployed : IsDue(e)} THEN raised[d]
                          ELSE IF answer[d] = "ok" THEN None
                          ELSE [raised[d] EXCEPT !.revertAt = now + RevertRetry]]
    BY DEF RevertExpired
  <2>2. hpa' \in [Deployed -> Nat]
    BY <1>3, <1>4, <2>1
  <2>3. raised' \in [Deployed -> Hold]
    BY <1>3, <1>4, <1>5, <2>1
  <2> QED
    BY <2>2, <2>3

\* A judgement adds a well-formed verdict and keeps the filter's memory small.
LEMMA CheckType ==
    ASSUME TypeOK, HandOK, Check
    PROVE  /\ position \in 1 .. Len(alerts)
           /\ InHand \in Message /\ InHand.body \in Incidents
           /\ FilterVerdict(InHand) \in Verdicts
           /\ seen' \in Seq(Ids) /\ Len(seen') <= MaxSeen
           /\ last' \in [Services -> Entry]
           /\ checks' \in Seq(CheckRecord)
<1>1. position \in 1 .. Len(alerts) /\ InHand \in Message /\ InHand.body \in Incidents
  <2>1. HasMessage /\ InHand.body # Garbage
    BY DEF Check, HasMessage
  <2> QED
    BY <2>1, InHandFacts DEF Message
<1>2. FilterVerdict(InHand) \in Verdicts
  BY DEF FilterVerdict, Verdicts
<1>3. InHand.body.id \in Ids /\ InHand.body.severity \in Nat
  BY <1>1, OrchestratorAssumption DEF Ids
<1>4. seen' \in Seq(Ids) /\ Len(seen') <= MaxSeen
  <2>1. seen \in Seq(Ids) /\ Len(seen) <= MaxSeen
    BY DEF TypeOK, Ids
  <2> QED
    BY <1>3, <2>1, RememberFacts DEF Check
<1>5. last' \in [Services -> Entry]
  <2>1. [at |-> now, severity |-> InHand.body.severity] \in Entry
    BY <1>3 DEF Entry, TypeOK
  <2> QED
    BY <2>1 DEF Check, TypeOK
<1>6. checks' \in Seq(CheckRecord)
  <2>1. checks \in Seq(CheckRecord)
    BY DEF TypeOK, CheckRecord, Verdicts
  <2>2. run \in 0 .. run /\ now \in Time
    BY OrchestratorAssumption DEF TypeOK
  <2>3. [message |-> position, verdict |-> FilterVerdict(InHand),
         at |-> now, run |-> run] \in CheckRecord
    BY <1>1, <1>2, <2>2 DEF CheckRecord
  <2> QED
    BY <2>1, <2>3, AppendFacts DEF Check
<1> QED
  BY <1>1, <1>2, <1>4, <1>5, <1>6

LEMMA NextTypeOK == TypeOK /\ HandOK /\ [Next]_vars => TypeOK' /\ HandOK'
<1> SUFFICES ASSUME TypeOK, HandOK, [Next]_vars PROVE TypeOK' /\ HandOK'
  OBVIOUS
<1> USE DEF topicVars, loopVars, filterVars, clientVars, clusterVars, historyVars
<1>0. position \in 0 .. Len(alerts) /\ Len(alerts) \in Nat /\ MaxSeen \in Nat
  BY OrchestratorAssumption DEF TypeOK
<1>1. CASE Tick
  <2>1. now' \in Time
    BY <1>1, OrchestratorAssumption DEF Tick, TypeOK, Time
  <2> QED
    BY <1>1, <2>1 DEF Tick, TypeOK, HandOK, HasMessage
<1>2. ASSUME NEW body \in Incidents \cup {Garbage}, NEW closedAt \in Time,
             Publish(body, closedAt)
      PROVE  TypeOK' /\ HandOK'
  <2>1. [body |-> body, closedAt |-> closedAt] \in Message
    BY DEF Message
  <2>2. alerts' \in Seq(Message) /\ Len(alerts') = Len(alerts) + 1
    BY <1>2, <2>1, AppendFacts DEF Publish, TypeOK, Message
  <2>3. CheckRecord \subseteq CheckRecord'
    BY <1>0, <1>2, <2>2 DEF CheckRecord, Publish
  <2>4. checks \in Seq(CheckRecord)
    BY DEF TypeOK, CheckRecord, Verdicts
  <2>5. checks \in Seq(CheckRecord')
    BY <2>3, <2>4, SeqMonotonic
  <2>6. checks' \in Seq([message : 1..Len(alerts'), at : Time, run : 0..run', verdict : Verdicts])
    BY <1>2, <2>5 DEF CheckRecord, Publish
  <2>7. committed' \in 0..Len(alerts') /\ position' \in 0..Len(alerts')
    BY <1>2, <2>2 DEF TypeOK, Publish
  <2> QED
    BY <1>2, <2>2, <2>6, <2>7 DEF Publish, TypeOK, HandOK, HasMessage, Message, Verdicts
<1>3. CASE Poll
  <2>1. /\ position' \in 0 .. Len(alerts) /\ pc' \in {"revert", "revert idle"}
        /\ HasMessage' => position' > 0
    <3>1. CASE position < Len(alerts) /\ position' = position + 1 /\ pc' = "revert"
      BY <1>0, <3>1
    <3>2. CASE position = Len(alerts) /\ position' = position /\ pc' = "revert idle"
      BY <1>0, <3>2 DEF HasMessage
    <3> QED
      BY <1>3, <3>1, <3>2 DEF Poll
  <2>2. HandOK' /\ pc' \in Pcs
    BY <2>1 DEF HandOK, HasMessage, Pcs
  <2> QED
    BY <1>3, <2>1, <2>2 DEF Poll, TypeOK
<1>4. CASE RevertExpired
  <2>1. pc' \in Pcs /\ (pc' = "check" => pc = "revert")
    BY <1>4 DEF RevertExpired, Pcs
  <2>2. HandOK'
    BY <1>4, <2>1 DEF RevertExpired, HandOK, HasMessage
  <2>3. raised' \in [Deployed -> Hold] /\ hpa' \in [Deployed -> Nat]
    BY <1>4, RevertType
  <2> QED
    BY <1>4, <2>1, <2>2, <2>3 DEF RevertExpired, TypeOK
<1>5. CASE SkipGarbage
  BY <1>5 DEF SkipGarbage, TypeOK, HandOK, HasMessage, Pcs
<1>6. CASE Check
  BY <1>6, CheckType DEF Check, TypeOK, HandOK, HasMessage, Pcs, Ids, CheckRecord, Verdicts
<1>7. CASE NoScaleUp
  BY <1>7 DEF NoScaleUp, TypeOK, HandOK, HasMessage, Pcs
<1>8. CASE ExtendHold
  <2>1. now + RevertAfter \in Nat
    BY OrchestratorAssumption DEF TypeOK, Time
  <2>2. raised[InHand.body.service] \in [original : Nat, revertAt : Nat]
    BY <1>8 DEF ExtendHold, ScaleUpWanted, TypeOK, Hold
  <2>3. raised' \in [Deployed -> Hold]
    BY <1>8, <2>1, <2>2 DEF ExtendHold, TypeOK, Hold
  <2> QED
    BY <1>8, <2>3 DEF ExtendHold, TypeOK, HandOK, HasMessage, Pcs
<1>9. CASE ScaleUp
  <2>1. now + RevertAfter \in Nat /\ ScaleUpMin \in Nat
    BY OrchestratorAssumption DEF TypeOK, Time
  <2>2. hpa' \in [Deployed -> Nat]
    BY <1>9, <2>1 DEF ScaleUp, TypeOK
  <2>3. [original |-> hpa[InHand.body.service], revertAt |-> now + RevertAfter] \in Hold
    BY <1>9, <2>1 DEF ScaleUp, ScaleUpWanted, TypeOK, Hold
  <2>4. raised' \in [Deployed -> Hold]
    BY <1>9, <2>3 DEF ScaleUp, TypeOK
  <2> QED
    BY <1>9, <2>2, <2>4 DEF ScaleUp, TypeOK, HandOK, HasMessage, Pcs
<1>10. CASE RollbackCanary
  BY <1>10 DEF RollbackCanary, TypeOK, HandOK, HasMessage, Pcs
<1>11. CASE PostSlack
  <2>1. posts' \in [1..MaxAlerts -> Nat]
    BY <1>11 DEF PostSlack, TypeOK
  <2> QED
    BY <1>11, <2>1 DEF PostSlack, TypeOK, HandOK, HasMessage, Pcs
<1>12. CASE Commit
  BY <1>12 DEF Commit, TypeOK, HandOK, HasMessage, Pcs
<1>13. CASE Crash
  <2>1. run' \in 0..MaxCrashes /\ 0..run \subseteq 0..run'
    BY <1>13, OrchestratorAssumption DEF Crash, TypeOK
  <2>2. CheckRecord \subseteq CheckRecord'
    BY <1>13, <2>1 DEF CheckRecord, Crash
  <2>3. checks \in Seq(CheckRecord)
    BY DEF TypeOK, CheckRecord, Verdicts
  <2>4. checks \in Seq(CheckRecord')
    BY <2>2, <2>3, SeqMonotonic
  <2>5. checks' \in Seq([message : 1..Len(alerts'), at : Time, run : 0..run', verdict : Verdicts])
    BY <1>13, <2>4 DEF CheckRecord, Crash
  <2>6. /\ seen' \in Seq(Ids) /\ Len(seen') <= MaxSeen
        /\ last' \in [Services -> Entry] /\ raised' \in [Deployed -> Hold]
    BY <1>0, <1>13 DEF Crash, Entry, Hold
  <2> QED
    BY <1>13, <2>1, <2>5, <2>6 DEF Crash, TypeOK, HandOK, HasMessage, Pcs, Verdicts, Ids
<1>14. CASE Redeliver
  BY <1>0, <1>14, OrchestratorAssumption DEF Redeliver, TypeOK, HandOK, HasMessage
<1>15. CASE UNCHANGED vars
  BY <1>15 DEF vars, TypeOK, HandOK, HasMessage
<1> QED
  BY <1>1, <1>2, <1>3, <1>4, <1>5, <1>6, <1>7, <1>8, <1>9, <1>10, <1>11, <1>12,
     <1>13, <1>14, <1>15 DEF Next, Loop

\* Every variable keeps its type, and the filter never remembers more than
\* MaxSeen ids, for all incidents, services, limits and bounds.
THEOREM TypeCorrect == Spec => []TypeOK
<1>1. Init => TypeOK /\ HandOK
  BY InitTypeOK
<1>2. TypeOK /\ HandOK /\ [Next]_vars => TypeOK' /\ HandOK'
  BY NextTypeOK
<1> QED
  BY <1>1, <1>2, PTL DEF Spec

----------------------------------------------------------------------------
(* The HPA hold. *)

LEMMA NextOriginalKept ==
    TypeOK /\ HandOK /\ OriginalKept /\ [Next]_vars => OriginalKept'
<1> SUFFICES ASSUME TypeOK, HandOK, OriginalKept, [Next]_vars PROVE OriginalKept'
  OBVIOUS
<1> USE DEF topicVars, loopVars, filterVars, clientVars, clusterVars, historyVars
<1>0. BaseMin < ScaleUpMin /\ BaseMin \in Nat /\ ScaleUpMin \in Nat
  BY OrchestratorAssumption
<1>1. CASE UNCHANGED <<raised, hpa>>
  BY <1>1 DEF OriginalKept
<1>2. CASE RevertExpired
  <2>1. PICK answer \in [Deployed -> {"ok", "refused", "timeout"}] :
          /\ hpa' = [d \in Deployed |->
                       IF d \in {e \in Deployed : IsDue(e)} /\ answer[d] # "refused"
                       THEN raised[d].original ELSE hpa[d]]
          /\ raised' = [d \in Deployed |->
                          IF d \notin {e \in Deployed : IsDue(e)} THEN raised[d]
                          ELSE IF answer[d] = "ok" THEN None
                          ELSE [raised[d] EXCEPT !.revertAt = now + RevertRetry]]
    BY <1>2 DEF RevertExpired
  <2> SUFFICES ASSUME NEW d \in Deployed
               PROVE  /\ raised'[d] # None => raised'[d].original = BaseMin
                      /\ hpa'[d] \in {BaseMin, ScaleUpMin}
    BY DEF OriginalKept
  <2>2. /\ raised[d] # None => raised[d].original = BaseMin
        /\ hpa[d] \in {BaseMin, ScaleUpMin}
    BY DEF OriginalKept
  <2>3. raised[d] # None => raised[d] \in [original : Nat, revertAt : Nat]
    BY DEF TypeOK, Hold
  <2> QED
    BY <2>1, <2>2, <2>3 DEF IsDue
<1>3. CASE ExtendHold
  <2> DEFINE s == InHand.body.service
  <2>1. s \in Deployed /\ raised[s] # None
    BY <1>3 DEF ExtendHold, ScaleUpWanted
  <2>2. raised[s] \in [original : Nat, revertAt : Nat] /\ raised[s].original = BaseMin
    BY <2>1 DEF TypeOK, Hold, OriginalKept
  <2>3. /\ raised'[s].original = BaseMin
        /\ \A d \in Deployed \ {s} : raised'[d] = raised[d]
    BY <1>3, <2>1, <2>2 DEF ExtendHold, TypeOK
  <2> QED
    BY <1>3, <2>3 DEF ExtendHold, OriginalKept
<1>4. CASE ScaleUp
  <2> DEFINE s == InHand.body.service
  <2>1. s \in Deployed /\ hpa[s] = BaseMin
    BY <1>0, <1>4 DEF ScaleUp, ScaleUpWanted, OriginalKept
  <2>2. \A d \in Deployed : hpa'[d] \in {BaseMin, ScaleUpMin}
    BY <1>4, <2>1 DEF ScaleUp, OriginalKept, TypeOK
  <2>3. \A d \in Deployed : raised'[d] # None => raised'[d].original = BaseMin
    BY <1>4, <2>1 DEF ScaleUp, OriginalKept, TypeOK
  <2> QED
    BY <2>2, <2>3 DEF OriginalKept
<1>5. CASE Crash
  BY <1>5 DEF Crash, OriginalKept
<1> QED
  BY <1>1, <1>2, <1>3, <1>4, <1>5
     DEF Next, Loop, vars, Tick, Publish, Poll, SkipGarbage, Check, NoScaleUp,
         RollbackCanary, PostSlack, Commit, Redeliver

\* What a hold puts back is the minimum from before every incident, for all
\* outcomes of the API calls and all restarts.
THEOREM OriginalIsKept == Spec => []OriginalKept
<1>1. Init => TypeOK /\ HandOK /\ OriginalKept
  BY InitTypeOK DEF Init, OriginalKept
<1>2. TypeOK /\ HandOK /\ OriginalKept /\ [Next]_vars
        => TypeOK' /\ HandOK' /\ OriginalKept'
  BY NextTypeOK, NextOriginalKept
<1> QED
  BY <1>1, <1>2, PTL DEF Spec

----------------------------------------------------------------------------
(* The filter and its history. *)

\* The filter's memory changes in a judgement and is lost in a crash.
LEMMA StepKinds == [Next]_vars => Quiet \/ Check \/ Crash
  BY DEF Next, Loop, vars, Quiet, Tick, Publish, Poll, RevertExpired, SkipGarbage,
         NoScaleUp, ExtendHold, ScaleUp, RollbackCanary, PostSlack, Commit, Redeliver,
         topicVars, loopVars, filterVars, clientVars, clusterVars, historyVars

\* The topic only grows and the clock never goes back.
LEMMA TopicGrows ==
    ASSUME TypeOK, [Next]_vars
    PROVE  /\ Len(alerts) \in Nat /\ Len(alerts') \in Nat /\ Len(alerts) <= Len(alerts')
           /\ DOMAIN alerts = 1..Len(alerts) /\ DOMAIN alerts' = 1..Len(alerts')
           /\ \A i \in 1..Len(alerts) : alerts'[i] = alerts[i]
           /\ now \in Nat /\ now' \in Nat /\ now <= now'
<1> USE DEF topicVars, loopVars, filterVars, clientVars, clusterVars, historyVars
<1>1. alerts \in Seq(Message) /\ now \in Nat
  BY OrchestratorAssumption DEF TypeOK, Message, Time
<1>2. Len(alerts) \in Nat /\ DOMAIN alerts = 1..Len(alerts)
  BY <1>1, LenProperties
<1>3. \/ UNCHANGED <<alerts, now>>
      \/ Tick
      \/ \E body \in Incidents \cup {Garbage}, closedAt \in Time : Publish(body, closedAt)
  BY DEF Next, Loop, vars, Poll, RevertExpired, SkipGarbage, Check, NoScaleUp,
         ExtendHold, ScaleUp, RollbackCanary, PostSlack, Commit, Crash, Redeliver
<1>4. CASE UNCHANGED <<alerts, now>>
  BY <1>1, <1>2, <1>4
<1>5. CASE Tick
  BY <1>1, <1>2, <1>5 DEF Tick
<1>6. ASSUME NEW body \in Incidents \cup {Garbage}, NEW closedAt \in Time,
             Publish(body, closedAt)
      PROVE  /\ Len(alerts') = Len(alerts) + 1 /\ now' = now
             /\ DOMAIN alerts' = 1..(Len(alerts) + 1)
             /\ \A i \in 1..Len(alerts) : alerts'[i] = alerts[i]
  <2>1. [body |-> body, closedAt |-> closedAt] \in Message
    BY DEF Message
  <2> QED
    BY <1>1, <1>6, <2>1, AppendFacts DEF Publish
<1>7. CASE \E body \in Incidents \cup {Garbage}, closedAt \in Time : Publish(body, closedAt)
  <2>1. /\ Len(alerts') = Len(alerts) + 1 /\ now' = now
        /\ DOMAIN alerts' = 1..(Len(alerts) + 1)
        /\ \A i \in 1..Len(alerts) : alerts'[i] = alerts[i]
    BY <1>6, <1>7
  <2> QED
    BY <1>1, <1>2, <2>1
<1> QED
  BY <1>3, <1>4, <1>5, <1>7

\* What the history says of a judged message.
LEMMA ChecksFacts ==
    ASSUME TypeOK
    PROVE  /\ Len(checks) \in Nat /\ DOMAIN checks = 1..Len(checks)
           /\ \A n \in DOMAIN checks :
                 /\ checks[n] \in CheckRecord
                 /\ checks[n].message \in 1..Len(alerts)
                 /\ checks[n].at \in Nat /\ checks[n].run \in 0..run
<1>1. checks \in Seq(CheckRecord)
  BY DEF TypeOK, CheckRecord, Verdicts
<1>2. Len(checks) \in Nat /\ DOMAIN checks = 1..Len(checks)
  BY <1>1, LenProperties
<1>3. \A n \in DOMAIN checks : checks[n] \in CheckRecord
  BY <1>1, <1>2, ElementOfSeq
<1> QED
  BY <1>2, <1>3, OrchestratorAssumption DEF CheckRecord, Time

\* A judgement adds one entry to the history, about the message in hand.
LEMMA CheckFacts ==
    ASSUME TypeOK, HandOK, Check
    PROVE  LET N == Len(checks) + 1 IN
           /\ Len(checks') = N /\ DOMAIN checks' = 1..N
           /\ \A n \in DOMAIN checks : checks'[n] = checks[n]
           /\ checks'[N].message = position /\ checks'[N].verdict = FilterVerdict(InHand)
           /\ checks'[N].at = now /\ checks'[N].run = run
           /\ position \in DOMAIN alerts /\ InHand = alerts[position]
           /\ InHand.body \in Incidents
           /\ UNCHANGED <<alerts, now, run>>
<1>1. checks \in Seq(CheckRecord) /\ alerts \in Seq(Message)
  BY DEF TypeOK, CheckRecord, Verdicts, Message
<1>2. /\ position \in 1..Len(alerts)
      /\ InHand.body \in Incidents
      /\ FilterVerdict(InHand) \in Verdicts
  BY CheckType
<1>3. now \in Time /\ run \in 0..run
  BY OrchestratorAssumption DEF TypeOK
<1> DEFINE c == [message |-> position, verdict |-> FilterVerdict(InHand),
                 at |-> now, run |-> run]
<1>4. c \in CheckRecord
  BY <1>2, <1>3 DEF CheckRecord
<1>5. checks' = Append(checks, c)
  BY DEF Check
<1>6. UNCHANGED <<alerts, now, run>>
  BY DEF Check, topicVars
<1>7. position \in DOMAIN alerts
  BY <1>1, <1>2, LenProperties
<1> HIDE DEF c
<1>8. /\ Len(checks') = Len(checks) + 1
      /\ DOMAIN checks' = 1..(Len(checks) + 1)
      /\ \A n \in 1..Len(checks) : checks'[n] = checks[n]
      /\ checks'[Len(checks) + 1] = c
  BY <1>1, <1>4, <1>5, AppendFacts
<1> QED
  BY <1>2, <1>6, <1>7, <1>8, ChecksFacts DEF c, InHand

\* No step rewrites the history: old verdicts and their subjects stay.
LEMMA HistoryKept ==
    ASSUME TypeOK, HandOK, [Next]_vars
    PROVE  \A n \in DOMAIN checks :
              n \in DOMAIN checks' /\ checks'[n] = checks[n] /\ Subject(n)' = Subject(n)
<1> SUFFICES ASSUME NEW n \in DOMAIN checks
             PROVE  /\ n \in DOMAIN checks' /\ checks'[n] = checks[n]
                    /\ alerts'[checks'[n].message].body = alerts[checks[n].message].body
  BY DEF Subject
<1>1. n \in DOMAIN checks' /\ checks'[n] = checks[n]
  <2>1. CASE Quiet \/ Crash
    BY <2>1 DEF Quiet, Crash, historyVars
  <2>2. CASE Check
    BY <2>2, CheckFacts, ChecksFacts
  <2> QED
    BY <2>1, <2>2, StepKinds
<1> QED
  BY <1>1, TopicGrows, ChecksFacts

LEMMA PublishedOnceKept ==
    ASSUME TypeOK, PublishedOnce, [Next]_vars
    PROVE  PublishedOnce'
<1>0. alerts \in Seq(Message) /\ Len(alerts) \in Nat /\ DOMAIN alerts = 1..Len(alerts)
  BY LenProperties DEF TypeOK, Message
<1>1. CASE UNCHANGED alerts
  BY <1>1 DEF PublishedOnce
<1>2. ASSUME NEW body \in Incidents \cup {Garbage}, NEW closedAt \in Time,
             Publish(body, closedAt)
      PROVE  PublishedOnce'
  <2>1. [body |-> body, closedAt |-> closedAt] \in Message
    BY DEF Message
  <2>2. /\ DOMAIN alerts' = 1..(Len(alerts) + 1)
        /\ \A i \in 1..Len(alerts) : alerts'[i] = alerts[i]
        /\ alerts'[Len(alerts) + 1].body = body
    BY <1>0, <1>2, <2>1, AppendFacts DEF Publish
  <2>3. body # Garbage => \A n \in 1..Len(alerts) : alerts[n].body # body
    BY <1>0, <1>2 DEF Publish
  <2>4. \A i \in DOMAIN alerts' : i \in 1..Len(alerts) \/ i = Len(alerts) + 1
    BY <1>0, <2>2
  <2> QED
    BY <1>0, <2>2, <2>3, <2>4 DEF PublishedOnce
<1> QED
  BY <1>1, <1>2
     DEF Next, Loop, vars, Tick, Poll, RevertExpired, SkipGarbage, Check, NoScaleUp,
         ExtendHold, ScaleUp, RollbackCanary, PostSlack, Commit, Crash, Redeliver,
         topicVars

LEMMA NextHistoryOK ==
    ASSUME TypeOK, HandOK, HistoryOK, [Next]_vars
    PROVE  HistoryOK'
<1>1. PublishedOnce'
  BY PublishedOnceKept DEF HistoryOK
<1>2. ASSUME NEW n \in DOMAIN checks'
      PROVE  Subject(n)' \in Incidents /\ checks'[n].at <= now'
  <2>1. CASE n \in DOMAIN checks
    BY <2>1, HistoryKept, TopicGrows, ChecksFacts DEF HistoryOK
  <2>2. CASE n \notin DOMAIN checks
    <3>1. Check
      BY <2>2, StepKinds DEF Quiet, Crash, historyVars
    <3>2. n = Len(checks) + 1
      BY <1>2, <2>2, <3>1, CheckFacts, ChecksFacts
    <3> QED
      BY <3>1, <3>2, CheckFacts, TopicGrows DEF Subject
  <2> QED
    BY <2>1, <2>2
<1> QED
  BY <1>1, <1>2 DEF HistoryOK

\* No verdict is of the process that starts after a crash.
LEMMA CrashFacts ==
    ASSUME TypeOK, Crash
    PROVE  /\ \A n \in DOMAIN checks' : ~IsCurrent(n)'
           /\ DOMAIN seen' = {}
           /\ \A s \in Services : last'[s] = None
<1>1. run' = run + 1 /\ checks' = checks /\ run \in Nat
  BY OrchestratorAssumption DEF Crash, historyVars, TypeOK
<1>2. \A n \in DOMAIN checks : checks[n].run \in 0..run
  BY ChecksFacts
<1>3. \A n \in DOMAIN checks : checks[n].run # run'
  BY <1>1, <1>2
<1>4. \A n \in DOMAIN checks' : ~IsCurrent(n)'
  BY <1>1, <1>3 DEF IsCurrent
<1>5. seen' = <<>> /\ \A s \in Services : last'[s] = None
  BY DEF Crash
<1> QED
  BY <1>4, <1>5

\* A verdict of the running process stays one until it crashes.
LEMMA CurrentKept ==
    ASSUME TypeOK, HandOK, [Next]_vars, ~Crash
    PROVE  /\ run' = run
           /\ \A n \in DOMAIN checks :
                 /\ n \in DOMAIN checks' /\ checks'[n] = checks[n]
                 /\ Subject(n)' = Subject(n)
                 /\ IsCurrent(n)' <=> IsCurrent(n)
                 /\ n \in Acts' <=> n \in Acts
<1>1. run' = run
  BY StepKinds, CheckFacts DEF Quiet
<1>2. \A n \in DOMAIN checks : n \in DOMAIN checks' /\ checks'[n] = checks[n]
  BY HistoryKept
<1>3. \A n \in DOMAIN checks : IsCurrent(n)' <=> IsCurrent(n)
  BY <1>1, <1>2 DEF IsCurrent
<1>4. \A n \in DOMAIN checks : n \in Acts' <=> n \in Acts
  BY <1>2 DEF Acts
<1> QED
  BY <1>1, <1>2, <1>3, <1>4, HistoryKept

\* The latest judgement is of the process that runs, about the message in hand.
LEMMA Latest ==
    ASSUME TypeOK, HandOK, HistoryOK, Check
    PROVE  \E N \in DOMAIN checks' :
              /\ N = Len(checks) + 1 /\ N \notin DOMAIN checks
              /\ \A n \in DOMAIN checks' : n \in DOMAIN checks \/ n = N
              /\ checks'[N].message = position /\ checks'[N].at = now
              /\ checks'[N].verdict = FilterVerdict(InHand)
              /\ IsCurrent(N)'
              /\ Subject(N)' = InHand.body
              /\ N \in Acts' <=> FilterVerdict(InHand) = "act"
<1>1. /\ Len(checks) \in Nat /\ DOMAIN checks = 1..Len(checks)
      /\ DOMAIN checks' = 1..(Len(checks) + 1)
  BY CheckFacts, ChecksFacts
<1>2. PICK N \in DOMAIN checks' : N = Len(checks) + 1
  BY <1>1
<1>3. N \notin DOMAIN checks /\ \A n \in DOMAIN checks' : n \in DOMAIN checks \/ n = N
  BY <1>1, <1>2
<1>4. /\ checks'[N].message = position /\ checks'[N].at = now
      /\ checks'[N].verdict = FilterVerdict(InHand) /\ checks'[N].run = run
      /\ alerts' = alerts /\ run' = run /\ InHand = alerts[position]
  BY <1>2, CheckFacts
<1>5. IsCurrent(N)' /\ Subject(N)' = InHand.body
  BY <1>4 DEF IsCurrent, Subject
<1>6. N \in Acts' <=> FilterVerdict(InHand) = "act"
  BY <1>4 DEF Acts
<1> QED
  BY <1>2, <1>3, <1>4, <1>5, <1>6

LEMMA NextSeenJudged ==
    ASSUME TypeOK, HandOK, FilterInv, [Next]_vars
    PROVE  SeenJudged'
<1>1. CASE Crash
  BY <1>1, CrashFacts DEF SeenJudged
<1>2. CASE ~Crash /\ Quiet
  <2>1. seen' = seen /\ DOMAIN checks' = DOMAIN checks
    BY <1>2 DEF Quiet
  <2> QED
    BY <1>2, <2>1, CurrentKept DEF SeenJudged, FilterInv
<1>3. CASE ~Crash /\ Check
  <2>1. PICK N \in DOMAIN checks' : IsCurrent(N)' /\ Subject(N)' = InHand.body
    BY <1>3, Latest DEF FilterInv
  <2>2. \A k \in DOMAIN seen' :
           \/ seen'[k] = InHand.body.id
           \/ \E m \in DOMAIN seen : seen'[k] = seen[m]
    <3>1. CASE seen' = seen
      BY <3>1
    <3>2. CASE seen' = Remember(InHand.body.id)
      <4>1. seen \in Seq(Ids) /\ Len(seen) <= MaxSeen
        BY DEF TypeOK, Ids
      <4>2. InHand.body.id \in Ids
        BY <1>3, CheckType DEF Ids
      <4> QED
        BY <3>2, <4>1, <4>2, RememberFacts
    <3> QED
      BY <1>3, <3>1, <3>2 DEF Check
  <2>3. \A k \in DOMAIN seen :
           \E m \in DOMAIN checks' : IsCurrent(m)' /\ Subject(m)'.id = seen[k]
    <3> TAKE k \in DOMAIN seen
    <3>1. PICK m \in DOMAIN checks : IsCurrent(m) /\ Subject(m).id = seen[k]
      BY DEF FilterInv, SeenJudged
    <3> QED
      BY <1>3, <3>1, CurrentKept
  <2>4. \A k \in DOMAIN seen' :
           \E m \in DOMAIN checks' : IsCurrent(m)' /\ Subject(m)'.id = seen'[k]
    BY <2>1, <2>2, <2>3
  <2> QED
    BY <2>4 DEF SeenJudged
<1> QED
  BY <1>1, <1>2, <1>3, StepKinds

LEMMA NextLastIsAct ==
    ASSUME TypeOK, HandOK, FilterInv, [Next]_vars
    PROVE  LastIsAct'
<1>1. CASE Crash
  BY <1>1, CrashFacts DEF LastIsAct
<1>2. ASSUME ~Crash, NEW s \in Services, last'[s] = last[s], last[s] # None
      PROVE  \E m \in Acts' :
                /\ IsCurrent(m)' /\ Subject(m)'.service = s
                /\ checks'[m].at = last'[s].at /\ Subject(m)'.severity = last'[s].severity
  <2>1. PICK m \in Acts :
           /\ IsCurrent(m) /\ Subject(m).service = s
           /\ checks[m].at = last[s].at /\ Subject(m).severity = last[s].severity
    BY <1>2 DEF FilterInv, LastIsAct
  <2>2. m \in DOMAIN checks
    BY DEF Acts
  <2> QED
    BY <1>2, <2>1, <2>2, CurrentKept
<1>3. CASE ~Crash /\ Quiet
  BY <1>2, <1>3 DEF LastIsAct, Quiet
<1>4. CASE ~Crash /\ Check
  <2> SUFFICES ASSUME NEW s \in Services, last'[s] # None
               PROVE  \E m \in Acts' :
                        /\ IsCurrent(m)' /\ Subject(m)'.service = s
                        /\ checks'[m].at = last'[s].at
                        /\ Subject(m)'.severity = last'[s].severity
    BY DEF LastIsAct
  <2>1. CASE last'[s] = last[s]
    BY <1>2, <1>4, <2>1
  <2>2. CASE last'[s] # last[s]
    <3>1. /\ FilterVerdict(InHand) = "act" /\ s = InHand.body.service
          /\ last'[s].at = now /\ last'[s].severity = InHand.body.severity
      BY <1>4, <2>2 DEF Check, TypeOK
    <3>2. PICK N \in DOMAIN checks' :
             /\ N \in Acts' /\ IsCurrent(N)' /\ Subject(N)' = InHand.body
             /\ checks'[N].at = now
      BY <1>4, <3>1, Latest DEF FilterInv
    <3> QED
      BY <3>1, <3>2
  <2> QED
    BY <2>1, <2>2
<1> QED
  BY <1>1, <1>3, <1>4, StepKinds

\* The filter acts again on a service within the cooldown only to escalate.
LEMMA ActEscalates ==
    ASSUME TypeOK, HandOK, FilterInv, Check, FilterVerdict(InHand) = "act",
           NEW m \in Acts, IsCurrent(m), Subject(m).service = InHand.body.service,
           now - checks[m].at < Cooldown
    PROVE  InHand.body.severity > Subject(m).severity
<1> DEFINE l == last[InHand.body.service]
<1>1. m \in DOMAIN checks /\ InHand.body \in Incidents
  BY CheckFacts DEF Acts
<1>2. /\ l # None /\ checks[m].at <= l.at
      /\ l.at - checks[m].at < Cooldown => Subject(m).severity <= l.severity
  BY <1>1 DEF FilterInv, LastCovers
<1>3. l \in [at : Time, severity : Nat] /\ InHand.body.service \in Services
  BY <1>1, <1>2, OrchestratorAssumption DEF TypeOK, Entry
<1>4. l.at <= now
  BY <1>2, <1>3 DEF FilterInv, LastIsAct, HistoryOK, Acts
<1>5. /\ checks[m].at \in Nat /\ l.at \in Nat /\ now \in Nat /\ Cooldown \in Nat
      /\ l.severity \in Nat /\ Subject(m).severity \in Nat /\ InHand.body.severity \in Nat
  <2>1. checks[m].at \in Nat
    BY <1>1, ChecksFacts
  <2>2. Subject(m) \in Incidents
    BY <1>1 DEF FilterInv, HistoryOK
  <2>3. Subject(m).severity \in Nat /\ InHand.body.severity \in Nat /\ Cooldown \in Nat
    BY <1>1, <2>2, OrchestratorAssumption
  <2>4. Time \subseteq Nat /\ now \in Time
    BY OrchestratorAssumption DEF TypeOK, Time
  <2>5. l.at \in Time /\ l.severity \in Nat
    BY <1>3
  <2> QED
    BY <2>1, <2>3, <2>4, <2>5
<1>6. ~InCooldown(InHand.body)
  BY DEF FilterVerdict
<1>7. ~(now - l.at < Cooldown /\ InHand.body.severity <= l.severity)
  BY <1>2, <1>6 DEF InCooldown
<1> HIDE DEF l
<1> QED
  BY <1>2, <1>4, <1>5, <1>7

LEMMA NextLastCovers ==
    ASSUME TypeOK, HandOK, FilterInv, [Next]_vars
    PROVE  LastCovers'
<1> SUFFICES ASSUME NEW n \in Acts', IsCurrent(n)'
             PROVE  LET l == last'[Subject(n)'.service]
                    IN  /\ l # None
                        /\ checks'[n].at <= l.at
                        /\ l.at - checks'[n].at < Cooldown
                              => Subject(n)'.severity <= l.severity
  BY DEF LastCovers
<1>0. n \in DOMAIN checks'
  BY DEF Acts
<1>1. ~Crash
  BY <1>0, CrashFacts
<1> DEFINE s == Subject(n)'.service
<1>2. CASE n \in DOMAIN checks /\ last'[s] = last[s]
  <2>1. n \in Acts /\ IsCurrent(n) /\ Subject(n)' = Subject(n) /\ checks'[n] = checks[n]
    BY <1>1, <1>2, CurrentKept
  <2> QED
    BY <1>2, <2>1 DEF FilterInv, LastCovers
<1>3. CASE n \in DOMAIN checks /\ last'[s] # last[s]
  <2>1. n \in Acts /\ IsCurrent(n) /\ Subject(n)' = Subject(n) /\ checks'[n] = checks[n]
    BY <1>1, <1>3, CurrentKept
  <2>2. Check
    BY <1>1, <1>3, StepKinds DEF Quiet
  <2>3. Subject(n).service \in Services /\ Subject(n).severity \in Nat
    BY <1>3, OrchestratorAssumption DEF FilterInv, HistoryOK
  <2>4. /\ FilterVerdict(InHand) = "act" /\ s = InHand.body.service
        /\ last'[s] = [at |-> now, severity |-> InHand.body.severity]
    BY <1>3, <2>1, <2>2, <2>3 DEF Check, TypeOK
  <2>5. InHand.body \in Incidents /\ now \in Nat
    BY <2>2, CheckFacts, TopicGrows, OrchestratorAssumption
  <2>6. checks[n].at <= now /\ InHand.body.severity \in Nat
    BY <1>3, <2>5, OrchestratorAssumption DEF FilterInv, HistoryOK
  <2>0. last'[s] # None
    BY <2>4, <2>5, <2>6, OrchestratorAssumption
  <2>7. now - checks[n].at < Cooldown => InHand.body.severity > Subject(n).severity
    BY <2>1, <2>2, <2>4, ActEscalates
  <2>8. now - checks[n].at < Cooldown => Subject(n).severity <= InHand.body.severity
    BY <2>3, <2>6, <2>7
  <2>9. last'[s].at = now /\ last'[s].severity = InHand.body.severity
    BY <2>4
  <2> QED
    BY <2>0, <2>1, <2>6, <2>8, <2>9
<1>4. CASE n \notin DOMAIN checks
  <2>1. Check
    BY <1>0, <1>1, <1>4, StepKinds DEF Quiet
  <2>2. /\ Subject(n)' = InHand.body /\ FilterVerdict(InHand) = "act"
        /\ checks'[n].at = now
    BY <1>0, <1>4, <2>1, Latest DEF FilterInv
  <2>3. InHand.body \in Incidents
    BY <2>1, CheckFacts
  <2>4. last'[s] = [at |-> now, severity |-> InHand.body.severity]
    BY <2>1, <2>2, <2>3, OrchestratorAssumption DEF Check, TypeOK
  <2>5. now \in Nat /\ InHand.body.severity \in Nat
    BY <2>3, TopicGrows, OrchestratorAssumption
  <2>6. last'[s] # None /\ last'[s].at = now /\ last'[s].severity = InHand.body.severity
    BY <2>4, <2>5, OrchestratorAssumption
  <2> QED
    BY <2>2, <2>5, <2>6
<1> QED
  BY <1>2, <1>3, <1>4

LEMMA NextFilterInv ==
    TypeOK /\ HandOK /\ FilterInv /\ [Next]_vars => FilterInv'
<1>1. TypeOK /\ HandOK /\ FilterInv /\ [Next]_vars =>
         HistoryOK' /\ SeenJudged' /\ LastIsAct' /\ LastCovers'
  BY NextHistoryOK, NextSeenJudged, NextLastIsAct, NextLastCovers DEF FilterInv
<1> QED
  BY <1>1 DEF FilterInv

LEMMA InitFilterInv == Init => FilterInv
  BY DEF Init, FilterInv, HistoryOK, PublishedOnce, SeenJudged, LastIsAct, LastCovers, Acts

----------------------------------------------------------------------------
(* What the filter promises. *)

LEMMA NextCooldownRespected ==
    TypeOK /\ HandOK /\ FilterInv /\ CooldownRespected /\ [Next]_vars => CooldownRespected'
<1> SUFFICES ASSUME TypeOK, HandOK, FilterInv, CooldownRespected, [Next]_vars,
                    NEW n \in Acts', NEW m \in Acts', SameRun(m, n)',
                    Subject(m)'.service = Subject(n)'.service,
                    checks'[n].at - checks'[m].at < Cooldown
             PROVE  Subject(n)'.severity > Subject(m)'.severity
  BY DEF CooldownRespected
<1>1. n \in DOMAIN checks' /\ m \in DOMAIN checks' /\ m < n
  BY DEF Acts, SameRun
<1>2. CASE n \in DOMAIN checks
  <2>1. m \in DOMAIN checks
    <3>1. DOMAIN checks = 1..Len(checks) /\ Len(checks) \in Nat
      BY ChecksFacts
    <3>2. \A k \in DOMAIN checks' : k \in Nat /\ k >= 1
      BY NextTypeOK, ChecksFacts, <3>1, StepKinds, CheckFacts
         DEF Quiet, Crash, historyVars
    <3> QED
      BY <1>1, <1>2, <3>1, <3>2
  <2>2. /\ n \in Acts /\ m \in Acts /\ SameRun(m, n)
        /\ checks'[n] = checks[n] /\ checks'[m] = checks[m]
        /\ Subject(n)' = Subject(n) /\ Subject(m)' = Subject(m)
    BY <1>2, <2>1, HistoryKept DEF Acts, SameRun
  <2> QED
    BY <2>2 DEF CooldownRespected
<1>3. CASE n \notin DOMAIN checks
  <2>1. Check
    BY <1>1, <1>3, StepKinds DEF Quiet, Crash, historyVars
  <2>2. PICK N \in DOMAIN checks' :
          /\ \A k \in DOMAIN checks' : k \in DOMAIN checks \/ k = N
          /\ N = Len(checks) + 1 /\ checks'[N].at = now
          /\ IsCurrent(N)' /\ Subject(N)' = InHand.body
          /\ N \in Acts' <=> FilterVerdict(InHand) = "act"
    BY <2>1, Latest DEF FilterInv
  <2>3. n = N
    BY <1>1, <1>3, <2>2
  <2>4. m \in DOMAIN checks
    BY <1>1, <2>2, <2>3, ChecksFacts
  <2>5. checks'[m] = checks[m] /\ Subject(m)' = Subject(m) /\ m \in Acts
    BY <2>4, HistoryKept DEF Acts
  <2>6. run' = run
    BY <2>1, CheckFacts
  <2>7. IsCurrent(m)
    BY <2>2, <2>3, <2>4, <2>5, <2>6 DEF SameRun, IsCurrent
  <2> QED
    BY <2>1, <2>2, <2>3, <2>5, <2>7, ActEscalates
<1> QED
  BY <1>2, <1>3

\* A duplicate is the second delivery, to one process, of one message.
LEMMA DuplicateWasJudged ==
    ASSUME TypeOK, HandOK, FilterInv, Check, FilterVerdict(InHand) = "duplicate"
    PROVE  \E m \in DOMAIN checks : IsCurrent(m) /\ checks[m].message = position
<1>1. \E k \in DOMAIN seen : seen[k] = InHand.body.id
  BY DEF FilterVerdict, IsDuplicate
<1>2. PICK m \in DOMAIN checks : IsCurrent(m) /\ Subject(m).id = InHand.body.id
  BY <1>1 DEF FilterInv, SeenJudged
<1>3. Subject(m) \in Incidents /\ InHand.body \in Incidents
  BY CheckFacts DEF FilterInv, HistoryOK
<1>4. Subject(m) = InHand.body
  BY <1>2, <1>3, OrchestratorAssumption
<1>5. /\ alerts[checks[m].message].body = alerts[position].body
      /\ alerts[position].body # Garbage
      /\ position \in DOMAIN alerts /\ checks[m].message \in DOMAIN alerts
  <2>1. alerts \in Seq(Message) /\ DOMAIN alerts = 1..Len(alerts)
    BY LenProperties DEF TypeOK, Message
  <2> QED
    BY <1>3, <1>4, <2>1, CheckFacts, ChecksFacts, OrchestratorAssumption DEF Subject
<1>6. checks[m].message = position
  BY <1>5 DEF FilterInv, HistoryOK, PublishedOnce
<1> QED
  BY <1>2, <1>6

LEMMA NextSkipsJustified ==
    TypeOK /\ HandOK /\ FilterInv /\ SkipsJustified /\ [Next]_vars => SkipsJustified'
<1> SUFFICES ASSUME TypeOK, HandOK, FilterInv, SkipsJustified, [Next]_vars,
                    NEW n \in DOMAIN checks'
             PROVE
        /\ checks'[n].verdict = "duplicate" =>
             \E m \in DOMAIN checks' :
                SameRun(m, n)' /\ checks'[m].message = checks'[n].message
        /\ checks'[n].verdict = "stale" =>
             checks'[n].at - alerts'[checks'[n].message].closedAt > MaxAge
        /\ checks'[n].verdict = "cooldown" =>
             \E m \in Acts' :
                /\ SameRun(m, n)'
                /\ Subject(m)'.service = Subject(n)'.service
                /\ checks'[n].at - checks'[m].at < Cooldown
                /\ Subject(n)'.severity <= Subject(m)'.severity
  BY DEF SkipsJustified
<1>0. \A m \in DOMAIN checks :
         /\ m \in DOMAIN checks' /\ checks'[m] = checks[m] /\ Subject(m)' = Subject(m)
         /\ m \in Acts => m \in Acts'
  BY HistoryKept DEF Acts
<1>1. CASE n \in DOMAIN checks
  <2>1. \A m \in DOMAIN checks : SameRun(m, n) => SameRun(m, n)'
    BY <1>0, <1>1 DEF SameRun
  <2>2. checks[n].verdict = "duplicate" =>
          \E m \in DOMAIN checks : SameRun(m, n) /\ checks[m].message = checks[n].message
    BY <1>1 DEF SkipsJustified
  <2>3. checks'[n].verdict = "duplicate" =>
          \E m \in DOMAIN checks' :
             SameRun(m, n)' /\ checks'[m].message = checks'[n].message
    BY <1>0, <1>1, <2>1, <2>2
  <2>4. checks'[n].verdict = "stale" =>
          checks'[n].at - alerts'[checks'[n].message].closedAt > MaxAge
    BY <1>0, <1>1, ChecksFacts, TopicGrows DEF SkipsJustified
  <2>5. ASSUME checks'[n].verdict = "cooldown"
        PROVE  \E m \in Acts' :
                  /\ SameRun(m, n)'
                  /\ Subject(m)'.service = Subject(n)'.service
                  /\ checks'[n].at - checks'[m].at < Cooldown
                  /\ Subject(n)'.severity <= Subject(m)'.severity
    <3>1. PICK m \in Acts :
             /\ SameRun(m, n)
             /\ Subject(m).service = Subject(n).service
             /\ checks[n].at - checks[m].at < Cooldown
             /\ Subject(n).severity <= Subject(m).severity
      BY <1>0, <1>1, <2>5 DEF SkipsJustified
    <3>2. m \in DOMAIN checks
      BY DEF Acts
    <3> QED
      BY <1>0, <1>1, <2>1, <3>1, <3>2
  <2> QED
    BY <2>3, <2>4, <2>5
<1>2. CASE n \notin DOMAIN checks
  <2>1. Check
    BY <1>2, StepKinds DEF Quiet, Crash, historyVars
  <2>2. /\ n = Len(checks) + 1 /\ checks'[n].at = now /\ checks'[n].message = position
        /\ checks'[n].verdict = FilterVerdict(InHand)
        /\ IsCurrent(n)' /\ Subject(n)' = InHand.body
    BY <1>2, <2>1, Latest DEF FilterInv
  <2>3. \A m \in DOMAIN checks : IsCurrent(m) => SameRun(m, n)'
    <3>1. run' = run
      BY <2>1, CheckFacts
    <3>2. \A m \in DOMAIN checks : m < n
      BY <2>2, ChecksFacts
    <3> QED
      BY <1>0, <2>2, <3>1, <3>2 DEF SameRun, IsCurrent
  <2>4. ASSUME checks'[n].verdict = "duplicate"
        PROVE  \E m \in DOMAIN checks' :
                  SameRun(m, n)' /\ checks'[m].message = checks'[n].message
    <3>1. PICK m \in DOMAIN checks : IsCurrent(m) /\ checks[m].message = position
      BY <2>1, <2>2, <2>4, DuplicateWasJudged
    <3> QED
      BY <1>0, <2>2, <2>3, <3>1
  <2>5. ASSUME checks'[n].verdict = "stale"
        PROVE  checks'[n].at - alerts'[checks'[n].message].closedAt > MaxAge
    <3>1. IsStale(InHand)
      BY <2>2, <2>5 DEF FilterVerdict
    <3>2. alerts' = alerts /\ InHand = alerts[position]
      BY <2>1, CheckFacts
    <3> QED
      BY <2>2, <3>1, <3>2 DEF IsStale
  <2>6. ASSUME checks'[n].verdict = "cooldown"
        PROVE  \E m \in Acts' :
                  /\ SameRun(m, n)'
                  /\ Subject(m)'.service = Subject(n)'.service
                  /\ checks'[n].at - checks'[m].at < Cooldown
                  /\ Subject(n)'.severity <= Subject(m)'.severity
    <3> DEFINE l == last[InHand.body.service]
    <3>1. InCooldown(InHand.body)
      BY <2>2, <2>6 DEF FilterVerdict
    <3>2. l # None /\ now - l.at < Cooldown /\ InHand.body.severity <= l.severity
      BY <3>1 DEF InCooldown
    <3>3. InHand.body.service \in Services
      BY <2>1, CheckFacts, OrchestratorAssumption
    <3>4. PICK m \in Acts :
             /\ IsCurrent(m)
             /\ Subject(m).service = InHand.body.service
             /\ checks[m].at = l.at
             /\ Subject(m).severity = l.severity
      BY <3>2, <3>3 DEF FilterInv, LastIsAct
    <3>5. m \in DOMAIN checks
      BY DEF Acts
    <3> HIDE DEF l
    <3> QED
      BY <1>0, <2>2, <2>3, <3>2, <3>4, <3>5
  <2> QED
    BY <2>4, <2>5, <2>6
<1> QED
  BY <1>1, <1>2

\* One process acts twice on a service within the cooldown only to escalate,
\* whatever is redelivered, lost or delayed.
THEOREM CooldownIsRespected == Spec => []CooldownRespected
<1>1. Init => TypeOK /\ HandOK /\ FilterInv /\ CooldownRespected
  BY InitTypeOK, InitFilterInv DEF Init, CooldownRespected, Acts
<1>2. TypeOK /\ HandOK /\ FilterInv /\ CooldownRespected /\ [Next]_vars
        => TypeOK' /\ HandOK' /\ FilterInv' /\ CooldownRespected'
  BY NextTypeOK, NextFilterInv, NextCooldownRespected
<1> QED
  BY <1>1, <1>2, PTL DEF Spec

\* No incident is suppressed without its reason in the history.
THEOREM SkipsAreJustified == Spec => []SkipsJustified
<1>1. Init => TypeOK /\ HandOK /\ FilterInv /\ SkipsJustified
  BY InitTypeOK, InitFilterInv DEF Init, SkipsJustified
<1>2. TypeOK /\ HandOK /\ FilterInv /\ SkipsJustified /\ [Next]_vars
        => TypeOK' /\ HandOK' /\ FilterInv' /\ SkipsJustified'
  BY NextTypeOK, NextFilterInv, NextSkipsJustified
<1> QED
  BY <1>1, <1>2, PTL DEF Spec

----------------------------------------------------------------------------
(* At-least-once delivery. *)

\* What was judged once stays judged.
LEMMA JudgedKept ==
    ASSUME TypeOK, HandOK, [Next]_vars, NEW i \in 1..Len(alerts), Judged(i)
    PROVE  Judged(i)'
<1>1. alerts'[i] = alerts[i]
  BY TopicGrows
<1>2. \A n \in DOMAIN checks : n \in DOMAIN checks' /\ checks'[n] = checks[n]
  BY HistoryKept
<1> QED
  BY <1>1, <1>2 DEF Judged

LEMMA NextJudged ==
    TypeOK /\ HandOK /\ ReadWasJudged /\ JudgedBeforeCommit /\ [Next]_vars
        => ReadWasJudged' /\ JudgedBeforeCommit'
<1> SUFFICES ASSUME TypeOK, HandOK, ReadWasJudged, JudgedBeforeCommit, [Next]_vars
             PROVE  /\ \A i \in 1..position' :
                         i < position' \/ pc' \notin {"revert", "check"} => Judged(i)'
                    /\ \A i \in 1..committed' : Judged(i)'
  BY DEF ReadWasJudged, JudgedBeforeCommit, Judged
<1> USE DEF topicVars, loopVars
<1>0. /\ position \in 0..Len(alerts) /\ committed \in 0..Len(alerts)
      /\ Len(alerts) \in Nat
  BY TopicGrows DEF TypeOK
<1>1. \A i \in 1..committed : Judged(i)'
  <2>1. \A i \in 1..committed : i \in 1..Len(alerts) /\ Judged(i)
    BY <1>0 DEF JudgedBeforeCommit, Judged
  <2> QED
    BY <2>1, JudgedKept
<1>2. \A i \in 1..position :
         i < position \/ pc \notin {"revert", "check"} => Judged(i)'
  <2>1. \A i \in 1..position : i \in 1..Len(alerts)
    BY <1>0
  <2> QED
    BY <2>1, JudgedKept DEF ReadWasJudged
<1>3. CASE position' = position /\ committed' = committed
           /\ (pc' \notin {"revert", "check"} => pc \notin {"revert", "check"})
  BY <1>1, <1>2, <1>3
<1>4. CASE Poll
  <2>1. pc \notin {"revert", "check"} /\ committed' = committed
    BY <1>4 DEF Poll
  <2>2. \/ position' = position + 1 /\ pc' = "revert"
        \/ position' = position
    BY <1>4 DEF Poll
  <2>3. \A i \in 1..position' :
           i < position' \/ pc' \notin {"revert", "check"} => i \in 1..position
    BY <1>0, <2>2
  <2> QED
    BY <1>1, <1>2, <2>1, <2>3
<1>5. CASE RevertExpired
  <2>1. /\ position' = position /\ committed' = committed
        /\ \/ pc = "revert" /\ pc' = "check"
           \/ pc = "revert idle" /\ pc' = "poll"
    BY <1>5 DEF RevertExpired
  <2> QED
    BY <1>1, <1>2, <2>1
<1>6. CASE SkipGarbage \/ Check
  <2>1. Judged(position)'
    <3>1. CASE SkipGarbage
      <4>1. alerts' = alerts /\ position' = position /\ alerts[position].body = Garbage
        BY <3>1 DEF SkipGarbage, InHand
      <4> QED
        BY <4>1 DEF Judged
    <3>2. CASE Check
      <4>1. Len(checks) + 1 \in DOMAIN checks' /\ checks'[Len(checks) + 1].message = position
        BY <3>2, CheckFacts, ChecksFacts
      <4>2. position' = position
        BY <3>2 DEF Check
      <4> QED
        BY <4>1, <4>2 DEF Judged
    <3> QED
      BY <1>6, <3>1, <3>2
  <2>2. position' = position /\ committed' = committed
    BY <1>6 DEF SkipGarbage, Check
  <2>3. \A i \in 1..position : i < position \/ i = position
    BY <1>0
  <2>4. \A i \in 1..position : i = position => Judged(i)'
    BY <2>1, <2>2 DEF Judged
  <2> QED
    BY <1>1, <1>2, <2>2, <2>3, <2>4
<1>7. CASE Commit
  <2>1. position' = position /\ committed' = position /\ pc = "commit"
    BY <1>7 DEF Commit
  <2> QED
    BY <1>2, <2>1
<1>8. CASE Crash
  <2>1. position' = committed /\ committed' = committed
    BY <1>8 DEF Crash
  <2> QED
    BY <1>1, <2>1
<1>9. CASE Redeliver
  <2>1. /\ position' \in 0..(position - 1) /\ committed' = committed
        /\ pc \notin {"revert", "check"}
    BY <1>9 DEF Redeliver
  <2>2. \A i \in 1..position' : i \in 1..position
    BY <1>0, <2>1
  <2> QED
    BY <1>1, <1>2, <2>1, <2>2
<1> QED
  BY <1>3, <1>4, <1>5, <1>6, <1>7, <1>8, <1>9
     DEF Next, Loop, vars, Tick, Publish, NoScaleUp, ExtendHold, ScaleUp,
         RollbackCanary, PostSlack

\* A message is behind the committed offset only if the filter has judged it,
\* for every interleaving of crashes, redeliveries and publications.
THEOREM CommittedWasJudged == Spec => []JudgedBeforeCommit
<1>1. Init => TypeOK /\ HandOK /\ ReadWasJudged /\ JudgedBeforeCommit
  BY InitTypeOK DEF Init, ReadWasJudged, JudgedBeforeCommit
<1>2. TypeOK /\ HandOK /\ ReadWasJudged /\ JudgedBeforeCommit /\ [Next]_vars
        => TypeOK' /\ HandOK' /\ ReadWasJudged' /\ JudgedBeforeCommit'
  BY NextTypeOK, NextJudged
<1> QED
  BY <1>1, <1>2, PTL DEF Spec

----------------------------------------------------------------------------
(* The filter's memory. *)

\* The new id takes the last place; when the memory is full, all others move up.
LEMMA RememberPlaces ==
    ASSUME seen \in Seq(Ids), Len(seen) <= MaxSeen, NEW id \in Ids
    PROVE  \/ /\ Len(Remember(id)) = Len(seen) + 1
              /\ DOMAIN Remember(id) = 1..(Len(seen) + 1)
              /\ \A k \in 1..Len(seen) : Remember(id)[k] = seen[k]
              /\ Remember(id)[Len(seen) + 1] = id
           \/ /\ Len(seen) = MaxSeen /\ Len(Remember(id)) = MaxSeen
              /\ DOMAIN Remember(id) = 1..MaxSeen
              /\ \A k \in 1..MaxSeen : k + 1 <= MaxSeen => Remember(id)[k] = seen[k + 1]
              /\ MaxSeen > 0 => Remember(id)[MaxSeen] = id
<1> DEFINE s == Append(seen, id)
<1>1. /\ s \in Seq(Ids) /\ Len(s) = Len(seen) + 1 /\ Len(seen) \in Nat
      /\ DOMAIN seen = 1 .. Len(seen) /\ DOMAIN s = 1 .. (Len(seen) + 1)
      /\ \A i \in 1 .. Len(seen) : s[i] = seen[i]
      /\ s[Len(seen) + 1] = id
  BY AppendFacts
<1>2. MaxSeen \in Nat
  BY OrchestratorAssumption
<1>3. CASE Len(s) > MaxSeen
  <2>1. Remember(id) = Tail(s) /\ Len(seen) = MaxSeen
    BY <1>1, <1>2, <1>3 DEF Remember
  <2>2. /\ Len(Tail(s)) = MaxSeen /\ DOMAIN Tail(s) = 1 .. MaxSeen
        /\ \A i \in 1 .. MaxSeen : Tail(s)[i] = s[i + 1]
    BY <1>1, <2>1
  <2>3. \A k \in 1 .. MaxSeen : k + 1 <= MaxSeen => Tail(s)[k] = seen[k + 1]
    BY <1>1, <1>2, <2>1, <2>2
  <2>4. MaxSeen > 0 => Tail(s)[MaxSeen] = id
    BY <1>1, <1>2, <2>1, <2>2
  <2> QED
    BY <2>1, <2>2, <2>3, <2>4
<1>4. CASE ~(Len(s) > MaxSeen)
  <2>1. Remember(id) = s
    BY <1>4 DEF Remember
  <2> QED
    BY <1>1, <2>1
<1> QED
  BY <1>3, <1>4

LEMMA NewSinceFacts ==
    ASSUME TypeOK, NEW n \in DOMAIN checks
    PROVE  IsFiniteSet(NewSince(n)) /\ Cardinality(NewSince(n)) \in Nat
<1>1. Len(checks) \in Nat /\ n + 1 \in Nat
  BY ChecksFacts
<1>2. IsFiniteSet((n + 1)..Len(checks))
  BY <1>1, FS_Interval
<1>3. NewSince(n) \subseteq (n + 1)..Len(checks)
  BY DEF NewSince
<1> QED
  BY <1>2, <1>3, FS_Subset, FS_CardinalityType

\* A judgement is counted among what was remembered after the earlier ones
\* exactly if it is no duplicate.
LEMMA NewSinceGrows ==
    ASSUME TypeOK, HandOK, HistoryOK, Check, NEW n \in DOMAIN checks
    PROVE  Cardinality(NewSince(n)') = Cardinality(NewSince(n))
              + (IF FilterVerdict(InHand) = "duplicate" THEN 0 ELSE 1)
<1>1. PICK N \in DOMAIN checks' :
        /\ N = Len(checks) + 1 /\ N \notin DOMAIN checks
        /\ checks'[N].verdict = FilterVerdict(InHand)
  BY Latest
<1>2. /\ Len(checks) \in Nat /\ DOMAIN checks = 1..Len(checks)
      /\ Len(checks') = Len(checks) + 1
      /\ \A x \in 1..Len(checks) : checks'[x] = checks[x]
  BY CheckFacts, ChecksFacts
<1>3. NewSince(n)' = {x \in (n + 1)..(Len(checks) + 1) : checks'[x].verdict # "duplicate"}
  BY <1>2 DEF NewSince
<1>4. N \notin NewSince(n)
  BY <1>1, <1>2 DEF NewSince
<1>5. \A x \in (n + 1)..(Len(checks) + 1) : x = N \/ x \in (n + 1)..Len(checks)
  BY <1>1, <1>2
<1>6. \A x \in (n + 1)..Len(checks) : checks'[x] = checks[x]
  BY <1>2
<1>7. N \in (n + 1)..(Len(checks) + 1)
  BY <1>1, <1>2
<1>8. (n + 1)..Len(checks) \subseteq (n + 1)..(Len(checks) + 1)
  BY <1>2
<1>9. CASE FilterVerdict(InHand) = "duplicate"
  <2>1. NewSince(n)' = NewSince(n)
    BY <1>1, <1>3, <1>5, <1>6, <1>8, <1>9 DEF NewSince
  <2> QED
    BY <1>9, <2>1, NewSinceFacts
<1>10. CASE FilterVerdict(InHand) # "duplicate"
  <2>1. NewSince(n)' = NewSince(n) \cup {N}
    BY <1>1, <1>3, <1>5, <1>6, <1>7, <1>8, <1>10 DEF NewSince
  <2> QED
    BY <1>4, <1>10, <2>1, NewSinceFacts, FS_AddElement
<1> QED
  BY <1>9, <1>10

LEMMA NextMemoryOK ==
    ASSUME TypeOK, HandOK, HistoryOK, MemoryOK, [Next]_vars
    PROVE  MemoryOK'
<1> SUFFICES ASSUME NEW n \in DOMAIN checks', IsCurrent(n)', checks'[n].verdict # "duplicate"
             PROVE  \/ MaxSeen <= Cardinality(NewSince(n)')
                    \/ \E k \in DOMAIN seen' :
                          /\ seen'[k] = Subject(n)'.id
                          /\ Cardinality(NewSince(n)') + k = Len(seen')
  BY DEF MemoryOK
<1>0. ~Crash
  BY CrashFacts
<1>1. CASE Quiet
  <2>1. /\ n \in DOMAIN checks /\ NewSince(n)' = NewSince(n) /\ checks'[n] = checks[n]
        /\ seen' = seen
    BY <1>1 DEF Quiet, NewSince
  <2>2. IsCurrent(n) /\ Subject(n)' = Subject(n)
    BY <1>0, <2>1, CurrentKept
  <2> QED
    BY <2>1, <2>2 DEF MemoryOK
<1>2. CASE Check
  <2> DEFINE id == InHand.body.id
  <2>1. /\ seen \in Seq(Ids) /\ Len(seen) <= MaxSeen /\ Len(seen) \in Nat
        /\ DOMAIN seen = 1..Len(seen) /\ MaxSeen \in Nat
    BY OrchestratorAssumption, LenProperties DEF TypeOK, Ids
  <2>2. id \in Ids
    BY <1>2, CheckFacts DEF Ids
  <2>3. FilterVerdict(InHand) # "duplicate" => seen' = Remember(id)
    BY <1>2 DEF Check
  <2>4. FilterVerdict(InHand) = "duplicate" => seen' = seen
    BY <1>2 DEF Check
  <2> HIDE DEF id
  <2>5. CASE n \in DOMAIN checks
    <3>1. IsCurrent(n) /\ Subject(n)' = Subject(n) /\ checks'[n] = checks[n]
      BY <1>0, <2>5, CurrentKept
    <3> DEFINE c == Cardinality(NewSince(n))
               cc == Cardinality(NewSince(n)')
    <3>2. c \in Nat
      BY <2>5, NewSinceFacts
    <3>3. cc = c + (IF FilterVerdict(InHand) = "duplicate" THEN 0 ELSE 1)
      BY <1>2, <2>5, NewSinceGrows
    <3>4. MaxSeen <= c \/ \E k \in DOMAIN seen : seen[k] = Subject(n).id /\ c + k = Len(seen)
      BY <2>5, <3>1 DEF MemoryOK
    <3> HIDE DEF c, cc
    <3>5. CASE MaxSeen <= c
      BY <2>1, <3>2, <3>3, <3>5 DEF cc
    <3>6. ASSUME NEW k \in DOMAIN seen, seen[k] = Subject(n).id, c + k = Len(seen)
          PROVE  \/ MaxSeen <= cc
                 \/ \E j \in DOMAIN seen' : seen'[j] = Subject(n)'.id /\ cc + j = Len(seen')
      <4>1. CASE FilterVerdict(InHand) = "duplicate"
        BY <2>1, <2>4, <3>1, <3>2, <3>3, <3>6, <4>1
      <4>2. CASE FilterVerdict(InHand) # "duplicate"
        <5>1. cc = c + 1 /\ seen' = Remember(id) /\ k \in 1..Len(seen)
          BY <2>1, <2>3, <3>2, <3>3, <4>2
        <5>2. CASE /\ Len(Remember(id)) = Len(seen) + 1
                   /\ DOMAIN Remember(id) = 1..(Len(seen) + 1)
                   /\ \A i \in 1..Len(seen) : Remember(id)[i] = seen[i]
          BY <2>1, <3>1, <3>2, <3>6, <5>1, <5>2
        <5>3. CASE /\ Len(seen) = MaxSeen /\ Len(Remember(id)) = MaxSeen
                   /\ DOMAIN Remember(id) = 1..MaxSeen
                   /\ \A i \in 1..MaxSeen : i + 1 <= MaxSeen => Remember(id)[i] = seen[i + 1]
          <6>1. CASE k = 1
            BY <2>1, <3>2, <3>6, <5>1, <5>3, <6>1
          <6>2. CASE k # 1
            <7>1. k - 1 \in 1..MaxSeen /\ (k - 1) + 1 = k /\ (k - 1) + 1 <= MaxSeen
              BY <2>1, <5>1, <5>3, <6>2
            <7>2. seen'[k - 1] = Subject(n)'.id
              BY <3>1, <3>6, <5>1, <5>3, <7>1
            <7>3. cc + (k - 1) = Len(seen')
              BY <2>1, <3>2, <3>6, <5>1, <5>3, <7>1
            <7> QED
              BY <5>1, <5>3, <7>1, <7>2, <7>3
          <6> QED
            BY <6>1, <6>2
        <5> QED
          BY <2>1, <2>2, <5>2, <5>3, RememberPlaces
      <4> QED
        BY <4>1, <4>2
    <3> QED
      BY <3>4, <3>5, <3>6 DEF cc
  <2>6. CASE n \notin DOMAIN checks
    <3>1. /\ n = Len(checks) + 1 /\ checks'[n].verdict = FilterVerdict(InHand)
          /\ Subject(n)' = InHand.body
      BY <1>2, <2>6, Latest
    <3>2. seen' = Remember(id) /\ Subject(n)'.id = id
      BY <2>3, <3>1 DEF id
    <3>3. Cardinality(NewSince(n)') = 0
      <4>1. Len(checks') = n /\ n \in Nat
        BY <1>2, <3>1, CheckFacts, ChecksFacts
      <4>2. NewSince(n)' = {}
        BY <4>1 DEF NewSince
      <4> QED
        BY <4>2, FS_EmptySet
    <3>4. CASE /\ Len(Remember(id)) = Len(seen) + 1
               /\ DOMAIN Remember(id) = 1..(Len(seen) + 1)
               /\ Remember(id)[Len(seen) + 1] = id
      BY <2>1, <3>2, <3>3, <3>4
    <3>5. CASE /\ Len(Remember(id)) = MaxSeen
               /\ DOMAIN Remember(id) = 1..MaxSeen
               /\ MaxSeen > 0 => Remember(id)[MaxSeen] = id
      BY <2>1, <3>2, <3>3, <3>5
    <3> QED
      BY <2>1, <2>2, <3>4, <3>5, RememberPlaces
  <2> QED
    BY <2>5, <2>6
<1> QED
  BY <1>0, <1>1, <1>2, StepKinds

LEMMA NextActsOncePerRun ==
    TypeOK /\ HandOK /\ HistoryOK /\ MemoryOK /\ ActsOncePerRun /\ [Next]_vars
        => ActsOncePerRun'
<1> SUFFICES ASSUME TypeOK, HandOK, HistoryOK, MemoryOK, ActsOncePerRun, [Next]_vars,
                    NEW n \in Acts', NEW m \in Acts', SameRun(m, n)',
                    checks'[m].message = checks'[n].message
             PROVE  MaxSeen <= Cardinality({x \in (m + 1)..(n - 1) :
                                              checks'[x].verdict # "duplicate"})
  BY DEF ActsOncePerRun
<1>1. /\ n \in DOMAIN checks' /\ m \in DOMAIN checks'
      /\ m < n /\ checks'[m].run = checks'[n].run
      /\ checks'[m].verdict = "act" /\ checks'[n].verdict = "act"
  BY DEF Acts, SameRun
<1>2. /\ Len(checks) \in Nat /\ DOMAIN checks = 1..Len(checks)
      /\ \A x \in DOMAIN checks : x \in DOMAIN checks' /\ checks'[x] = checks[x]
  BY ChecksFacts, HistoryKept
<1>3. m \in DOMAIN checks /\ (n \in DOMAIN checks \/ (Check /\ n = Len(checks) + 1))
  <2>1. CASE Quiet \/ Crash
    <3>1. DOMAIN checks' = DOMAIN checks
      BY <2>1 DEF Quiet, Crash, historyVars
    <3> QED
      BY <1>1, <3>1
  <2>2. CASE Check
    <3>1. DOMAIN checks' = 1..(Len(checks) + 1)
      BY <2>2, CheckFacts
    <3> QED
      BY <1>1, <1>2, <2>2, <3>1
  <2> QED
    BY <2>1, <2>2, StepKinds
<1>4. \A x \in (m + 1)..(n - 1) : x \in DOMAIN checks /\ checks'[x] = checks[x]
  BY <1>2, <1>3
<1>5. {x \in (m + 1)..(n - 1) : checks'[x].verdict # "duplicate"}
        = {x \in (m + 1)..(n - 1) : checks[x].verdict # "duplicate"}
  BY <1>4
<1>6. CASE n \in DOMAIN checks
  <2>1. n \in Acts /\ m \in Acts /\ SameRun(m, n) /\ checks[m].message = checks[n].message
    BY <1>1, <1>2, <1>3, <1>6 DEF Acts, SameRun
  <2> QED
    BY <1>5, <2>1 DEF ActsOncePerRun
<1>7. CASE Check /\ n = Len(checks) + 1
  <2>1. /\ checks'[n].verdict = FilterVerdict(InHand) /\ checks'[n].message = position
        /\ checks'[n].run = run /\ InHand = alerts[position]
    BY <1>7, CheckFacts
  <2>2. IsCurrent(m) /\ checks[m].verdict # "duplicate" /\ checks[m].message = position
    BY <1>1, <1>2, <1>3, <2>1 DEF IsCurrent
  <2>3. Subject(m) = InHand.body
    BY <2>1, <2>2 DEF Subject
  <2>4. ~\E k \in DOMAIN seen : seen[k] = Subject(m).id
    BY <1>1, <2>1, <2>3 DEF FilterVerdict, IsDuplicate
  <2>5. MaxSeen <= Cardinality(NewSince(m))
    BY <1>3, <2>2, <2>4 DEF MemoryOK
  <2>6. n - 1 = Len(checks)
    BY <1>2, <1>7
  <2> QED
    BY <1>5, <2>5, <2>6 DEF NewSince
<1> QED
  BY <1>3, <1>6, <1>7

\* One process acts twice on a message only if MaxSeen other ids pushed its id
\* out of memory in between, for every size of the memory, with any redelivery.
THEOREM ActsOnce == Spec => []ActsOncePerRun
<1>1. Init => TypeOK /\ HandOK /\ HistoryOK /\ MemoryOK /\ ActsOncePerRun
  BY InitTypeOK, InitFilterInv DEF Init, FilterInv, MemoryOK, ActsOncePerRun, Acts
<1>2. TypeOK /\ HandOK /\ HistoryOK /\ MemoryOK /\ ActsOncePerRun /\ [Next]_vars
        => TypeOK' /\ HandOK' /\ HistoryOK' /\ MemoryOK' /\ ActsOncePerRun'
  <2>1. TypeOK /\ HandOK /\ HistoryOK /\ MemoryOK /\ [Next]_vars => HistoryOK' /\ MemoryOK'
    BY NextHistoryOK, NextMemoryOK
  <2> QED
    BY <2>1, NextTypeOK, NextActsOncePerRun
<1> QED
  BY <1>1, <1>2, PTL DEF Spec

=============================================================================
