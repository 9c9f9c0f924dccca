--------------------------- MODULE MCOrchestrator ---------------------------
EXTENDS Orchestrator

Cascade == [id |-> "cascade", service |-> "pay", severity |-> 4,
            cpu |-> FALSE, wide |-> TRUE]
CpuSpike == [id |-> "cpu", service |-> "pay", severity |-> 3,
             cpu |-> TRUE, wide |-> FALSE]
Elsewhere == [id |-> "elsewhere", service |-> "svc", severity |-> 4,
              cpu |-> FALSE, wide |-> FALSE]

\* Two incidents of the deployed service, of different severity, to exercise
\* the cooldown and the hold of its HPA.
SafetyIncidents == {Cascade, CpuSpike}

\* One incident of the deployed service, one of a service without a rollout.
LiveIncidents == {Cascade, Elsewhere}
=============================================================================
