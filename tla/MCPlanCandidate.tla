---- MODULE MCPlanCandidate ----
EXTENDS PlanCandidate

MCSamples == UNION {[1 .. n -> {0, 1, 169, 170}] : n \in 0 .. 2}
MCNoise == {0, 1, 155, 169, 170}
====
