--------------------------- MODULE MCConfigState ---------------------------
(* Small instances of ConfigState for TLC. *)
EXTENDS ConfigState, TLC

CONSTANTS t1, t2, t3, r1, p1, v1, vBad, c1, c2, k1

MCInitialConfig ==
    [routes    |-> [r \in {r1} |-> p1],
     policies  |-> [p \in {p1} |-> v1],
     consumers |-> [c \in ConsumerNames |-> Absent]]

\* gateway.yaml still holds what the process started with.
MCGoodDiskConfigs == {MCInitialConfig}

\* What the operator may have put in gateway.yaml: the initial configuration,
\* and one whose consumers are fine and whose policy is not.
MCDiskConfigs ==
    {MCInitialConfig,
     [MCInitialConfig EXCEPT !.policies[p1] = vBad, !.consumers[c1] = k1]}

TaskSymmetry == Permutations(Tasks)
=============================================================================
