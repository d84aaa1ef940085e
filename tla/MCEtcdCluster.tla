-------------------------- MODULE MCEtcdCluster --------------------------
(* Small instances of EtcdCluster for TLC. *)
EXTENDS EtcdCluster

MCPutOrder == << "route", "policy" >>

\* A route needs its policy.  Only the policy has a second version that compiles.
MCValidConfigs ==
    {c \in Configs : c["route"] # Absent => c["route"] = "v1" /\ c["policy"] # Absent}

MCSeed  == [k \in Keys |-> "v1"]
MCEmpty == [k \in Keys |-> Absent]
=============================================================================
