-------------------------- MODULE MCConfigSources --------------------------
(* A watched file, or a cluster that shares an etcd prefix. *)
EXTENDS ConfigSources, MCEtcdCluster
=============================================================================
