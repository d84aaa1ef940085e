---------------------------- MODULE MCDataPlane ----------------------------
(* Small instances of DataPlane for TLC. *)
EXTENDS DataPlane

MCChains ==
    { << "rate-limit" >>,
      << "limit-count", "upstream" >>,
      << "acquire", "upstream", "release" >>,
      << "check", "upstream", "observe" >>,
      << "acquire", "check", "upstream", "observe", "release" >>,
      << "lookup", "upstream", "store" >> }

\* The addresses of the clients hash to different targets.
MCIpHash == [c \in Clients |-> IF c = "c1" THEN 0 ELSE 1]
=============================================================================
