------------------------------ MODULE LogPipe ------------------------------
(***************************************************************************)
(* What a batching sink promises: entries it accepts wait in line, and are *)
(* settled (handed to the downstream, or given up) from the front of the   *)
(* line, each once, and in the end all of them.                            *)
(***************************************************************************)
EXTENDS Naturals, Sequences

CONSTANT Entries

VARIABLE pending    \* the accepted entries that are not settled, in order

Init == pending = << >>

Accept == \E e \in Entries : pending' = Append(pending, e)

Settle == \E k \in 1..Len(pending) : pending' = SubSeq(pending, k + 1, Len(pending))

Spec == Init /\ [][Accept \/ Settle]_pending /\ WF_pending(Settle)
=============================================================================
