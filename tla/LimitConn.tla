----------------------------- MODULE LimitConn -----------------------------
(***************************************************************************)
(* limit-conn: an acquire node before the upstream and a release node      *)
(* after it share one atomic counter per key.  The increment and the undo  *)
(* of a rejected request are two atomic operations, and so are the load    *)
(* and the compare-exchange of the release.                                *)
(***************************************************************************)
EXTENDS Integers, FiniteSets

CONSTANTS
    Requests,      \* the requests that share the key
    conn, burst    \* the ceiling is conn + burst

ASSUME ConnAssumption ==
    /\ IsFiniteSet(Requests)
    /\ conn \in Nat \ {0} /\ burst \in Nat

VARIABLES
    counter,   \* the AtomicI64 of the key
    slot,      \* where each request is: see Slots
    cur,       \* the release node's local copy of the counter (0 outside)
    leaked     \* history: slots of requests that were dropped at the upstream

connVars == <<counter, slot, cur, leaked>>

Slots == {"none",       \* not between the two nodes
          "over",       \* incremented, found the ceiling reached
          "held",       \* admitted
          "releasing"}  \* in the release node, counter loaded

Ceiling == conn + burst

In(states) == {r \in Requests : slot[r] \in states}

ConnInit ==
    /\ counter = 0 /\ leaked = 0
    /\ slot = [r \in Requests |-> "none"]
    /\ cur = [r \in Requests |-> 0]

\* Mutant: one more than the ceiling is let in.
AcquireOneMore(r) ==
    /\ slot[r] = "none"
    /\ counter' = counter + 1
    /\ slot' = [slot EXCEPT ![r] = IF counter > Ceiling THEN "over" ELSE "held"]
    /\ UNCHANGED <<cur, leaked>>

\* fetch_add
Acquire(r) ==
    /\ slot[r] = "none"
    /\ counter' = counter + 1
    /\ slot' = [slot EXCEPT ![r] = IF counter >= Ceiling THEN "over" ELSE "held"]
    /\ UNCHANGED <<cur, leaked>>

\* fetch_sub: the request is answered with rejected_code.
Undo(r) ==
    /\ slot[r] = "over"
    /\ counter' = counter - 1
    /\ slot' = [slot EXCEPT ![r] = "none"]
    /\ UNCHANGED <<cur, leaked>>

Load(r) ==
    /\ slot[r] = "held"
    /\ slot' = [slot EXCEPT ![r] = "releasing"]
    /\ cur' = [cur EXCEPT ![r] = counter]
    /\ UNCHANGED <<counter, leaked>>

\* Mutant: a store instead of a compare-exchange.
StoreBack(r) ==
    /\ slot[r] = "releasing"
    /\ slot' = [slot EXCEPT ![r] = "none"]
    /\ counter' = cur[r] - 1
    /\ cur' = [cur EXCEPT ![r] = 0]
    /\ UNCHANGED leaked

\* One round of the loop: the counter is floored at zero, and a failed
\* exchange (spuriously, or because the counter moved) brings its new value.
CompareExchange(r) ==
    /\ slot[r] = "releasing"
    /\ \/ /\ cur[r] <= 0
          /\ slot' = [slot EXCEPT ![r] = "none"]
          /\ cur' = [cur EXCEPT ![r] = 0]
          /\ UNCHANGED counter
       \/ /\ cur[r] > 0 /\ counter = cur[r]
          /\ counter' = cur[r] - 1
          /\ slot' = [slot EXCEPT ![r] = "none"]
          /\ cur' = [cur EXCEPT ![r] = 0]
       \/ /\ cur[r] > 0
          /\ cur' = [cur EXCEPT ![r] = counter]
          /\ UNCHANGED <<counter, slot>>
    /\ UNCHANGED leaked

\* The client goes away and the request's future is dropped: no release node
\* runs, and the slot is lost.
Disconnect(r) ==
    /\ slot[r] = "held"
    /\ slot' = [slot EXCEPT ![r] = "none"]
    /\ leaked' = leaked + 1
    /\ UNCHANGED <<counter, cur>>

ConnNext == \E r \in Requests :
    Acquire(r) \/ Undo(r) \/ Load(r) \/ CompareExchange(r) \/ Disconnect(r)

ConnSpec == ConnInit /\ [][ConnNext]_connVars

-----------------------------------------------------------------------------
\* At no time are more than conn + burst requests between the two nodes,
\* although a request increments before it compares.
NeverOverCeiling == Cardinality(In({"held", "releasing"})) <= Ceiling

\* The counter is exact under every interleaving of increments, undos and
\* exchange loops: it counts the admitted requests, the ones about to undo
\* their increment, and the slots that disconnects have cost, nothing else.
CounterIsExact ==
    counter = Cardinality(In({"over", "held", "releasing"})) + leaked
=============================================================================
