------------------------------- MODULE RwLock -------------------------------
(***************************************************************************)
(* The fair read-write lock of the async runtime (tokio::sync::RwLock), as *)
(* the shared gateway state uses it: requests are served in order of       *)
(* arrival, so a reader that arrives behind a waiting writer waits too.    *)
(*                                                                         *)
(* A lock is a record: mode[t] says what task t asked for ("none" when it  *)
(* neither holds nor waits), ahead[t] is the set of tasks that arrived     *)
(* before t and have not released yet.  A request is granted as soon as    *)
(* what is ahead of it allows, which is when the semaphore inside the      *)
(* runtime's lock hands over its permits.                                  *)
(***************************************************************************)
CONSTANT Tasks      \* the tasks that may ask for the lock

Modes == {"none", "read", "write"}

Lock == [mode : [Tasks -> Modes], ahead : [Tasks -> SUBSET Tasks]]

Unlocked == [mode  |-> [t \in Tasks |-> "none"],
             ahead |-> [t \in Tasks |-> {}]]

InLine(L) == {t \in Tasks : L.mode[t] # "none"}

\* .read() and .write(): the task joins the end of the line.
Ask(L, t, m) == [mode  |-> [L.mode EXCEPT ![t] = m],
                 ahead |-> [L.ahead EXCEPT ![t] = InLine(L)]]

\* The await on the request has completed: a writer is alone at the front, a
\* reader has no writer before it.
Holds(L, t) ==
    \/ L.mode[t] = "write" /\ L.ahead[t] = {}
    \/ L.mode[t] = "read"  /\ \A u \in L.ahead[t] : L.mode[u] # "write"

\* The guard is dropped.
Release(L, t) == [mode  |-> [L.mode EXCEPT ![t] = "none"],
                  ahead |-> [u \in Tasks |-> IF u = t THEN {}
                                             ELSE L.ahead[u] \ {t}]]
=============================================================================
