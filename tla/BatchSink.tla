----------------------------- MODULE BatchSink -----------------------------
(***************************************************************************)
(* The batching sink behind the logger plugins: a bounded channel from the *)
(* request path, and the background task that collects batches and flushes *)
(* them with retries.  Timers may fire at any moment; the flusher may      *)
(* succeed, fail, or fail after delivering a head of the batch.            *)
(***************************************************************************)
EXTENDS Naturals, Sequences

CONSTANTS
    max_pending_entries,   \* capacity of the channel, as configured
    batch_max_size,        \* as configured
    max_retry_count,
    MaxPushed              \* bound on the entries pushed

ASSUME BatchAssumption ==
    {max_pending_entries, batch_max_size, max_retry_count, MaxPushed} \subseteq Nat

AtLeastOne(n) == IF n = 0 THEN 1 ELSE n
Capacity  == AtLeastOne(max_pending_entries)
batch_max == AtLeastOne(batch_max_size)

Entry == 1..MaxPushed

VARIABLES
    pushed,     \* how many entries the request path has pushed
    open,       \* some handle of the sink is alive
    queue,      \* the channel
    buffer,     \* run_loop's buffer
    pc,         \* run_loop: "loop", "flushing", "sleeping" or "exited"
    resume,     \* where flush_with_retry returns to: "loop" or "exited"
    entries,    \* flush_with_retry's batch
    failures,   \* flush_with_retry's counter
    accepted,   \* history: the entries the channel took
    acked,      \* history: the entries a flush reported delivered
    givenUp,    \* history: the entries dropped after the retries
    attempts    \* history: how often each entry was handed to the flusher

task    == <<queue, buffer, pc, resume, entries, failures>>
history == <<acked, givenUp, attempts>>
vars    == <<pushed, open, task, accepted, history>>

\* With or without a sink.
Fresh(spawned) ==
    /\ pushed = 0 /\ open = spawned
    /\ queue = << >> /\ buffer = << >>
    /\ pc = (IF spawned THEN "loop" ELSE "exited") /\ resume = "loop"
    /\ entries = << >> /\ failures = 0
    /\ accepted = << >> /\ acked = << >> /\ givenUp = {}
    /\ attempts = [e \in Entry |-> 0]

Init == Fresh(TRUE)

-----------------------------------------------------------------------------
(* The request path. *)

\* try_send: a full channel drops the entry.  The arm for a closed channel is
\* not reachable: the task ends only when no handle is left.
push ==
    /\ open /\ pushed < MaxPushed
    /\ pushed' = pushed + 1
    /\ IF Len(queue) < Capacity
       THEN queue' = Append(queue, pushed') /\ accepted' = Append(accepted, pushed')
       ELSE UNCHANGED <<queue, accepted>>
    /\ UNCHANGED <<open, buffer, pc, resume, entries, failures, history>>

\* The graph that owns the sink is replaced, and its last request is over.
DropSink ==
    /\ open
    /\ open' = FALSE
    /\ UNCHANGED <<pushed, task, accepted, history>>

-----------------------------------------------------------------------------
(* The background task. *)

Range1(s) == {s[i] : i \in DOMAIN s}

\* Hand a batch to the flusher (the count stops where it is too high).
Attempt(batch) ==
    attempts' = [e \in Entry |->
        IF e \in Range1(batch) /\ attempts[e] <= max_retry_count + 1
        THEN attempts[e] + 1 ELSE attempts[e]]

\* flush_with_retry takes the buffer; `to` is where it will return to.
StartFlush(batch, to) ==
    /\ entries' = batch /\ buffer' = << >>
    /\ failures' = 0
    /\ pc' = "flushing" /\ resume' = to
    /\ Attempt(batch)

\* Mutant: the entry that fills the batch is left out of it.
ReceiveLosesLast ==
    /\ pc = "loop" /\ queue # << >>
    /\ queue' = Tail(queue)
    /\ LET b == Append(buffer, Head(queue))
       IN  IF Len(b) >= batch_max
           THEN StartFlush(IF Len(b) > 1 THEN buffer ELSE b, "loop")
           ELSE buffer' = b /\ UNCHANGED <<pc, resume, entries, failures, attempts>>
    /\ UNCHANGED <<pushed, open, accepted, acked, givenUp>>

\* recv() yields an entry, with or without a timer at its side, and a full
\* buffer is flushed.
Receive ==
    /\ pc = "loop" /\ queue # << >>
    /\ queue' = Tail(queue)
    /\ LET b == Append(buffer, Head(queue))
       IN  IF Len(b) >= batch_max THEN StartFlush(b, "loop")
           ELSE buffer' = b /\ UNCHANGED <<pc, resume, entries, failures, attempts>>
    /\ UNCHANGED <<pushed, open, accepted, acked, givenUp>>

\* The oldest entry is buffer_duration old, or nothing came for
\* inactive_timeout.
Deadline ==
    /\ pc = "loop" /\ buffer # << >>
    /\ StartFlush(buffer, "loop")
    /\ UNCHANGED <<pushed, open, queue, accepted, acked, givenUp>>

\* recv() yields None: the handles are gone and the channel is empty.
Closed ==
    /\ pc = "loop" /\ ~open /\ queue = << >>
    /\ IF buffer = << >>
       THEN pc' = "exited" /\ UNCHANGED <<buffer, resume, entries, failures, attempts>>
       ELSE StartFlush(buffer, "exited")
    /\ UNCHANGED <<pushed, open, queue, accepted, acked, givenUp>>

\* flush_with_retry returns.
Return == pc' = resume /\ entries' = << >> /\ failures' = 0

FlushOk ==
    /\ pc = "flushing"
    /\ acked' = acked \o entries
    /\ Return
    /\ UNCHANGED <<pushed, open, queue, buffer, resume, accepted, givenUp, attempts>>

\* What is left of the batch when entries before index n were delivered.
AfterHead(n) == SubSeq(entries, n + 1, Len(entries))

\* Mutant: the counter is compared before it is incremented.
FlushErrOneMore(n) ==
    /\ pc = "flushing"
    /\ acked' = acked \o SubSeq(entries, 1, n)
    /\ \/ AfterHead(n) = << >> /\ Return /\ UNCHANGED givenUp
       \/ /\ AfterHead(n) # << >> /\ failures > max_retry_count
          /\ givenUp' = givenUp \cup Range1(AfterHead(n))
          /\ Return
       \/ /\ AfterHead(n) # << >> /\ failures <= max_retry_count
          /\ failures' = failures + 1
          /\ pc' = "sleeping"
          /\ entries' = AfterHead(n)
          /\ UNCHANGED givenUp
    /\ UNCHANGED <<pushed, open, queue, buffer, resume, accepted, attempts>>

\* Mutant: a failure never gives up.
FlushErrForever(n) ==
    /\ pc = "flushing"
    /\ acked' = acked \o SubSeq(entries, 1, n)
    /\ \/ AfterHead(n) = << >> /\ Return
       \/ /\ AfterHead(n) # << >>
          /\ failures' = 0
          /\ pc' = "sleeping"
          /\ entries' = AfterHead(n)
    /\ UNCHANGED <<pushed, open, queue, buffer, resume, accepted, givenUp, attempts>>

\* The flusher failed; n is its first_fail, 0 when it gave none.
FlushErr(n) ==
    /\ pc = "flushing"
    /\ acked' = acked \o SubSeq(entries, 1, n)
    /\ \/ AfterHead(n) = << >> /\ Return /\ UNCHANGED givenUp
       \/ /\ AfterHead(n) # << >> /\ failures + 1 > max_retry_count
          /\ givenUp' = givenUp \cup Range1(AfterHead(n))
          /\ Return
       \/ /\ AfterHead(n) # << >> /\ failures + 1 <= max_retry_count
          /\ failures' = failures + 1
          /\ pc' = "sleeping"
          /\ entries' = AfterHead(n)
          /\ UNCHANGED givenUp
    /\ UNCHANGED <<pushed, open, queue, buffer, resume, accepted, attempts>>

\* retry_delay is over.
Retry ==
    /\ pc = "sleeping"
    /\ pc' = "flushing"
    /\ Attempt(entries)
    /\ UNCHANGED <<pushed, open, queue, buffer, resume, entries, failures, accepted,
                   acked, givenUp>>

run_loop ==
    \/ Receive \/ Deadline \/ Closed
    \/ FlushOk \/ (\E n \in 0..Len(entries) : FlushErr(n)) \/ Retry

Next == push \/ DropSink \/ run_loop

Spec == Init /\ [][Next]_vars

\* The runtime polls the task, timers fire and every flush returns.
FairSpec == Spec /\ WF_vars(run_loop)

-----------------------------------------------------------------------------
(* Properties. *)

InTask == entries \o buffer \o queue

\* Retries are exact: an entry the flusher reported delivered is not sent again
\* nor given up (a retry starts at first_fail), and one is given up after the
\* first attempt and max_retry_count retries, no sooner and no later.
RetriesAreExact ==
    /\ Range1(acked) \cap (Range1(InTask) \cup givenUp) = {}
    /\ \A i, j \in DOMAIN acked : i < j => acked[i] < acked[j]
    /\ \A e \in Entry :
          /\ attempts[e] <= max_retry_count + 1
          /\ e \in givenUp => attempts[e] = max_retry_count + 1

\* Dropping the sink drains it: the task flushes what is left and ends.
DrainsOnDrop == ~open ~> pc = "exited"

\* The sink implements the in-order pipe: channel, buffer and batch in flight
\* together are its line, and every accepted entry leaves it at the front.
LP == INSTANCE LogPipe WITH
        Entries <- Entry, pending <- InTask
PipeSpec == LP!Spec
=============================================================================
