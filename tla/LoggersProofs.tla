--------------------------- MODULE LoggersProofs ---------------------------
(***************************************************************************)
(* The batching sink and the loggers in front of it, for any number of     *)
(* entries, any capacity, batch size and number of retries: retries are    *)
(* exact, entries are settled in the order in which they were accepted,    *)
(* and a copy too many has its cause in an answer that was lost.           *)
(***************************************************************************)
EXTENDS Loggers, SequenceTheorems, TLAPS

-----------------------------------------------------------------------------
(* Sequences that are cut and joined. *)

\* The head of what is behind moves to the end of what is in front.
LEMMA HeadMovesUp ==
    ASSUME NEW S, NEW s \in Seq(S), NEW t \in Seq(S), t # << >>
    PROVE  Append(s, Head(t)) \o Tail(t) = s \o t
<1> DEFINE a == Append(s, Head(t))
           l == a \o Tail(t)
           r == s \o t
<1>1. /\ Head(t) \in S /\ Head(t) = t[1] /\ Tail(t) \in Seq(S) /\ Len(Tail(t)) = Len(t) - 1
      /\ \A i \in 1..Len(Tail(t)) : Tail(t)[i] = t[i + 1]
      /\ Len(s) \in Nat /\ Len(t) \in Nat \ {0}
    BY HeadTailProperties, EmptySeq, LenProperties
<1>2. /\ a \in Seq(S) /\ Len(a) = Len(s) + 1 /\ a[Len(s) + 1] = t[1]
      /\ \A i \in 1..Len(s) : a[i] = s[i]
    BY <1>1, AppendProperties
<1> HIDE DEF a
<1>3. /\ l \in Seq(S) /\ Len(l) = Len(s) + Len(t)
      /\ \A i \in 1..(Len(s) + Len(t)) :
            l[i] = IF i <= Len(s) + 1 THEN a[i] ELSE Tail(t)[i - (Len(s) + 1)]
    <2>1. /\ l \in Seq(S) /\ Len(l) = Len(a) + Len(Tail(t))
          /\ \A i \in 1..(Len(a) + Len(Tail(t))) :
                l[i] = IF i <= Len(a) THEN a[i] ELSE Tail(t)[i - Len(a)]
        BY <1>1, <1>2, ConcatProperties
    <2>2. Len(a) + Len(Tail(t)) = Len(s) + Len(t)
        BY <1>1, <1>2
    <2> HIDE DEF l
    <2> QED BY <1>2, <2>1, <2>2
<1>4. /\ r \in Seq(S) /\ Len(r) = Len(s) + Len(t)
      /\ \A i \in 1..(Len(s) + Len(t)) : r[i] = IF i <= Len(s) THEN s[i] ELSE t[i - Len(s)]
    BY ConcatProperties
<1> HIDE DEF l, r
<1>5. ASSUME NEW i \in 1..Len(l) PROVE l[i] = r[i]
    <2>1. CASE i <= Len(s)
        BY <1>1, <1>2, <1>3, <1>4, <2>1, SMTT(30)
    <2>2. CASE i = Len(s) + 1
        BY <1>1, <1>2, <1>3, <1>4, <2>2
    <2>3. CASE i > Len(s) + 1
        <3>1. i - (Len(s) + 1) \in 1..Len(Tail(t)) /\ i - (Len(s) + 1) + 1 = i - Len(s)
            BY <1>1, <1>3, <2>3
        <3>2. Tail(t)[i - (Len(s) + 1)] = t[i - Len(s)]
            BY <1>1, <3>1
        <3> QED BY <1>1, <1>3, <1>4, <2>3, <3>2
    <2> QED BY <1>1, <2>1, <2>2, <2>3
<1>6. l = r
    BY <1>3, <1>4, <1>5, SeqEqual
<1> QED BY <1>6 DEF l, r, a

\* An element is added at the end.
LEMMA AppendMovesOut ==
    ASSUME NEW S, NEW s \in Seq(S), NEW t \in Seq(S), NEW e \in S
    PROVE  s \o Append(t, e) = Append(s \o t, e)
<1>1. Append(t, e) = t \o <<e>> /\ s \o t \in Seq(S) /\ <<e>> \in Seq(S)
    BY AppendIsConcat, ConcatProperties
<1>2. Append(s \o t, e) = (s \o t) \o <<e>>
    BY <1>1, AppendIsConcat
<1>3. (s \o t) \o <<e>> = s \o (t \o <<e>>)
    BY <1>1, ConcatAssociative
<1> QED BY <1>1, <1>2, <1>3

\* What is left when a head is cut off, and the head.
LEMMA CutProperties ==
    ASSUME NEW S, NEW s \in Seq(S), NEW k \in 0..Len(s)
    PROVE  /\ SubSeq(s, k + 1, Len(s)) \in Seq(S)
           /\ Len(SubSeq(s, k + 1, Len(s))) = Len(s) - k
           /\ DOMAIN SubSeq(s, k + 1, Len(s)) = 1..(Len(s) - k)
           /\ \A i \in 1..(Len(s) - k) : SubSeq(s, k + 1, Len(s))[i] = s[k + i]
           /\ SubSeq(s, 1, k) \in Seq(S) /\ Len(SubSeq(s, 1, k)) = k
           /\ \A i \in 1..k : SubSeq(s, 1, k)[i] = s[i]
<1> DEFINE c == SubSeq(s, k + 1, Len(s))
           h == SubSeq(s, 1, k)
<1>1. Len(s) \in Nat /\ \A i \in 1..Len(s) : s[i] \in S
    BY LenProperties, ElementOfSeq
<1>2. (\A i \in (k + 1)..Len(s) : s[i] \in S) /\ (\A i \in 1..k : s[i] \in S)
    BY <1>1
<1>3. /\ c \in Seq(S)
      /\ Len(c) = IF k + 1 <= Len(s) THEN Len(s) - (k + 1) + 1 ELSE 0
      /\ \A i \in 1..(Len(s) - (k + 1) + 1) : c[i] = s[(k + 1) + i - 1]
    BY <1>1, <1>2, SubSeqProperties
<1>4. /\ h \in Seq(S)
      /\ Len(h) = IF 1 <= k THEN k - 1 + 1 ELSE 0
      /\ \A i \in 1..(k - 1 + 1) : h[i] = s[1 + i - 1]
    BY <1>1, <1>2, SubSeqProperties
<1> HIDE DEF c, h
<1>5. Len(c) = Len(s) - k /\ \A i \in 1..(Len(s) - k) : c[i] = s[k + i]
    BY <1>1, <1>3
<1>6. Len(h) = k /\ \A i \in 1..k : h[i] = s[i]
    BY <1>4
<1>7. DOMAIN c = 1..(Len(s) - k)
    BY <1>3, <1>5, LenProperties
<1> QED BY <1>3, <1>4, <1>5, <1>6, <1>7 DEF c, h

\* A head is cut off, from the first of two or from the two together.
LEMMA CutFromFirst ==
    ASSUME NEW S, NEW s \in Seq(S), NEW t \in Seq(S), NEW k \in 0..Len(s)
    PROVE  SubSeq(s, k + 1, Len(s)) \o t = SubSeq(s \o t, k + 1, Len(s \o t))
<1> DEFINE c == SubSeq(s, k + 1, Len(s))
           j == s \o t
           l == c \o t
           r == SubSeq(j, k + 1, Len(j))
<1>1. Len(s) \in Nat /\ Len(t) \in Nat /\ \A i \in 1..Len(s) : s[i] \in S
    BY LenProperties, ElementOfSeq
<1>2. /\ c \in Seq(S) /\ Len(c) = Len(s) - k
      /\ \A i \in 1..(Len(s) - k) : c[i] = s[k + i]
    BY CutProperties
<1>3. /\ j \in Seq(S) /\ Len(j) = Len(s) + Len(t)
      /\ \A i \in 1..(Len(s) + Len(t)) : j[i] = IF i <= Len(s) THEN s[i] ELSE t[i - Len(s)]
    BY ConcatProperties
<1> HIDE DEF c, j
<1>4. /\ l \in Seq(S) /\ Len(l) = Len(s) - k + Len(t)
      /\ \A i \in 1..(Len(s) - k + Len(t)) :
            l[i] = IF i <= Len(s) - k THEN c[i] ELSE t[i - (Len(s) - k)]
    <2>1. /\ l \in Seq(S) /\ Len(l) = Len(c) + Len(t)
          /\ \A i \in 1..(Len(c) + Len(t)) : l[i] = IF i <= Len(c) THEN c[i] ELSE t[i - Len(c)]
        BY <1>2, ConcatProperties
    <2> HIDE DEF l
    <2> QED BY <1>2, <2>1
<1>5. /\ r \in Seq(S) /\ Len(r) = Len(s) - k + Len(t)
      /\ \A i \in 1..(Len(s) - k + Len(t)) : r[i] = j[k + i]
    <2>1. k \in 0..Len(j) /\ Len(j) - k = Len(s) - k + Len(t)
        BY <1>1, <1>3
    <2>2. /\ r \in Seq(S) /\ Len(r) = Len(j) - k
          /\ \A i \in 1..(Len(j) - k) : r[i] = j[k + i]
        BY <1>3, <2>1, CutProperties
    <2> QED BY <2>1, <2>2
<1> HIDE DEF l, r
<1>6. ASSUME NEW i \in 1..Len(l) PROVE l[i] = r[i]
    <2>1. CASE i <= Len(s) - k
        BY <1>1, <1>2, <1>3, <1>4, <1>5, <2>1
    <2>2. CASE i > Len(s) - k
        <3>1. i - (Len(s) - k) = (k + i) - Len(s) /\ k + i > Len(s) /\ k + i \in 1..(Len(s) + Len(t))
            BY <1>1, <1>4, <2>2
        <3> QED BY <1>1, <1>3, <1>4, <1>5, <2>2, <3>1
    <2> QED BY <1>1, <2>1, <2>2
<1>7. l = r
    BY <1>4, <1>5, <1>6, SeqEqual
<1> QED BY <1>7 DEF l, r, c, j

-----------------------------------------------------------------------------
(* The sink as a line. *)

SinkTypeOK ==
    /\ pushed \in 0..MaxPushed /\ open \in BOOLEAN
    /\ {queue, buffer, entries, acked} \subseteq Seq(Entry)
    /\ pc \in {"loop", "flushing", "sleeping", "exited"} /\ resume \in {"loop", "exited"}
    /\ failures \in 0..max_retry_count
    /\ givenUp \subseteq Entry /\ attempts \in [Entry -> Nat]

\* A batch is in flight, or a buffer is being filled.
OneAtATime ==
    IF pc \in {"flushing", "sleeping"} THEN buffer = << >> /\ entries # << >>
    ELSE entries = << >>

Settled == Range1(acked) \cup givenUp

\* The line holds entries in the order they were pushed, and whatever has left
\* it is older.
LineInOrder ==
    /\ \A i, j \in DOMAIN InTask : i < j => InTask[i] < InTask[j]
    /\ \A i \in DOMAIN InTask : InTask[i] <= pushed /\ \A e \in Settled : e < InTask[i]
    /\ \A e \in Settled : e <= pushed
    /\ \A i, j \in DOMAIN acked : i < j => acked[i] < acked[j]
    /\ Range1(acked) \cap givenUp = {}

\* How often the batch in flight was handed to the flusher.
Tried == IF pc = "flushing" THEN failures + 1 ELSE failures

\* The attempts of each entry: what is in flight has been tried together,
\* what is behind not at all.
AttemptsCounted ==
    /\ \A e \in Entry :
          /\ attempts[e] <= max_retry_count + 1
          /\ e > pushed => attempts[e] = 0
          /\ e \in givenUp => attempts[e] = max_retry_count + 1
    /\ \A i \in DOMAIN InTask : attempts[InTask[i]] = IF i <= Len(entries) THEN Tried ELSE 0

SinkInv == SinkTypeOK /\ OneAtATime /\ LineInOrder /\ AttemptsCounted

\* What the line is made of.
LEMMA LineParts ==
    ASSUME SinkTypeOK
    PROVE  /\ InTask \in Seq(Entry) /\ DOMAIN InTask = 1..Len(InTask) /\ Len(InTask) \in Nat
           /\ Len(InTask) = Len(entries) + Len(buffer) + Len(queue)
           /\ \A i \in 1..Len(entries) : InTask[i] = entries[i]
           /\ Len(entries) \in Nat /\ Len(buffer) \in Nat /\ Len(queue) \in Nat
<1>1. entries \in Seq(Entry) /\ buffer \in Seq(Entry) /\ queue \in Seq(Entry)
    BY DEF SinkTypeOK
<1> DEFINE eb == entries \o buffer
<1>2. /\ eb \in Seq(Entry) /\ Len(eb) = Len(entries) + Len(buffer)
      /\ \A i \in 1..(Len(entries) + Len(buffer)) :
            eb[i] = IF i <= Len(entries) THEN entries[i] ELSE buffer[i - Len(entries)]
    BY <1>1, ConcatProperties
<1> HIDE DEF eb
<1>3. /\ eb \o queue \in Seq(Entry) /\ Len(eb \o queue) = Len(eb) + Len(queue)
      /\ \A i \in 1..(Len(eb) + Len(queue)) :
            (eb \o queue)[i] = IF i <= Len(eb) THEN eb[i] ELSE queue[i - Len(eb)]
    <2>1. eb \in Seq(Entry) /\ queue \in Seq(Entry)
        BY <1>1, <1>2
    <2> QED BY <2>1, ConcatProperties, Zenon
<1>4. InTask = eb \o queue
    BY DEF InTask, eb
<1>5. Len(entries) \in Nat /\ Len(buffer) \in Nat /\ Len(queue) \in Nat
    BY <1>1, LenProperties
<1>6. DOMAIN InTask = 1..Len(InTask) /\ Len(InTask) \in Nat
    BY <1>3, <1>4, LenProperties
<1> QED BY <1>2, <1>3, <1>4, <1>5, <1>6

\* What the sink does to the line: a push that the channel takes adds to its
\* end, ...
LEMMA PushToLine ==
    ASSUME SinkInv, push
    PROVE  /\ SinkTypeOK'
           /\ \/ InTask' = InTask
              \/ InTask' = Append(InTask, pushed + 1) /\ pushed + 1 \in Entry
<1>1. entries \in Seq(Entry) /\ buffer \in Seq(Entry) /\ queue \in Seq(Entry)
    BY DEF SinkInv, SinkTypeOK
<1>2. pushed + 1 \in Entry /\ pushed' = pushed + 1 /\ pushed' \in 0..MaxPushed
    BY BatchAssumption DEF push, SinkInv, SinkTypeOK, Entry
<1>3. /\ UNCHANGED <<open, buffer, pc, resume, entries, failures, acked, givenUp, attempts>>
    BY DEF push, history
<1>4. CASE UNCHANGED queue
    BY <1>2, <1>3, <1>4 DEF InTask, SinkInv, SinkTypeOK
<1>5. CASE queue' = Append(queue, pushed')
    <2>1. queue' \in Seq(Entry)
        BY <1>1, <1>2, <1>5, AppendProperties
    <2>2. SinkTypeOK'
        BY <1>2, <1>3, <2>1 DEF SinkInv, SinkTypeOK
    <2>3. entries \o buffer \in Seq(Entry)
        BY <1>1, ConcatProperties
    <2>4. (entries \o buffer) \o Append(queue, pushed + 1) = Append((entries \o buffer) \o queue, pushed + 1)
        BY <1>1, <1>2, <2>3, AppendMovesOut
    <2> QED BY <1>2, <1>3, <1>5, <2>2, <2>4 DEF InTask
<1> QED BY <1>4, <1>5 DEF push

\* ... collecting a batch regroups it, ...
LEMMA CollectKeepsLine ==
    ASSUME SinkInv, Receive \/ Deadline \/ Closed
    PROVE  /\ InTask' = InTask /\ pc = "loop" /\ entries = << >>
           /\ UNCHANGED <<pushed, acked, givenUp>>
           /\ {queue', buffer'} \subseteq Seq(Entry)
           /\ \/ /\ pc' \in {"loop", "exited"} /\ UNCHANGED <<resume, entries, failures, attempts>>
              \/ /\ entries' \in Seq(Entry) /\ entries' # << >> /\ buffer' = << >>
                 /\ failures' = 0 /\ pc' = "flushing" /\ resume' \in {"loop", "exited"}
                 /\ Attempt(entries')
<1>1. /\ entries \in Seq(Entry) /\ buffer \in Seq(Entry) /\ queue \in Seq(Entry)
      /\ << >> \in Seq(Entry)
    BY DEF SinkInv, SinkTypeOK
<1>2. pc = "loop" /\ entries = << >> /\ UNCHANGED <<pushed, acked, givenUp>>
    BY DEF Receive, Deadline, Closed, SinkInv, OneAtATime
<1>3. InTask = buffer \o queue
    BY <1>1, <1>2, ConcatEmptySeq DEF InTask
<1>4. CASE Receive
    <2> DEFINE b == Append(buffer, Head(queue))
    <2>1. queue # << >> /\ queue' = Tail(queue)
        BY <1>4 DEF Receive
    <2>2. b \in Seq(Entry) /\ b # << >> /\ queue' \in Seq(Entry) /\ b \o queue' = InTask
        <3>1. Head(queue) \in Entry /\ Tail(queue) \in Seq(Entry)
            BY <1>1, <2>1, HeadTailProperties
        <3>2. b \in Seq(Entry) /\ b # << >>
            BY <1>1, <3>1, AppendProperties
        <3>3. b \o Tail(queue) = buffer \o queue
            BY <1>1, <2>1, HeadMovesUp
        <3> HIDE DEF b
        <3> QED BY <1>3, <2>1, <3>1, <3>2, <3>3
    <2>3. \/ StartFlush(b, "loop")
          \/ buffer' = b /\ UNCHANGED <<pc, resume, entries, failures, attempts>>
        BY <1>4 DEF Receive
    <2> HIDE DEF b
    <2>4. CASE StartFlush(b, "loop")
        <3>1. InTask' = b \o << >> \o queue'
            BY <2>4 DEF StartFlush, InTask
        <3>2. InTask' = InTask
            BY <2>2, <3>1, ConcatEmptySeq
        <3> QED BY <1>1, <1>2, <2>2, <2>4, <3>2 DEF StartFlush
    <2>5. CASE buffer' = b /\ UNCHANGED <<pc, resume, entries, failures, attempts>>
        <3>1. InTask' = << >> \o b \o queue'
            BY <1>2, <2>5 DEF InTask
        <3>2. InTask' = InTask
            BY <2>2, <3>1, ConcatEmptySeq
        <3> QED BY <1>1, <1>2, <2>2, <2>5, <3>2
    <2> QED BY <2>3, <2>4, <2>5
<1>5. ASSUME NEW to \in {"loop", "exited"}, StartFlush(buffer, to), queue' = queue, buffer # << >>
      PROVE  InTask' = InTask /\ entries' = buffer /\ buffer' = << >>
    <2>1. InTask' = buffer \o << >> \o queue /\ entries' = buffer /\ buffer' = << >>
        BY <1>5 DEF StartFlush, InTask
    <2> QED BY <1>1, <1>3, <2>1, ConcatEmptySeq
<1>6. CASE Deadline
    BY <1>1, <1>2, <1>5, <1>6 DEF Deadline, StartFlush
<1>7. CASE Closed
    <2>1. CASE buffer = << >>
        BY <1>1, <1>2, <1>7, <2>1 DEF Closed, InTask
    <2>2. CASE buffer # << >>
        BY <1>1, <1>2, <1>5, <1>7, <2>2 DEF Closed, StartFlush
    <2> QED BY <2>1, <2>2
<1> QED BY <1>4, <1>6, <1>7

\* ... and a flush, however it ends, takes from its front.
LEMMA FlushTakesFront ==
    ASSUME SinkInv, NEW k \in 0..Len(entries),
           entries' = SubSeq(entries, k + 1, Len(entries)),
           UNCHANGED <<buffer, queue>>, buffer = << >>
    PROVE  /\ InTask' = SubSeq(InTask, k + 1, Len(InTask))
           /\ entries' \in Seq(Entry) /\ Len(entries') = Len(entries) - k
<1>1. entries \in Seq(Entry) /\ queue \in Seq(Entry)
    BY DEF SinkInv, SinkTypeOK
<1>2. /\ Len(entries) \in Nat /\ \A i \in (k + 1)..Len(entries) : entries[i] \in Entry
    BY <1>1, LenProperties, ElementOfSeq
<1>3. /\ entries' \in Seq(Entry)
      /\ Len(entries') = IF k + 1 <= Len(entries) THEN Len(entries) - (k + 1) + 1 ELSE 0
    BY <1>2, SubSeqProperties
<1>4. InTask = entries \o queue /\ InTask' = entries' \o queue
    BY <1>1, <1>3, ConcatEmptySeq DEF InTask
<1>5. SubSeq(entries, k + 1, Len(entries)) \o queue = SubSeq(entries \o queue, k + 1, Len(entries \o queue))
    BY <1>1, CutFromFirst
<1>6. InTask' = SubSeq(InTask, k + 1, Len(InTask))
    BY <1>4, <1>5
<1>7. Len(entries') = Len(entries) - k
    BY <1>2, <1>3
<1> QED BY <1>3, <1>6, <1>7

-----------------------------------------------------------------------------
(* The invariant. *)

\* The first k of the line are delivered, and those up to the m-th leave it.
LEMMA FrontSettles ==
    ASSUME SinkInv, NEW k \in Nat, NEW m \in Nat, k <= m, m <= Len(entries),
           acked' = acked \o SubSeq(entries, 1, k),
           InTask' = SubSeq(InTask, m + 1, Len(InTask)),
           givenUp' = givenUp \cup {InTask[i] : i \in (k + 1)..m},
           pushed' = pushed
    PROVE  /\ LineInOrder' /\ acked' \in Seq(Entry) /\ givenUp' \subseteq Entry
           /\ Range1(acked') = Range1(acked) \cup {InTask[i] : i \in 1..k}
           /\ DOMAIN InTask' = 1..(Len(InTask) - m)
           /\ \A i \in DOMAIN InTask' : InTask'[i] = InTask[m + i]
<1> DEFINE L == InTask
           M == InTask'
           n == Len(acked)
<1>1. /\ L \in Seq(Entry) /\ DOMAIN L = 1..Len(L) /\ Len(L) \in Nat /\ Len(entries) \in Nat
      /\ Len(entries) <= Len(L)
      /\ \A i \in 1..Len(entries) : L[i] = entries[i]
    BY LineParts DEF SinkInv
<1>2. \A i \in DOMAIN L : L[i] \in Entry
    BY <1>1, ElementOfSeq
<1>o. LineInOrder /\ Entry \subseteq Nat /\ pushed \in Nat /\ givenUp \subseteq Entry
    BY DEF SinkInv, SinkTypeOK, Entry
<1>3. /\ Len(M) = Len(L) - m /\ DOMAIN M = 1..(Len(L) - m)
      /\ \A i \in 1..(Len(L) - m) : M[i] = L[m + i]
    <2>1. m \in 0..Len(L)
        <3> HIDE DEF L
        <3> QED BY <1>1
    <2>2. M = SubSeq(L, m + 1, Len(L)) /\ L \in Seq(Entry)
        BY <1>1
    <2> HIDE DEF L, M
    <2> QED BY <2>1, <2>2, CutProperties
<1>4. /\ acked \in Seq(Entry) /\ n \in Nat /\ DOMAIN acked = 1..n
      /\ acked' \in Seq(Entry) /\ DOMAIN acked' = 1..(n + k)
      /\ \A i \in 1..(n + k) : acked'[i] = IF i <= n THEN acked[i] ELSE L[i - n]
    <2> DEFINE h == SubSeq(entries, 1, k)
    <2>1. acked \in Seq(Entry) /\ entries \in Seq(Entry)
        BY DEF SinkInv, SinkTypeOK
    <2>2. n \in Nat /\ DOMAIN acked = 1..n
        BY <2>1, LenProperties
    <2>3. k \in 0..Len(entries) /\ \A i \in 1..k : i \in 1..Len(entries)
        BY <1>1
    <2>4. h \in Seq(Entry) /\ Len(h) = k /\ \A i \in 1..k : h[i] = entries[i]
        BY <2>1, <2>3, CutProperties
    <2> HIDE DEF h
    <2>5. Len(h) = k /\ \A i \in 1..k : h[i] = L[i]
        <3> HIDE DEF L
        <3> QED BY <1>1, <2>3, <2>4
    <2>6. /\ acked \o h \in Seq(Entry) /\ Len(acked \o h) = n + Len(h)
          /\ \A i \in 1..(n + Len(h)) : (acked \o h)[i] = IF i <= n THEN acked[i] ELSE h[i - n]
        BY <2>1, <2>4, ConcatProperties
    <2>7. acked' = acked \o h
        BY DEF h
    <2>8. acked' \in Seq(Entry) /\ Len(acked') = n + k
        BY <2>5, <2>6, <2>7
    <2>9. DOMAIN acked' = 1..(n + k)
        BY <2>8, LenProperties
    <2> HIDE DEF n, L
    <2>10. ASSUME NEW i \in 1..(n + k) PROVE acked'[i] = IF i <= n THEN acked[i] ELSE L[i - n]
        <3>1. CASE i <= n
            BY <2>5, <2>6, <2>7, <3>1
        <3>2. CASE ~(i <= n)
            <4>1. i - n \in 1..k
                BY <2>2, <3>2
            <4>2. acked'[i] = h[i - n]
                BY <2>5, <2>6, <2>7, <3>2
            <4> QED BY <2>5, <3>2, <4>1, <4>2
        <3> QED BY <3>1, <3>2
    <2> QED BY <2>1, <2>2, <2>8, <2>9, <2>10
<1> HIDE DEF L, M, n
<1>5. Range1(acked') = Range1(acked) \cup {L[i] : i \in 1..k}
    <2>1. ASSUME NEW e \in Range1(acked') PROVE e \in Range1(acked) \cup {L[i] : i \in 1..k}
        <3>1. PICK i \in 1..(n + k) : e = acked'[i]
            BY <1>4 DEF Range1
        <3>2. CASE i <= n
            <4>1. i \in DOMAIN acked /\ e = acked[i]
                BY <1>4, <3>1, <3>2
            <4> QED BY <4>1 DEF Range1
        <3>3. CASE ~(i <= n)
            <4>1. i - n \in 1..k /\ e = L[i - n]
                BY <1>4, <3>1, <3>3
            <4>2. \E x \in 1..k : e = L[x]
                BY <4>1
            <4> QED BY <4>2
        <3> QED BY <3>2, <3>3
    <2>2. ASSUME NEW e \in Range1(acked) PROVE e \in Range1(acked')
        <3>1. PICK i \in 1..n : e = acked[i]
            BY <1>4 DEF Range1
        <3>2. i \in 1..(n + k) /\ acked'[i] = e
            BY <1>4, <3>1
        <3> QED BY <1>4, <3>2 DEF Range1
    <2>3. ASSUME NEW i \in 1..k PROVE L[i] \in Range1(acked')
        <3>1. n + i \in 1..(n + k) /\ n + i - n = i /\ ~(n + i <= n)
            BY <1>4
        <3>2. acked'[n + i] = L[i]
            BY <1>4, <3>1
        <3> QED BY <1>4, <3>1, <3>2 DEF Range1
    <2> QED BY <2>1, <2>2, <2>3
<1>6. Settled' = Settled \cup {L[i] : i \in 1..m}
    <2>1. 1..m = (1..k) \cup ((k + 1)..m)
        OBVIOUS
    <2> QED BY <1>5, <2>1 DEF Settled, L
<1>7. /\ \A i, j \in DOMAIN L : i < j => L[i] < L[j]
      /\ \A i \in DOMAIN L : L[i] <= pushed /\ \A e \in Settled : e < L[i]
      /\ \A e \in Settled : e <= pushed
      /\ \A i, j \in DOMAIN acked : i < j => acked[i] < acked[j]
      /\ Range1(acked) \cap givenUp = {}
    BY <1>o DEF LineInOrder, L
<1>8. \A i, j \in DOMAIN M : i < j => M[i] < M[j]
    <2> TAKE i, j \in DOMAIN M
    <2>1. m + i \in DOMAIN L /\ m + j \in DOMAIN L /\ M[i] = L[m + i] /\ M[j] = L[m + j]
        BY <1>1, <1>3, SMTT(30)
    <2>2. i < j => m + i < m + j
        BY <1>3
    <2> QED BY <1>7, <2>1, <2>2
<1>9. \A i \in DOMAIN M : M[i] <= pushed /\ \A e \in Settled' : e < M[i]
    <2> TAKE i \in DOMAIN M
    <2>1. m + i \in DOMAIN L /\ M[i] = L[m + i] /\ \A j \in 1..m : j \in DOMAIN L /\ j < m + i
        BY <1>1, <1>3, SMTT(30)
    <2> QED BY <1>6, <1>7, <2>1
<1>10. \A e \in Settled' : e <= pushed
    <2>1. \A j \in 1..m : j \in DOMAIN L
        BY <1>1
    <2> QED BY <1>6, <1>7, <2>1
<1>11. \A i, j \in DOMAIN acked' : i < j => acked'[i] < acked'[j]
    <2> SUFFICES ASSUME NEW i \in 1..(n + k), NEW j \in 1..(n + k), i < j
                 PROVE  acked'[i] < acked'[j]
        BY <1>4
    <2>1. CASE j <= n
        <3>1. i \in 1..n /\ j \in 1..n /\ i <= n
            BY <1>4, <2>1
        <3> QED BY <1>4, <1>7, <2>1, <3>1
    <2>2. CASE i <= n /\ j > n
        <3>1. i \in DOMAIN acked /\ acked'[i] = acked[i] /\ acked[i] \in Settled
            <4>1. i \in 1..n
                BY <1>4, <2>2
            <4> QED BY <1>4, <2>2, <4>1 DEF Settled, Range1
        <3>2. j - n \in DOMAIN L /\ acked'[j] = L[j - n]
            BY <1>1, <1>4, <2>2
        <3> QED BY <1>7, <3>1, <3>2
    <2>3. CASE i > n /\ j > n
        <3>1. i - n \in DOMAIN L /\ j - n \in DOMAIN L /\ i - n < j - n
            BY <1>1, <1>4, <2>3
        <3> QED BY <1>4, <1>7, <2>3, <3>1, SMTT(30)
    <2> QED BY <1>4, <2>1, <2>2, <2>3, SMTT(30)
<1>12. Range1(acked') \cap givenUp' = {}
    <2> SUFFICES ASSUME NEW e \in Range1(acked'), e \in givenUp' PROVE FALSE
        OBVIOUS
    <2>0. \A j \in 1..m : j \in DOMAIN L
        BY <1>1
    <2>1. \A j \in 1..m : j \in DOMAIN L /\ L[j] \in Nat
        BY <1>2, <1>o, <2>0 DEF L
    <2>2. CASE e \in Range1(acked)
        <3>1. e \in Settled /\ e \notin givenUp
            BY <1>7, <2>2 DEF Settled
        <3>2. PICK j \in (k + 1)..m : e = L[j]
            BY <3>1 DEF L
        <3>3. j \in 1..m
            OBVIOUS
        <3> QED BY <1>7, <2>1, <3>1, <3>2, <3>3
    <2>3. CASE e \notin Range1(acked)
        <3>1. PICK i \in 1..k : e = L[i]
            BY <1>5, <2>3
        <3>2. i \in 1..m
            OBVIOUS
        <3>3. CASE e \in givenUp
            BY <1>7, <2>1, <3>1, <3>2, <3>3 DEF Settled
        <3>4. CASE e \notin givenUp
            <4>1. PICK j \in (k + 1)..m : e = L[j]
                BY <3>4 DEF L
            <4>2. j \in 1..m /\ i < j
                OBVIOUS
            <4>3. L[i] < L[j] /\ L[i] \in Nat /\ L[i] = L[j]
                BY <1>7, <2>1, <3>1, <3>2, <4>1, <4>2
            <4> QED BY <4>3
        <3> QED BY <3>3, <3>4
    <2> QED BY <2>2, <2>3
<1>13. LineInOrder'
    BY <1>8, <1>9, <1>10, <1>11, <1>12 DEF LineInOrder, M
<1>14. givenUp' \subseteq Entry
    <2>1. \A i \in (k + 1)..m : i \in DOMAIN L
        BY <1>1
    <2> QED BY <1>2, <1>o, <2>1 DEF L
<1> QED BY <1>3, <1>4, <1>5, <1>13, <1>14 DEF L, M

\* A flush ends: with an answer, without hope, or to be tried again.
LEMMA FlushStep ==
    ASSUME SinkInv, pc = "flushing", NEW k \in Nat, NEW m \in Nat, k <= m, m <= Len(entries),
           acked' = acked \o SubSeq(entries, 1, k),
           entries' = SubSeq(entries, m + 1, Len(entries)),
           givenUp' = givenUp \cup {InTask[i] : i \in (k + 1)..m},
           k < m => failures = max_retry_count,
           \/ m = Len(entries) /\ pc' = resume /\ failures' = 0
           \/ /\ m < Len(entries) /\ pc' = "sleeping"
              /\ failures' = failures + 1 /\ failures' <= max_retry_count,
           UNCHANGED <<pushed, open, buffer, queue, resume, attempts>>
    PROVE  SinkInv'
<1>1. SinkTypeOK /\ OneAtATime /\ LineInOrder /\ AttemptsCounted
    BY DEF SinkInv
<1>2. buffer = << >> /\ Len(entries) \in Nat /\ m \in 0..Len(entries)
    BY <1>1, LineParts DEF OneAtATime
<1>3. /\ InTask' = SubSeq(InTask, m + 1, Len(InTask))
      /\ entries' \in Seq(Entry) /\ Len(entries') = Len(entries) - m
    BY <1>2, FlushTakesFront
<1>4. /\ LineInOrder' /\ acked' \in Seq(Entry) /\ givenUp' \subseteq Entry
      /\ DOMAIN InTask' = 1..(Len(InTask) - m)
      /\ \A i \in DOMAIN InTask' : InTask'[i] = InTask[m + i]
    BY <1>3, FrontSettles
<1>5. failures' \in 0..max_retry_count /\ pc' \in {"loop", "sleeping", "exited"}
    BY <1>1, BatchAssumption, SMTT(30) DEF SinkTypeOK
<1>6. SinkTypeOK'
    BY <1>1, <1>3, <1>4, <1>5 DEF SinkTypeOK
<1>7. OneAtATime'
    <2>1. CASE m = Len(entries)
        <3>1. Len(entries') = 0 /\ pc' = resume
            BY <1>2, <1>3, <2>1
        <3>2. entries' = << >>
            BY <1>3, <3>1, EmptySeq
        <3> QED BY <1>1, <3>1, <3>2 DEF OneAtATime, SinkTypeOK
    <2>2. CASE m < Len(entries)
        <3>1. Len(entries') > 0 /\ pc' = "sleeping"
            BY <1>2, <1>3, <2>2
        <3>2. entries' # << >>
            <4>1. Len(<< >>) = 0 /\ Len(entries') # 0
                BY <1>2, <1>3, <3>1
            <4> QED BY <4>1
        <3> QED BY <1>2, <3>1, <3>2 DEF OneAtATime
    <2> QED BY <2>1, <2>2
<1>8. /\ \A i \in DOMAIN InTask : attempts[InTask[i]] = IF i <= Len(entries) THEN failures + 1 ELSE 0
      /\ DOMAIN InTask = 1..Len(InTask) /\ Len(InTask) \in Nat /\ Len(entries) <= Len(InTask)
    BY <1>1, LineParts DEF AttemptsCounted, Tried
<1>9. ASSUME NEW i \in DOMAIN InTask'
      PROVE  attempts[InTask'[i]] = IF i <= Len(entries') THEN Tried' ELSE 0
    <2>1. /\ m + i \in DOMAIN InTask /\ InTask'[i] = InTask[m + i]
          /\ m + i <= Len(entries) <=> i <= Len(entries')
        BY <1>2, <1>3, <1>4, <1>8
    <2>2. attempts[InTask'[i]] = IF i <= Len(entries') THEN failures + 1 ELSE 0
        BY <1>8, <2>1
    <2>3. i <= Len(entries') => Tried' = failures + 1
        BY <1>2, <1>3, <1>4, <1>8, SMTT(30) DEF Tried
    <2> QED BY <2>2, <2>3
<1>10. ASSUME NEW e \in givenUp' PROVE attempts[e] = max_retry_count + 1
    <2>1. CASE e \in givenUp
        BY <1>1, <2>1 DEF AttemptsCounted, SinkTypeOK
    <2>2. CASE e \notin givenUp
        <3>1. PICK i \in (k + 1)..m : e = InTask[i]
            BY <2>2
        <3>2. i \in DOMAIN InTask /\ i <= Len(entries) /\ failures = max_retry_count
            BY <1>2, <1>8
        <3> QED BY <1>8, <3>1, <3>2
    <2> QED BY <2>1, <2>2
<1>11. AttemptsCounted'
    BY <1>1, <1>9, <1>10 DEF AttemptsCounted
<1> QED BY <1>4, <1>6, <1>7, <1>11 DEF SinkInv

\* Both ways in which flush_with_retry hears of a flush are of that kind.
LEMMA FlushOkStep ==
    ASSUME SinkInv, FlushOk
    PROVE  /\ SinkInv' /\ entries' = << >>
           /\ InTask' = SubSeq(InTask, Len(entries) + 1, Len(InTask))
           /\ Range1(acked') = Range1(acked) \cup Range1(entries)
<1> DEFINE k == Len(entries)
<1>1. entries \in Seq(Entry) /\ k \in Nat /\ pc = "flushing" /\ buffer = << >>
    BY LineParts DEF SinkInv, SinkTypeOK, OneAtATime, FlushOk
<1>2. SubSeq(entries, 1, k) = entries /\ SubSeq(entries, k + 1, k) = << >>
    BY <1>1, SubSeqFull, SubSeqEmpty
<1>3. /\ acked' = acked \o SubSeq(entries, 1, k)
      /\ entries' = SubSeq(entries, k + 1, Len(entries))
      /\ pc' = resume /\ failures' = 0
      /\ UNCHANGED <<pushed, open, buffer, queue, resume, attempts>>
    BY <1>2 DEF FlushOk, Return
<1>4. givenUp' = givenUp \cup {InTask[i] : i \in (k + 1)..k}
    BY <1>1 DEF FlushOk
<1>a. k <= k /\ k <= Len(entries) /\ ~(k < k) /\ k = Len(entries)
    BY <1>1
<1> HIDE DEF k
<1>5. SinkInv'
    BY <1>1, <1>3, <1>4, <1>a, FlushStep
<1>6. InTask' = SubSeq(InTask, k + 1, Len(InTask))
    BY <1>1, <1>3, FlushTakesFront DEF k
<1>7. Range1(acked') = Range1(acked) \cup {InTask[i] : i \in 1..k}
    BY <1>1, <1>3, <1>4, <1>6, <1>a, FrontSettles
<1>8. Range1(entries) = {InTask[i] : i \in 1..k}
    <2>1. DOMAIN entries = 1..k /\ \A i \in 1..k : InTask[i] = entries[i]
        BY <1>1, LineParts, LenProperties DEF k, SinkInv
    <2> QED BY <2>1 DEF Range1
<1> QED BY <1>2, <1>3, <1>5, <1>6, <1>7, <1>8 DEF k

LEMMA FlushErrStep ==
    ASSUME SinkInv, NEW n \in 0..Len(entries), FlushErr(n)
    PROVE  /\ SinkInv'
           /\ \E m \in n..Len(entries) :
                 /\ entries' = SubSeq(entries, m + 1, Len(entries))
                 /\ InTask' = SubSeq(InTask, m + 1, Len(InTask))
           /\ Range1(acked') = Range1(acked) \cup {InTask[i] : i \in 1..n}
           /\ pushed' = pushed
<1> DEFINE len == Len(entries)
<1>1. /\ entries \in Seq(Entry) /\ len \in Nat /\ pc = "flushing" /\ buffer = << >>
      /\ failures \in 0..max_retry_count /\ max_retry_count \in Nat
    BY LineParts, BatchAssumption DEF SinkInv, SinkTypeOK, OneAtATime, FlushErr
<1>2. /\ acked' = acked \o SubSeq(entries, 1, n)
      /\ UNCHANGED <<pushed, open, buffer, queue, resume, attempts>>
    BY DEF FlushErr
<1>3. /\ AfterHead(n) \in Seq(Entry) /\ Len(AfterHead(n)) = len - n
      /\ DOMAIN AfterHead(n) = 1..(len - n)
      /\ \A i \in 1..(len - n) : AfterHead(n)[i] = entries[n + i]
    BY <1>1, CutProperties DEF AfterHead
<1>4. ASSUME NEW m \in Nat, n <= m, m <= len,
             entries' = SubSeq(entries, m + 1, len),
             givenUp' = givenUp \cup {InTask[i] : i \in (n + 1)..m},
             n < m => failures = max_retry_count,
             \/ m = len /\ pc' = resume /\ failures' = 0
             \/ /\ m < len /\ pc' = "sleeping"
                /\ failures' = failures + 1 /\ failures' <= max_retry_count
      PROVE  /\ SinkInv'
             /\ \E l \in n..len : /\ entries' = SubSeq(entries, l + 1, len)
                                  /\ InTask' = SubSeq(InTask, l + 1, Len(InTask))
             /\ Range1(acked') = Range1(acked) \cup {InTask[i] : i \in 1..n}
    <2>1. n \in Nat /\ m \in 0..Len(entries) /\ m \in n..len /\ m <= Len(entries)
        BY <1>1, <1>4
    <2>2. SinkInv'
        BY <1>1, <1>2, <1>4, <2>1, FlushStep
    <2>3. InTask' = SubSeq(InTask, m + 1, Len(InTask))
        BY <1>1, <1>2, <1>4, <2>1, FlushTakesFront
    <2>4. Range1(acked') = Range1(acked) \cup {InTask[i] : i \in 1..n}
        BY <1>2, <1>4, <2>1, <2>3, FrontSettles
    <2> QED BY <1>4, <2>1, <2>2, <2>3, <2>4
<1>e. SubSeq(entries, len + 1, len) = << >>
    BY <1>1, SubSeqEmpty
<1>5. CASE AfterHead(n) = << >> /\ Return /\ UNCHANGED givenUp
    <2>1. n = len
        <3>1. Len(AfterHead(n)) = 0
            BY <1>5
        <3> QED BY <1>1, <1>3, <3>1
    <2>2. givenUp' = givenUp \cup {InTask[i] : i \in (n + 1)..len}
        BY <1>1, <1>5, <2>1
    <2>3. entries' = SubSeq(entries, len + 1, len) /\ pc' = resume /\ failures' = 0
        BY <1>5, <1>e DEF Return
    <2> QED BY <1>1, <1>2, <1>4, <2>1, <2>2, <2>3
<1>6. CASE /\ AfterHead(n) # << >> /\ failures + 1 > max_retry_count
           /\ givenUp' = givenUp \cup Range1(AfterHead(n)) /\ Return
    <2>1. Range1(AfterHead(n)) = {InTask[i] : i \in (n + 1)..len}
        <3>1. \A i \in 1..len : InTask[i] = entries[i]
            BY LineParts DEF SinkInv
        <3>2. ASSUME NEW e \in Range1(AfterHead(n)) PROVE e \in {InTask[i] : i \in (n + 1)..len}
            <4>1. PICK i \in 1..(len - n) : e = entries[n + i]
                BY <1>3 DEF Range1
            <4>2. n + i \in (n + 1)..len /\ n + i \in 1..len
                BY <1>1
            <4>3. \E x \in (n + 1)..len : e = InTask[x]
                BY <3>1, <4>1, <4>2
            <4> QED BY <4>3
        <3>3. ASSUME NEW i \in (n + 1)..len PROVE InTask[i] \in Range1(AfterHead(n))
            <4>1. i - n \in 1..(len - n) /\ n + (i - n) = i /\ i \in 1..len
                BY <1>1
            <4>2. AfterHead(n)[i - n] = InTask[i]
                BY <1>3, <3>1, <4>1
            <4> QED BY <1>3, <4>1, <4>2 DEF Range1
        <3> QED BY <3>2, <3>3
    <2>2. failures = max_retry_count
        BY <1>1, <1>6
    <2>3. entries' = SubSeq(entries, len + 1, len) /\ pc' = resume /\ failures' = 0
        BY <1>6, <1>e DEF Return
    <2>4. len \in Nat /\ n <= len /\ len <= len
        BY <1>1
    <2>5. givenUp' = givenUp \cup {InTask[i] : i \in (n + 1)..len}
        BY <1>6, <2>1
    <2> QED BY <1>2, <1>4, <2>2, <2>3, <2>4, <2>5
<1>7. CASE /\ AfterHead(n) # << >> /\ failures + 1 <= max_retry_count
           /\ failures' = failures + 1 /\ pc' = "sleeping"
           /\ entries' = AfterHead(n) /\ UNCHANGED givenUp
    <2>1. n < len
        <3>1. Len(AfterHead(n)) # 0
            BY <1>3, <1>7, EmptySeq
        <3> QED BY <1>1, <1>3, <3>1
    <2>2. givenUp' = givenUp \cup {InTask[i] : i \in (n + 1)..n}
        BY <1>7
    <2>3. entries' = SubSeq(entries, n + 1, len) /\ failures' <= max_retry_count
        BY <1>7 DEF AfterHead
    <2>4. n \in Nat /\ n <= n /\ n <= len /\ ~(n < n)
        BY <1>1
    <2> QED BY <1>2, <1>4, <1>7, <2>1, <2>2, <2>3, <2>4
<1> QED BY <1>5, <1>6, <1>7 DEF FlushErr

\* The batch is handed to the flusher: those in it are counted once more.
LEMMA BatchTried ==
    ASSUME SinkTypeOK, SinkTypeOK', LineInOrder, InTask' = InTask, Attempt(entries'),
           \A i \in DOMAIN InTask : i <= Len(entries') => attempts[InTask[i]] <= max_retry_count + 1
    PROVE  /\ \A i \in DOMAIN InTask :
                 attempts'[InTask[i]] = attempts[InTask[i]] + (IF i <= Len(entries') THEN 1 ELSE 0)
           /\ \A e \in Entry :
                 attempts'[e] # attempts[e] => \E i \in DOMAIN InTask : i <= Len(entries') /\ e = InTask[i]
<1>1. /\ DOMAIN InTask = 1..Len(InTask) /\ Len(InTask) \in Nat /\ InTask \in Seq(Entry)
    BY LineParts
<1>2. /\ Len(entries') \in Nat /\ Len(entries') <= Len(InTask') /\ DOMAIN entries' = 1..Len(entries')
      /\ \A i \in 1..Len(entries') : InTask'[i] = entries'[i]
    <2> DEFINE eb == entries' \o buffer'
    <2>1. entries' \in Seq(Entry) /\ buffer' \in Seq(Entry) /\ queue' \in Seq(Entry)
        BY DEF SinkTypeOK
    <2>2. Len(entries') \in Nat /\ Len(buffer') \in Nat /\ Len(queue') \in Nat /\ DOMAIN entries' = 1..Len(entries')
        BY <2>1, LenProperties
    <2>3. /\ eb \in Seq(Entry) /\ Len(eb) = Len(entries') + Len(buffer')
          /\ \A i \in 1..(Len(entries') + Len(buffer')) :
                eb[i] = IF i <= Len(entries') THEN entries'[i] ELSE buffer'[i - Len(entries')]
        BY <2>1, ConcatProperties
    <2> HIDE DEF eb
    <2>4. /\ Len(eb \o queue') = Len(eb) + Len(queue')
          /\ \A i \in 1..(Len(eb) + Len(queue')) :
                (eb \o queue')[i] = IF i <= Len(eb) THEN eb[i] ELSE queue'[i - Len(eb)]
        <3>1. eb \in Seq(Entry)
            BY <2>3
        <3> QED BY <2>1, <3>1, ConcatProperties, Zenon
    <2>5. InTask' = eb \o queue'
        BY DEF InTask, eb
    <2> QED BY <2>2, <2>3, <2>4, <2>5
<1>3. Range1(entries') = {InTask[i] : i \in 1..Len(entries')}
    BY <1>2 DEF Range1
<1>4. ASSUME NEW i \in DOMAIN InTask
      PROVE  InTask[i] \in Entry /\ (InTask[i] \in Range1(entries') <=> i <= Len(entries'))
    <2>1. InTask[i] \in Entry
        BY <1>1, ElementOfSeq
    <2>2. CASE i <= Len(entries')
        BY <1>1, <1>2, <1>3, <2>1, <2>2
    <2>3. CASE ~(i <= Len(entries'))
        <3>1. ASSUME NEW j \in 1..Len(entries'), InTask[i] = InTask[j] PROVE FALSE
            <4>1. j \in DOMAIN InTask /\ j < i
                BY <1>1, <1>2, <2>3
            <4>2. InTask[j] < InTask[i] /\ InTask[i] \in Nat
                BY <2>1, <4>1 DEF LineInOrder, Entry
            <4> QED BY <3>1, <4>2
        <3> QED BY <1>3, <2>1, <2>3, <3>1
    <2> QED BY <2>2, <2>3
<1>5. ASSUME NEW e \in Entry
      PROVE  attempts'[e] = IF e \in Range1(entries') /\ attempts[e] <= max_retry_count + 1
                            THEN attempts[e] + 1 ELSE attempts[e]
    BY DEF Attempt
<1>6. ASSUME NEW i \in DOMAIN InTask
      PROVE  attempts'[InTask[i]] = attempts[InTask[i]] + (IF i <= Len(entries') THEN 1 ELSE 0)
    <2>1. InTask[i] \in Entry /\ attempts[InTask[i]] \in Nat
        BY <1>4 DEF SinkTypeOK
    <2> QED BY <1>4, <1>5, <2>1
<1>7. ASSUME NEW e \in Entry, attempts'[e] # attempts[e]
      PROVE  \E i \in DOMAIN InTask : i <= Len(entries') /\ e = InTask[i]
    <2>1. e \in Range1(entries')
        BY <1>5, <1>7
    <2>2. PICK i \in 1..Len(entries') : e = InTask[i]
        BY <1>3, <2>1
    <2>3. i \in DOMAIN InTask /\ i <= Len(entries')
        BY <1>1, <1>2
    <2> QED BY <2>2, <2>3
<1> QED BY <1>6, <1>7

\* A batch is collected, or its retry begins.
LEMMA TryStep ==
    ASSUME SinkInv, Receive \/ Deadline \/ Closed \/ Retry
    PROVE  SinkInv' /\ InTask' = InTask /\ UNCHANGED <<pushed, acked>>
<1>1. SinkTypeOK /\ OneAtATime /\ LineInOrder /\ AttemptsCounted
    BY DEF SinkInv
<1>c. max_retry_count \in Nat
    BY BatchAssumption
<1>2. /\ InTask' = InTask /\ UNCHANGED <<pushed, acked, givenUp, open>>
      /\ {queue', buffer'} \subseteq Seq(Entry)
      /\ \/ /\ pc = "loop" /\ pc' \in {"loop", "exited"}
            /\ UNCHANGED <<resume, entries, failures, attempts>>
         \/ /\ entries' \in Seq(Entry) /\ entries' # << >> /\ buffer' = << >>
            /\ failures' \in 0..max_retry_count /\ pc' = "flushing"
            /\ resume' \in {"loop", "exited"} /\ Attempt(entries')
            /\ \/ pc = "loop" /\ entries = << >> /\ failures' = 0
               \/ pc = "sleeping" /\ UNCHANGED <<entries, failures>>
    <2>1. CASE Receive \/ Deadline \/ Closed
        <3>1. open' = open
            BY <2>1 DEF Receive, Deadline, Closed
        <3> QED BY <1>c, <2>1, <3>1, CollectKeepsLine
    <2>2. CASE Retry
        BY <1>1, <2>2 DEF Retry, InTask, SinkTypeOK, OneAtATime
    <2> QED BY <2>1, <2>2
<1>3. SinkTypeOK'
    <2>1. attempts' \in [Entry -> Nat]
        <3>1. attempts \in [Entry -> Nat]
            BY <1>1 DEF SinkTypeOK
        <3>2. CASE Attempt(entries')
            BY <3>1, <3>2 DEF Attempt
        <3>3. CASE attempts' = attempts
            BY <3>1, <3>3
        <3> QED BY <1>2, <3>2, <3>3
    <2> QED BY <1>1, <1>2, <2>1 DEF SinkTypeOK
<1>4. OneAtATime' /\ LineInOrder'
    BY <1>1, <1>2 DEF OneAtATime, LineInOrder, Settled
<1>5. AttemptsCounted'
    <2>1. CASE /\ pc = "loop" /\ pc' \in {"loop", "exited"}
               /\ UNCHANGED <<resume, entries, failures, attempts>>
        <3>1. Tried' = Tried
            BY <2>1 DEF Tried
        <3> QED BY <1>1, <1>2, <2>1, <3>1 DEF AttemptsCounted
    <2>2. CASE /\ pc' = "flushing" /\ Attempt(entries')
               /\ \/ pc = "loop" /\ entries = << >> /\ failures' = 0
                  \/ pc = "sleeping" /\ UNCHANGED <<entries, failures>>
        <3>1. /\ DOMAIN InTask = 1..Len(InTask) /\ Len(InTask) \in Nat /\ Len(entries) \in Nat
              /\ \A i \in DOMAIN InTask : InTask[i] \in Entry
            BY <1>1, LineParts, ElementOfSeq
        <3>2. /\ \A e \in Entry : attempts[e] \in Nat /\ attempts[e] <= max_retry_count + 1
              /\ failures \in 0..max_retry_count
            BY <1>1 DEF AttemptsCounted, SinkTypeOK
        <3>3. ASSUME NEW i \in DOMAIN InTask
              PROVE  attempts[InTask[i]] = IF pc = "sleeping" /\ i <= Len(entries') THEN failures' ELSE 0
            <4>1. CASE pc = "loop"
                <5>1. Len(entries) = 0
                    BY <2>2, <4>1
                <5>2. ~(i <= Len(entries))
                    BY <3>1, <5>1
                <5> QED BY <1>1, <4>1, <5>2 DEF AttemptsCounted
            <4>2. CASE pc = "sleeping"
                BY <1>1, <2>2, <4>2 DEF AttemptsCounted, Tried
            <4> QED BY <2>2, <4>1, <4>2
        <3>4. /\ Tried' = failures' + 1 /\ failures' \in 0..max_retry_count
              /\ pc = "loop" => failures' = 0
              /\ pc \in {"loop", "sleeping"}
            BY <2>2, <3>2, <1>c DEF Tried
        <3>5. /\ \A i \in DOMAIN InTask :
                    attempts'[InTask[i]] = attempts[InTask[i]] + (IF i <= Len(entries') THEN 1 ELSE 0)
              /\ \A e \in Entry :
                    attempts'[e] # attempts[e] => \E i \in DOMAIN InTask : i <= Len(entries') /\ e = InTask[i]
            <4>1. \A i \in DOMAIN InTask : i <= Len(entries') => attempts[InTask[i]] <= max_retry_count + 1
                BY <3>1, <3>2
            <4> QED BY <1>1, <1>2, <1>3, <2>2, <4>1, BatchTried
        <3>6. ASSUME NEW i \in DOMAIN InTask
              PROVE  attempts'[InTask[i]] = IF i <= Len(entries') THEN Tried' ELSE 0
            <4>1. CASE i <= Len(entries')
                BY <2>2, <3>2, <3>3, <3>4, <3>5, <4>1
            <4>2. CASE ~(i <= Len(entries'))
                BY <3>3, <3>5, <4>2
            <4> QED BY <4>1, <4>2
        <3>7. ASSUME NEW e \in Entry
              PROVE  /\ attempts'[e] <= max_retry_count + 1
                     /\ e > pushed => attempts'[e] = 0
                     /\ e \in givenUp => attempts'[e] = max_retry_count + 1
            <4>1. CASE attempts'[e] = attempts[e]
                BY <1>1, <4>1 DEF AttemptsCounted
            <4>2. CASE attempts'[e] # attempts[e]
                <5>1. PICK i \in DOMAIN InTask : i <= Len(entries') /\ e = InTask[i]
                    BY <3>5, <4>2
                <5>2. attempts'[e] = failures' + 1
                    BY <3>4, <3>6, <5>1
                <5>3. e <= pushed /\ e \notin givenUp /\ e \in Nat /\ pushed \in Nat
                    BY <1>1, <5>1 DEF LineInOrder, Settled, Entry, SinkTypeOK
                <5>4. attempts'[e] <= max_retry_count + 1
                    <6>1. failures' \in 0..max_retry_count
                        BY <3>4
                    <6> DEFINE f == failures'
                               a == attempts'[e]
                    <6>2. f \in 0..max_retry_count /\ a = f + 1
                        BY <5>2, <6>1
                    <6> HIDE DEF f, a
                    <6>3. a <= max_retry_count + 1
                        BY <1>c, <6>2
                    <6> QED BY <6>3 DEF a
                <5>5. ~(e > pushed)
                    BY <5>3
                <5> QED BY <5>3, <5>4, <5>5
            <4> QED BY <4>1, <4>2
        <3> QED BY <1>2, <3>6, <3>7 DEF AttemptsCounted
    <2> QED BY <1>2, <2>1, <2>2
<1> QED BY <1>2, <1>3, <1>4, <1>5 DEF SinkInv

\* An entry is pushed.
LEMMA PushStep ==
    ASSUME SinkInv, push
    PROVE  SinkInv'
<1>1. SinkTypeOK /\ OneAtATime /\ LineInOrder /\ AttemptsCounted
    BY DEF SinkInv
<1>2. SinkTypeOK'
    BY PushToLine
<1>3. /\ UNCHANGED <<buffer, pc, entries, failures, acked, givenUp, attempts>>
      /\ pushed' = pushed + 1 /\ pushed \in Nat
    BY <1>1 DEF push, history, SinkTypeOK
<1>4. OneAtATime' /\ Tried' = Tried /\ Settled' = Settled
    BY <1>1, <1>3 DEF OneAtATime, Tried, Settled
<1>s. \A e \in Settled : e \in Nat /\ e <= pushed
    <2>1. Range1(acked) \subseteq Entry
        BY <1>1, LenProperties, ElementOfSeq DEF SinkTypeOK, Range1
    <2>2. givenUp \subseteq Entry /\ Entry \subseteq Nat
        BY <1>1 DEF SinkTypeOK, Entry
    <2>3. Settled \subseteq Nat
        BY <2>1, <2>2 DEF Settled
    <2> QED BY <1>1, <2>3 DEF LineInOrder
<1>l. /\ InTask \in Seq(Entry) /\ DOMAIN InTask = 1..Len(InTask) /\ Len(InTask) \in Nat
      /\ Len(entries) \in Nat /\ Len(entries) <= Len(InTask)
      /\ \A i \in DOMAIN InTask : InTask[i] \in Nat /\ InTask[i] <= pushed
    <2>1. /\ InTask \in Seq(Entry) /\ DOMAIN InTask = 1..Len(InTask) /\ Len(InTask) \in Nat
          /\ Len(entries) \in Nat /\ Len(entries) <= Len(InTask)
        BY <1>1, LineParts
    <2>2. \A i \in DOMAIN InTask : InTask[i] \in Entry
        BY <2>1, ElementOfSeq
    <2> QED BY <1>1, <2>1, <2>2 DEF LineInOrder, Entry
<1>5. CASE InTask' = InTask
    <2>1. LineInOrder'
        BY <1>1, <1>3, <1>4, <1>s, <1>l, <1>5 DEF LineInOrder
    <2>2. AttemptsCounted'
        BY <1>1, <1>3, <1>4, <1>5 DEF AttemptsCounted, Entry
    <2> QED BY <1>2, <1>4, <2>1, <2>2 DEF SinkInv
<1>6. CASE InTask' = Append(InTask, pushed + 1) /\ pushed + 1 \in Entry
    <2> DEFINE n == Len(InTask)
    <2>1. /\ InTask' \in Seq(Entry) /\ Len(InTask') = n + 1
          /\ \A i \in 1..n : InTask'[i] = InTask[i]
          /\ InTask'[n + 1] = pushed + 1
        BY <1>l, <1>6, AppendProperties
    <2>2. DOMAIN InTask' = 1..(n + 1)
        BY <2>1, LenProperties
    <2>3. ASSUME NEW i \in DOMAIN InTask'
          PROVE  \/ i \in DOMAIN InTask /\ InTask'[i] = InTask[i]
                 \/ i = n + 1 /\ InTask'[i] = pushed + 1
        BY <1>l, <2>1, <2>2
    <2>4. ASSUME NEW i \in DOMAIN InTask', NEW j \in DOMAIN InTask', i < j
          PROVE  InTask'[i] < InTask'[j]
        <3>1. i \in DOMAIN InTask /\ InTask'[i] = InTask[i]
            BY <1>l, <2>2, <2>3, <2>4
        <3> QED BY <1>1, <1>3, <1>l, <2>3, <2>4, <3>1 DEF LineInOrder
    <2>5. ASSUME NEW i \in DOMAIN InTask'
          PROVE  InTask'[i] <= pushed' /\ \A e \in Settled' : e < InTask'[i]
        BY <1>1, <1>3, <1>4, <1>s, <1>l, <2>3 DEF LineInOrder
    <2>6. \A e \in Settled' : e <= pushed'
        BY <1>3, <1>4, <1>s
    <2>7. LineInOrder'
        BY <1>1, <1>3, <2>4, <2>5, <2>6 DEF LineInOrder
    <2>8. ASSUME NEW i \in DOMAIN InTask'
          PROVE  attempts'[InTask'[i]] = IF i <= Len(entries') THEN Tried' ELSE 0
        <3>1. CASE i \in DOMAIN InTask /\ InTask'[i] = InTask[i]
            BY <1>1, <1>3, <1>4, <3>1 DEF AttemptsCounted
        <3>2. CASE i = n + 1 /\ InTask'[i] = pushed + 1
            <4>1. ~(i <= Len(entries)) /\ pushed + 1 > pushed
                BY <1>3, <1>l, <3>2
            <4> QED BY <1>1, <1>3, <1>6, <3>2, <4>1 DEF AttemptsCounted
        <3> QED BY <2>3, <3>1, <3>2
    <2>9. AttemptsCounted'
        BY <1>1, <1>3, <2>8 DEF AttemptsCounted, Entry
    <2> QED BY <1>2, <1>4, <2>7, <2>9 DEF SinkInv
<1> QED BY <1>5, <1>6, PushToLine

-----------------------------------------------------------------------------
(* The sink implements the pipe. *)

\* A sink that was just spawned, or was not, is empty.
LEMMA FreshIsEmpty ==
    ASSUME NEW spawned \in BOOLEAN, Fresh(spawned)
    PROVE  SinkInv /\ InTask = << >>
<1>1. << >> \in Seq(Entry) /\ InTask = << >>
    <2>1. << >> \in Seq(Entry)
        OBVIOUS
    <2> QED BY <2>1, ConcatEmptySeq DEF Fresh, InTask
<1>2. SinkTypeOK
    BY <1>1, BatchAssumption DEF Fresh, SinkTypeOK
<1>3. OneAtATime
    BY DEF Fresh, OneAtATime
<1>4. DOMAIN InTask = {} /\ DOMAIN acked = {} /\ Settled = {}
    BY <1>1 DEF Fresh, Settled, Range1
<1>5. LineInOrder
    BY <1>4 DEF LineInOrder, Settled
<1>6. AttemptsCounted
    <2>1. givenUp = {} /\ \A e \in Entry : attempts[e] = 0
        BY DEF Fresh
    <2> QED BY <1>4, <2>1, BatchAssumption DEF AttemptsCounted
<1> QED BY <1>1, <1>2, <1>3, <1>5, <1>6 DEF SinkInv

\* Every step of the sink keeps its invariant, and is a step of the pipe.
LEMMA SinkStep ==
    ASSUME SinkInv, [Next]_vars
    PROVE  SinkInv' /\ [LP!Accept \/ LP!Settle]_InTask
<1>l. SinkTypeOK /\ InTask \in Seq(Entry) /\ Len(InTask) \in Nat /\ Len(entries) \in Nat
      /\ Len(entries) <= Len(InTask)
    BY LineParts DEF SinkInv
<1>c. ASSUME NEW m \in 0..Len(entries), InTask' = SubSeq(InTask, m + 1, Len(InTask))
      PROVE  [LP!Accept \/ LP!Settle]_InTask
    <2>1. CASE m = 0
        <3>1. SubSeq(InTask, 1, Len(InTask)) = InTask
            BY <1>l, SubSeqFull
        <3>2. m + 1 = 1
            BY <2>1
        <3> QED BY <1>c, <3>1, <3>2
    <2>2. CASE m # 0
        <3>1. m \in 1..Len(InTask)
            BY <1>l, <2>2
        <3> QED BY <1>c, <3>1 DEF LP!Settle
    <2> QED BY <2>1, <2>2
<1>1. CASE push
    BY <1>1, PushStep, PushToLine DEF LP!Accept
<1>2. CASE Receive \/ Deadline \/ Closed \/ Retry
    BY <1>2, TryStep
<1>3. CASE FlushOk
    <2>1. Len(entries) \in 0..Len(entries)
        BY <1>l
    <2> QED BY <1>3, <1>c, <2>1, FlushOkStep
<1>4. ASSUME NEW n \in 0..Len(entries), FlushErr(n)
      PROVE  SinkInv' /\ [LP!Accept \/ LP!Settle]_InTask
    <2>1. PICK m \in n..Len(entries) : InTask' = SubSeq(InTask, m + 1, Len(InTask))
        BY <1>4, FlushErrStep
    <2>2. m \in 0..Len(entries)
        BY <1>l
    <2> QED BY <1>4, <1>c, <2>1, <2>2, FlushErrStep
<1>5. CASE DropSink \/ UNCHANGED vars
    <2>1. /\ UNCHANGED <<pushed, queue, buffer, pc, resume, entries, failures, acked, givenUp, attempts>>
          /\ open' \in BOOLEAN
        BY <1>5, <1>l DEF DropSink, vars, task, history, SinkTypeOK
    <2>2. InTask' = InTask
        BY <2>1 DEF InTask
    <2>3. SinkInv'
        BY <2>1, <2>2 DEF SinkInv, SinkTypeOK, OneAtATime, LineInOrder, Settled, AttemptsCounted, Tried
    <2> QED BY <2>2, <2>3
<1> QED BY <1>1, <1>2, <1>3, <1>4, <1>5 DEF Next, run_loop

\* Retries are exact, since a delivered or abandoned entry is older than all
\* that is in the line, and those in flight have been tried equally often.
LEMMA SinkIsExact == SinkInv => RetriesAreExact
<1> SUFFICES ASSUME SinkInv PROVE RetriesAreExact
    OBVIOUS
<1>1. ASSUME NEW e \in Range1(acked) PROVE e \notin Range1(InTask) \cup givenUp
    <2>1. e \notin givenUp /\ e \in Settled
        BY DEF SinkInv, LineInOrder, Settled
    <2>2. ASSUME NEW i \in DOMAIN InTask, e = InTask[i] PROVE FALSE
        <3>1. InTask[i] < InTask[i] /\ InTask[i] \in Nat
            <4>1. InTask[i] \in Entry
                BY LineParts, ElementOfSeq DEF SinkInv
            <4> QED BY <2>1, <2>2, <4>1 DEF SinkInv, LineInOrder, Entry
        <3> QED BY <3>1
    <2> QED BY <2>1, <2>2 DEF Range1
<1>2. Range1(acked) \cap (Range1(InTask) \cup givenUp) = {}
    BY <1>1
<1> QED BY <1>2 DEF SinkInv, LineInOrder, AttemptsCounted, RetriesAreExact

-----------------------------------------------------------------------------
(* The loggers and their collectors. *)

\* A logger of HTTP calls takes a plain 200 for success.
Takes200 == logger.sends \in {"call", "bulk"} => 200 \in logger.success

\* The collector has entries in the line only if they are in flight, and then
\* an earlier attempt must have left the logger in doubt.
OnlyInDoubt ==
    /\ \A e \in kept : e \in Nat /\ e <= pushed
    /\ \A i \in DOMAIN InTask : InTask[i] \in kept => i <= Len(entries) /\ InTask[i] \in unclear

LoggerInv == SinkInv /\ Takes200 /\ OnlyInDoubt /\ DeliveryExplained

\* A logger that confirms counts only answers below 300.
LEMMA ConfirmingStatuses ==
    ASSUME logger \in Confirming
    PROVE  logger.sends = "call" /\ \A s \in logger.success : s \in Nat /\ s < 300
BY DEF Confirming, LokiLoggerFlusher, LagoFlusher, SplunkFlusher, LogglyFlusher,
       SlsFlusher, GoogleCloudFlusher, Call, Below, Statuses

\* The plugins as they are.
LEMMA PluginsTake200 ==
    ASSUME NEW l \in AllLoggers
    PROVE  l.flusher.sends \in {"call", "bulk"} => 200 \in l.flusher.success
<1>1. 200 \in Below(300) /\ 200 \in Below(400)
    BY DEF Below, Statuses
<1> QED BY <1>1
        DEF AllLoggers, Plugin, Call, Bulk, Send, BatchFlusher,
            HttpLoggerPlugin, LokiLoggerPlugin, LagoPlugin, SkywalkingLoggerPlugin,
            ClickhouseLoggerPlugin, ElasticsearchLoggerPlugin, SplunkHecLoggingPlugin,
            LogglyPlugin, SlsLoggerPlugin, GoogleCloudLoggingPlugin, TencentCloudClsPlugin,
            TcpLoggerPlugin, ErrorLogLoggerPlugin, SyslogPlugin, UdpLoggerPlugin,
            DatadogPlugin, FileLoggerPlugin,
            HttpLoggerFlusher, LokiLoggerFlusher, LagoFlusher, SkywalkingFlusher,
            ClickhouseFlusher, EsFlusher, SplunkFlusher, LogglyFlusher, SlsFlusher,
            GoogleCloudFlusher, ClsFlusher, TcpFlusher, ErrorLogFlusher, SyslogFlusher,
            UdpFlusher, DatadogFlusher, FileFlusher

\* The batch in flight is the head of the line, and has no entry twice.
LEMMA BatchIsFront ==
    ASSUME SinkInv
    PROVE  /\ DOMAIN entries = 1..Len(entries) /\ Len(entries) \in Nat
           /\ DOMAIN InTask = 1..Len(InTask) /\ Len(InTask) \in Nat /\ Len(entries) <= Len(InTask)
           /\ \A i \in 1..Len(entries) : InTask[i] = entries[i] /\ entries[i] \in Entry
           /\ \A i, j \in DOMAIN InTask : InTask[i] = InTask[j] => i = j
           /\ \A i \in DOMAIN InTask : InTask[i] <= pushed /\ InTask[i] \in Nat
           /\ \A n \in 0..Len(entries) : Head1(n) = {entries[i] : i \in 1..n}
<1>1. /\ entries \in Seq(Entry) /\ InTask \in Seq(Entry) /\ pushed \in Nat
      /\ DOMAIN InTask = 1..Len(InTask) /\ Len(InTask) \in Nat /\ Len(entries) <= Len(InTask)
      /\ \A i \in 1..Len(entries) : InTask[i] = entries[i]
    BY LineParts DEF SinkInv, SinkTypeOK
<1>2. DOMAIN entries = 1..Len(entries) /\ Len(entries) \in Nat
    BY <1>1, LenProperties
<1>3. /\ \A i \in 1..Len(entries) : entries[i] \in Entry
      /\ \A i \in DOMAIN InTask : InTask[i] \in Entry
    BY <1>1, ElementOfSeq
<1>4. ASSUME NEW i \in DOMAIN InTask, NEW j \in DOMAIN InTask, InTask[i] = InTask[j]
      PROVE  i = j
    <2>1. (i < j => InTask[i] < InTask[j]) /\ (j < i => InTask[j] < InTask[i])
        BY DEF SinkInv, LineInOrder
    <2>2. InTask[i] \in Nat /\ InTask[j] \in Nat /\ i \in Nat /\ j \in Nat
        BY <1>1, <1>3 DEF Entry
    <2> QED BY <1>4, <2>1, <2>2
<1>5. \A i \in DOMAIN InTask : InTask[i] <= pushed /\ InTask[i] \in Nat
    BY <1>3 DEF SinkInv, LineInOrder, Entry
<1>6. ASSUME NEW n \in 0..Len(entries) PROVE Head1(n) = {entries[i] : i \in 1..n}
    <2> DEFINE h == SubSeq(entries, 1, n)
    <2>1. h \in Seq(Entry) /\ Len(h) = n /\ \A i \in 1..n : h[i] = entries[i]
        BY <1>1, CutProperties
    <2>2. DOMAIN h = 1..n
        BY <2>1, LenProperties
    <2> HIDE DEF h
    <2>3. Range1(h) = {entries[i] : i \in 1..n}
        BY <2>1, <2>2 DEF Range1
    <2> QED BY <2>3 DEF Head1, h
<1> QED BY <1>1, <1>2, <1>3, <1>4, <1>5, <1>6

\* A flush: the entries in S arrive, the first m leave the line; of those that
\* arrive and stay in it, the logger is in doubt.
LEMMA ArriveStep ==
    ASSUME LoggerInv, SinkInv', pushed' = pushed, NEW m \in 0..Len(entries),
           entries' = SubSeq(entries, m + 1, Len(entries)),
           InTask' = SubSeq(InTask, m + 1, Len(InTask)),
           NEW S \in SUBSET Range1(entries), NEW U, Arrive(S, U),
           \A i \in 1..Len(entries) : entries[i] \in S => i <= m \/ entries[i] \in U \cup unclear,
           logger \in Confirming => Range1(acked') \subseteq kept'
    PROVE  LoggerInv'
<1>1. SinkInv /\ Takes200 /\ OnlyInDoubt /\ DeliveryExplained
    BY DEF LoggerInv
<1>2. /\ kept' = kept \cup S /\ copied' = copied \cup (S \cap kept)
      /\ unclear' = unclear \cup U /\ logger' = logger
    BY DEF Arrive
<1>3. /\ DOMAIN entries = 1..Len(entries) /\ Len(entries) \in Nat
      /\ DOMAIN InTask = 1..Len(InTask) /\ Len(InTask) \in Nat /\ Len(entries) <= Len(InTask)
      /\ \A i \in 1..Len(entries) : InTask[i] = entries[i] /\ entries[i] \in Entry
      /\ \A i, j \in DOMAIN InTask : InTask[i] = InTask[j] => i = j
      /\ \A i \in DOMAIN InTask : InTask[i] <= pushed /\ InTask[i] \in Nat
    BY <1>1, BatchIsFront
<1>4. ASSUME NEW e \in S PROVE \E j \in 1..Len(entries) : e = entries[j] /\ e = InTask[j] /\ j \in DOMAIN InTask
    <2>1. PICK j \in 1..Len(entries) : e = entries[j]
        BY <1>3 DEF Range1
    <2>2. j \in DOMAIN InTask
        BY <1>3
    <2> QED BY <1>3, <2>1, <2>2
<1>5. \A e \in kept' : e \in Nat /\ e <= pushed'
    BY <1>1, <1>2, <1>3, <1>4 DEF OnlyInDoubt
<1>6. /\ DOMAIN InTask' = 1..(Len(InTask) - m) /\ Len(entries') = Len(entries) - m
      /\ \A i \in 1..(Len(InTask) - m) : InTask'[i] = InTask[m + i]
    <2>1. InTask \in Seq(Entry) /\ entries \in Seq(Entry)
        BY <1>1, LineParts DEF SinkInv, SinkTypeOK
    <2>2. m \in 0..Len(InTask)
        BY <1>3
    <2> QED BY <2>1, <2>2, CutProperties
<1>7. ASSUME NEW i \in DOMAIN InTask', InTask'[i] \in kept'
      PROVE  i <= Len(entries') /\ InTask'[i] \in unclear'
    <2>0. i \in 1..(Len(InTask) - m)
        BY <1>6
    <2>a. m + i \in 1..Len(InTask) /\ i \in Nat \ {0}
        BY <1>3, <2>0
    <2>1. m + i \in DOMAIN InTask /\ InTask'[i] = InTask[m + i]
        BY <1>3, <1>6, <2>0, <2>a
    <2>2. CASE InTask[m + i] \in kept
        <3>1. m + i <= Len(entries) /\ InTask[m + i] \in unclear
            BY <1>1, <2>1, <2>2 DEF OnlyInDoubt
        <3>2. InTask'[i] \in unclear'
            BY <1>2, <2>1, <3>1
        <3>3. /\ Len(entries') = Len(entries) - m /\ Len(entries) \in Nat
              /\ m \in Nat /\ i \in Nat
            <4>1. Len(entries) \in Nat
                BY <1>3
            <4> QED BY <1>6, <2>a, <4>1
        <3> DEFINE l == Len(entries)
                   k == Len(entries')
        <3>4. i <= k
            <4>1. k = l - m /\ l \in Nat /\ m + i <= l
                BY <3>1, <3>3
            <4> HIDE DEF l, k
            <4> QED BY <4>1, <3>3
        <3> QED BY <3>2, <3>4
    <2>3. CASE InTask[m + i] \in S
        <3>1. PICK j \in 1..Len(entries) : InTask[m + i] = entries[j] /\ InTask[m + i] = InTask[j] /\ j \in DOMAIN InTask
            BY <1>4, <2>3
        <3>2. j = m + i
            BY <1>3, <2>1, <3>1
        <3>3. ~(j <= m) /\ i <= Len(entries')
            <4>1. Len(entries') = Len(entries) - m /\ m \in Nat
                BY <1>6
            <4>2. ~(j <= m)
                BY <2>a, <3>2, <4>1
            <4>3. i <= Len(entries) - m
                <5>1. Len(entries) \in Nat /\ m \in Nat /\ i \in Nat
                    BY <1>3, <2>a
                <5>2. m + i <= Len(entries)
                    BY <3>2, <5>1
                <5> HIDE DEF InTask
                <5> QED BY ONLY <5>1, <5>2
            <4> QED BY <4>1, <4>2, <4>3
        <3>4. entries[j] \in U \cup unclear
            BY <2>3, <3>1, <3>3
        <3> QED BY <1>2, <2>1, <3>1, <3>3, <3>4
    <2> QED BY <1>2, <1>7, <2>1, <2>2, <2>3
<1>8. copied' \subseteq unclear'
    <2>1. ASSUME NEW e \in S, e \in kept PROVE e \in unclear
        BY <1>1, <1>4, <2>1 DEF OnlyInDoubt
    <2> QED BY <1>1, <1>2, <2>1 DEF DeliveryExplained
<1>9. OnlyInDoubt'
    BY <1>5, <1>7 DEF OnlyInDoubt
<1>10. DeliveryExplained' /\ Takes200'
    BY <1>1, <1>2, <1>8 DEF DeliveryExplained, Takes200
<1> QED BY <1>9, <1>10 DEF LoggerInv

\* The batch was delivered, as far as the logger can tell.
LEMMA TakenStep ==
    ASSUME LoggerInv, FlushOk, NEW S \in SUBSET Batch, NEW U, Arrive(S, U),
           logger \in Confirming => S = Batch
    PROVE  LoggerInv'
<1>1. SinkInv /\ Len(entries) \in Nat /\ entries \in Seq(Entry)
    BY BatchIsFront DEF LoggerInv, SinkInv, SinkTypeOK
<1>2. /\ SinkInv' /\ entries' = << >> /\ pushed' = pushed
      /\ InTask' = SubSeq(InTask, Len(entries) + 1, Len(InTask))
      /\ Range1(acked') = Range1(acked) \cup Range1(entries)
    BY <1>1, FlushOkStep DEF FlushOk
<1>3. entries' = SubSeq(entries, Len(entries) + 1, Len(entries))
    BY <1>1, <1>2, SubSeqEmpty
<1>4. Len(entries) \in 0..Len(entries) /\ \A i \in 1..Len(entries) : i <= Len(entries)
    BY <1>1
<1>5. logger \in Confirming => Range1(acked') \subseteq kept'
    BY <1>2 DEF LoggerInv, DeliveryExplained, Arrive, Batch
<1>6. S \in SUBSET Range1(entries)
    BY DEF Batch
<1> QED BY <1>2, <1>3, <1>4, <1>5, <1>6, ArriveStep

\* The flush failed after its first n entries; in doubt are at least those that
\* arrived and will be sent again.
LEMMA FailedStep ==
    ASSUME LoggerInv, NEW n \in 0..Len(entries), FlushErr(n),
           NEW S \in SUBSET Batch, NEW U, Arrive(S, U), n = 0 \/ logger \notin Confirming,
           \A i \in 1..Len(entries) : entries[i] \in S => i <= n \/ entries[i] \in U
    PROVE  LoggerInv'
<1>1. SinkInv /\ Len(entries) \in Nat
    BY BatchIsFront DEF LoggerInv
<1>2. /\ SinkInv' /\ pushed' = pushed
      /\ Range1(acked') = Range1(acked) \cup {InTask[i] : i \in 1..n}
    BY <1>1, FlushErrStep
<1>3. PICK m \in n..Len(entries) :
          /\ entries' = SubSeq(entries, m + 1, Len(entries))
          /\ InTask' = SubSeq(InTask, m + 1, Len(InTask))
    BY <1>1, FlushErrStep
<1>4. m \in 0..Len(entries) /\ \A i \in 1..Len(entries) : i <= n => i <= m
    BY <1>1
<1>5. logger \in Confirming => Range1(acked') \subseteq kept'
    <2>1. n = 0 => {InTask[i] : i \in 1..n} = {}
        OBVIOUS
    <2> QED BY <1>2, <2>1 DEF LoggerInv, DeliveryExplained, Arrive
<1>6. \A i \in 1..Len(entries) : entries[i] \in S => i <= m \/ entries[i] \in U \cup unclear
    BY <1>4
<1>7. S \in SUBSET Range1(entries)
    BY DEF Batch
<1> QED BY <1>2, <1>3, <1>4, <1>5, <1>6, <1>7, ArriveStep

\* Every flusher keeps the invariant.
LEMMA FlusherStep ==
    ASSUME LoggerInv, Flush
    PROVE  LoggerInv'
<1>1. /\ DOMAIN entries = 1..Len(entries) /\ Len(entries) \in Nat
      /\ \A n \in 0..Len(entries) : Head1(n) = {entries[i] : i \in 1..n}
      /\ \A i, j \in 1..Len(entries) : entries[i] = entries[j] => i = j
    <2>1. SinkInv
        BY DEF LoggerInv
    <2>2. /\ DOMAIN entries = 1..Len(entries) /\ Len(entries) \in Nat
          /\ DOMAIN InTask = 1..Len(InTask) /\ Len(InTask) \in Nat /\ Len(entries) <= Len(InTask)
          /\ \A i \in 1..Len(entries) : InTask[i] = entries[i]
          /\ \A i, j \in DOMAIN InTask : InTask[i] = InTask[j] => i = j
          /\ \A n \in 0..Len(entries) : Head1(n) = {entries[i] : i \in 1..n}
        BY <2>1, BatchIsFront
    <2>3. \A i \in 1..Len(entries) : i \in DOMAIN InTask
        BY <2>2
    <2> QED BY <2>2, <2>3
<1>2. /\ Batch = {entries[i] : i \in 1..Len(entries)}
      /\ \A n \in 0..Len(entries) : Head1(n) \subseteq Batch
    BY <1>1 DEF Batch, Range1
<1>3. 0 \in 0..Len(entries) /\ {} \in SUBSET Batch /\ Batch \in SUBSET Batch
    BY <1>1
<1>4. logger \in Confirming => logger.sends = "call"
    BY ConfirmingStatuses
<1>5. ASSUME NEW s \in Statuses, Answer(s) PROVE LoggerInv'
    <2>1. s < 300 => s \in logger.success
        <3>1. s < 300 => s = 200 \/ s = 204
            BY DEF Statuses
        <3> QED BY <1>5, <3>1 DEF Answer, LoggerInv, Takes200
    <2>2. CASE s \in logger.success
        <3>1. logger \in Confirming => s < 300
            BY <2>2, ConfirmingStatuses
        <3>2. CASE s < 300
            <4>1. PICK S \in Accepted : Arrive(S, {})
                BY <1>5, <3>2 DEF Answer
            <4>2. S \in SUBSET Batch /\ (logger \in Confirming => S = Batch)
                BY <1>4 DEF Accepted
            <4> QED BY <1>5, <2>2, <4>1, <4>2, TakenStep DEF Answer
        <3>3. CASE ~(s < 300)
            BY <1>3, <1>5, <2>2, <3>1, <3>3, TakenStep DEF Answer
        <3> QED BY <3>2, <3>3
    <2>3. CASE s \notin logger.success
        <3>1. Arrive({}, {}) /\ FlushErr(0)
            BY <1>5, <2>1, <2>3 DEF Answer
        <3> QED BY <1>3, <3>1, FailedStep
    <2> QED BY <2>2, <2>3
<1>6. CASE NoAnswer
    <2>1. FlushErr(0)
        BY <1>6 DEF NoAnswer
    <2>2. CASE Arrive({}, {})
        BY <1>3, <2>1, <2>2, FailedStep
    <2>3. ASSUME NEW S \in {{}} \cup Accepted, Arrive(S, Batch) PROVE LoggerInv'
        <3>1. S \in SUBSET Batch
            BY DEF Accepted
        <3> QED BY <1>2, <1>3, <2>1, <2>3, <3>1, FailedStep
    <2> QED BY <1>6, <2>2, <2>3 DEF NoAnswer
<1>7. ASSUME NEW n \in 0..Len(entries), Arrive(Head1(n), Batch), FlushOk \/ FlushErr(0),
             logger \notin Confirming
      PROVE  LoggerInv'
    <2>1. CASE FlushOk
        BY <1>2, <1>7, <2>1, TakenStep
    <2>2. CASE FlushErr(0)
        BY <1>2, <1>3, <1>7, <2>2, FailedStep
    <2> QED BY <1>7, <2>1, <2>2
<1>8. CASE Stream
    BY <1>4, <1>7, <1>8 DEF Stream
<1>9. CASE Datagram
    <2>1. CASE FlushErr(0) /\ Arrive({}, {})
        BY <1>3, <2>1, FailedStep
    <2>2. ASSUME FlushOk, NEW S \in {{}, Batch}, Arrive(S, {}) PROVE LoggerInv'
        BY <1>3, <1>4, <1>9, <2>2, TakenStep DEF Datagram
    <2> QED BY <1>9, <2>1, <2>2 DEF Datagram
<1>10. CASE Datagrams
    <2>0. logger \notin Confirming
        BY <1>4, <1>10 DEF Datagrams
    <2>1. PICK n \in 0..Len(entries) : \E S \in SUBSET Head1(n) :
             \/ n = Len(entries) /\ Arrive(S, {}) /\ FlushOk
             \/ n < Len(entries) /\ Arrive(S, {}) /\ FlushErr(n)
             \/ /\ n < Len(entries)
                /\ Arrive(S \cup {entries[n + 1]}, {entries[n + 1]})
                /\ FlushErr(n)
        BY <1>10 DEF Datagrams
    <2>2. PICK S \in SUBSET Head1(n) :
             \/ n = Len(entries) /\ Arrive(S, {}) /\ FlushOk
             \/ n < Len(entries) /\ Arrive(S, {}) /\ FlushErr(n)
             \/ /\ n < Len(entries)
                /\ Arrive(S \cup {entries[n + 1]}, {entries[n + 1]})
                /\ FlushErr(n)
        BY <2>1
    <2>3. S \in SUBSET Batch
        BY <1>2
    <2>4. ASSUME NEW i \in 1..Len(entries), entries[i] \in S PROVE i <= n
        <3>1. PICK j \in 1..n : entries[i] = entries[j]
            BY <1>1, <2>4
        <3>2. j \in 1..Len(entries)
            BY <1>1
        <3>3. i = j
            BY <1>1, <3>1, <3>2
        <3> QED BY <3>3
    <2>5. CASE Arrive(S, {}) /\ FlushOk
        BY <2>0, <2>3, <2>5, TakenStep
    <2>6. CASE Arrive(S, {}) /\ FlushErr(n)
        BY <2>0, <2>3, <2>4, <2>6, FailedStep
    <2>7. CASE /\ n < Len(entries) /\ FlushErr(n)
               /\ Arrive(S \cup {entries[n + 1]}, {entries[n + 1]})
        <3>1. n + 1 \in 1..Len(entries)
            BY <1>1, <2>7
        <3>2. S \cup {entries[n + 1]} \in SUBSET Batch
            BY <1>2, <2>3, <3>1
        <3>3. \A i \in 1..Len(entries) :
                 entries[i] \in S \cup {entries[n + 1]} => i <= n \/ entries[i] \in {entries[n + 1]}
            BY <2>4
        <3> QED BY <2>0, <2>7, <3>2, <3>3, FailedStep
    <2> QED BY <2>2, <2>5, <2>6, <2>7
<1>11. CASE Append1
    <2>1. CASE FlushErr(0) /\ Arrive({}, {})
        BY <1>3, <2>1, FailedStep
    <2>2. ASSUME NEW n \in 0..Len(entries), Arrive(Head1(n), Batch), FlushOk \/ FlushErr(0)
          PROVE  LoggerInv'
        BY <1>4, <1>7, <1>11, <2>2 DEF Append1
    <2> QED BY <1>11, <2>1, <2>2 DEF Append1
<1>12. CASE AnyFlusher
    <2>1. Arrive({}, {}) /\ logger \notin Confirming
        BY <1>4, <1>12 DEF AnyFlusher, Arrive, collector
    <2>2. CASE FlushOk
        BY <1>3, <2>1, <2>2, TakenStep
    <2>3. ASSUME NEW n \in 0..Len(entries), FlushErr(n) PROVE LoggerInv'
        BY <1>3, <2>1, <2>3, FailedStep
    <2> QED BY <1>12, <2>2, <2>3 DEF AnyFlusher
<1> QED BY <1>5, <1>6, <1>8, <1>9, <1>10, <1>11, <1>12 DEF Flush

\* A flusher's outcomes are among those the sink is prepared for.
LEMMA FlushersUseSink == SinkInv /\ [LoggerNext]_loggerVars => [Next]_vars
<1> SUFFICES ASSUME SinkInv, [LoggerNext]_loggerVars PROVE [Next]_vars
    OBVIOUS
<1>1. 0 \in 0..Len(entries)
    BY BatchIsFront
<1>2. ASSUME Flush PROVE FlushOk \/ \E n \in 0..Len(entries) : FlushErr(n)
    BY <1>1, <1>2 DEF Flush, Answer, NoAnswer, Stream, Datagram, Datagrams, Append1, AnyFlusher
<1> QED BY <1>2 DEF LoggerNext, LoggerTask, Next, run_loop, loggerVars

LEMMA LoggerStep == LoggerInv /\ [LoggerNext]_loggerVars => LoggerInv'
<1> SUFFICES ASSUME LoggerInv, [LoggerNext]_loggerVars PROVE LoggerInv'
    OBVIOUS
<1>1. SinkInv /\ Takes200 /\ OnlyInDoubt /\ DeliveryExplained
    BY DEF LoggerInv
<1>2. SinkInv'
    BY <1>1, FlushersUseSink, SinkStep
<1>3. CASE Flush
    BY <1>3, FlusherStep
<1>4. ASSUME UNCHANGED collector, acked' = acked, OnlyInDoubt' PROVE LoggerInv'
    BY <1>1, <1>2, <1>4 DEF LoggerInv, collector, Takes200, DeliveryExplained
<1>5. CASE (Receive \/ Deadline \/ Closed \/ Retry) /\ Elsewhere
    <2>1. InTask' = InTask /\ UNCHANGED <<pushed, acked>> /\ UNCHANGED collector
        BY <1>1, <1>5, TryStep DEF Elsewhere
    <2>2. \A i \in DOMAIN InTask : i <= Len(entries) => i <= Len(entries')
        <3>1. CASE Retry
            BY <3>1 DEF Retry
        <3>2. CASE Receive \/ Deadline \/ Closed
            <4>1. Len(entries) = 0
                BY <1>1, <3>2, CollectKeepsLine
            <4>2. \A i \in DOMAIN InTask : ~(i <= Len(entries))
                BY <1>1, <4>1, BatchIsFront
            <4> QED BY <4>2
        <3> QED BY <1>5, <3>1, <3>2
    <2>3. OnlyInDoubt'
        BY <1>1, <2>1, <2>2 DEF OnlyInDoubt, collector
    <2> QED BY <1>4, <2>1, <2>3
<1>6. CASE push /\ Elsewhere
    <2>1. /\ pushed' = pushed + 1 /\ UNCHANGED <<acked, entries>> /\ UNCHANGED collector /\ pushed \in Nat
        BY <1>1, <1>6 DEF push, history, Elsewhere, SinkInv, SinkTypeOK
    <2>2. /\ InTask \in Seq(Entry) /\ DOMAIN InTask = 1..Len(InTask) /\ Len(InTask) \in Nat
        BY <1>1, LineParts DEF SinkInv
    <2>3. pushed + 1 \notin kept
        BY <1>1, <2>1 DEF OnlyInDoubt
    <2>4. \A i \in DOMAIN InTask' : InTask'[i] = pushed + 1 \/ (i \in DOMAIN InTask /\ InTask'[i] = InTask[i])
        <3>1. CASE InTask' = InTask
            BY <3>1
        <3>2. CASE InTask' = Append(InTask, pushed + 1) /\ pushed + 1 \in Entry
            <4>1. /\ InTask' \in Seq(Entry) /\ Len(InTask') = Len(InTask) + 1
                  /\ \A i \in 1..Len(InTask) : InTask'[i] = InTask[i]
                  /\ InTask'[Len(InTask) + 1] = pushed + 1
                BY <2>2, <3>2, AppendProperties
            <4>2. DOMAIN InTask' = 1..(Len(InTask) + 1)
                BY <4>1, LenProperties
            <4>3. ASSUME NEW i \in 1..(Len(InTask) + 1)
                  PROVE  i = Len(InTask) + 1 \/ i \in 1..Len(InTask)
                BY <2>2
            <4> QED BY <2>2, <4>1, <4>2, <4>3
        <3> QED BY <1>1, <1>6, <3>1, <3>2, PushToLine
    <2>5. \A e \in kept : e \in Nat /\ e <= pushed + 1
        <3>1. \A e \in kept : e \in Nat /\ e <= pushed
            BY <1>1 DEF OnlyInDoubt
        <3> QED BY <2>1, <3>1
    <2>6. OnlyInDoubt'
        BY <1>1, <2>1, <2>3, <2>4, <2>5 DEF OnlyInDoubt, collector
    <2> QED BY <1>4, <2>1, <2>6
<1>7. CASE (DropSink /\ Elsewhere) \/ UNCHANGED loggerVars
    <2>1. UNCHANGED <<pushed, queue, buffer, entries, acked>> /\ UNCHANGED collector
        BY <1>7 DEF DropSink, task, history, Elsewhere, loggerVars, vars
    <2>2. InTask' = InTask
        BY <2>1 DEF InTask
    <2>3. OnlyInDoubt'
        BY <1>1, <2>1, <2>2 DEF OnlyInDoubt, collector
    <2> QED BY <1>4, <2>1, <2>3
<1> QED BY <1>3, <1>5, <1>6, <1>7 DEF LoggerNext, LoggerTask

LEMMA LoggerBegins == LoggerInit => LoggerInv /\ InTask = << >>
<1> SUFFICES ASSUME LoggerInit PROVE LoggerInv /\ InTask = << >>
    OBVIOUS
<1>1. PICK l \in Loggers : \E keys \in Configs(l) : logger = l.flusher /\ Fresh(from_config_ok(l, keys))
    BY DEF LoggerInit
<1>2. PICK keys \in Configs(l) : logger = l.flusher /\ Fresh(from_config_ok(l, keys))
    BY <1>1
<1>3. from_config_ok(l, keys) \in BOOLEAN
    BY DEF from_config_ok
<1>4. SinkInv /\ InTask = << >>
    BY <1>2, <1>3, FreshIsEmpty
<1>5. Takes200
    BY <1>2, LoggerAssumption, PluginsTake200 DEF Takes200
<1>6. DOMAIN InTask = {} /\ Range1(acked) = {}
    BY <1>2, <1>4 DEF Fresh, Range1
<1>7. OnlyInDoubt /\ DeliveryExplained
    BY <1>6 DEF LoggerInit, OnlyInDoubt, DeliveryExplained
<1> QED BY <1>4, <1>5, <1>7 DEF LoggerInv

\* The inductive invariant of the sink and of the collector behind it.
THEOREM LoggerInvAlways == LoggerSpec => []LoggerInv
BY LoggerBegins, LoggerStep, PTL DEF LoggerSpec

\* With any logger, an entry is not sent again once it was reported delivered,
\* and is given up after the first attempt and all the retries, no sooner.
THEOREM RetriesAlways == LoggerSpec => []RetriesAreExact
<1>1. LoggerInv => RetriesAreExact
    BY SinkIsExact DEF LoggerInv
<1> QED BY <1>1, LoggerInvAlways, PTL

\* A logger that waits for its collector's word counts nothing as delivered
\* that is not, and copies have their cause in an attempt that was in doubt.
THEOREM DeliveryAlways == LoggerSpec => []DeliveryExplained
<1>1. LoggerInv => DeliveryExplained
    BY DEF LoggerInv
<1> QED BY <1>1, LoggerInvAlways, PTL

\* With any logger, the sink is an in-order pipe: channel, buffer and batch in
\* flight together are its line, which grows at one end and is settled from
\* the other (that it is settled in the end is left to TLC).
THEOREM LoggersImplementPipe ==
    LoggerSpec => LP!Init /\ [][LP!Accept \/ LP!Settle]_InTask
<1>1. LoggerInit => LP!Init
    BY LoggerBegins DEF LP!Init
<1>2. LoggerInv /\ [LoggerNext]_loggerVars => [LP!Accept \/ LP!Settle]_InTask
    BY FlushersUseSink, SinkStep DEF LoggerInv
<1> QED BY <1>1, <1>2, LoggerInvAlways, PTL DEF LoggerSpec
=============================================================================
