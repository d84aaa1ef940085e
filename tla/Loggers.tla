------------------------------ MODULE Loggers ------------------------------
(***************************************************************************)
(* The logger plugins: which of the outcomes of a flush each of them can   *)
(* report to its batching sink, and what the collector has kept then.      *)
(*                                                                         *)
(* A flusher is a record: how it sends a batch and which answers it takes  *)
(* for success; a plugin is a flusher and what from_config insists on.     *)
(* What an entry says, how it is encoded and signed is left out.  The      *)
(* collector at the other end is external.                                 *)
(***************************************************************************)
EXTENDS BatchSink

CONSTANT Loggers    \* the plugins to look at

Statuses == {200, 204, 302, 401, 404, 503}

Below(n) == {s \in Statuses : s < n}

\* One HTTP call for a batch, and the answers that count as success.
Call(success) == [sends |-> "call", success |-> success]

\* One HTTP call in which the collector decides on every entry by itself.
Bulk(success) == [sends |-> "bulk", success |-> success]

\* A connection, a datagram for the batch, one for each entry, several for each,
\* or an append to a file.
Send(how) == [sends |-> how, success |-> {}]

HttpLoggerFlusher     == Call(Below(400))
LokiLoggerFlusher     == Call(Below(300))
LagoFlusher           == Call(Below(300))
SkywalkingFlusher     == Call(Below(400))
ClickhouseFlusher     == Call(Below(400))
\* The status alone decides: the result for each entry is in a body nobody reads.
EsFlusher             == Bulk({200})
SplunkFlusher         == Call({200})
LogglyFlusher         == Call({200})
SlsFlusher            == Call({200})
GoogleCloudFlusher    == Call({200})
\* 401, 403, 404 and 413 are not worth a retry: the batch is dropped.
ClsFlusher            == Call({200, 401, 404})
TcpFlusher            == Send("stream")
ErrorLogFlusher       == Send("stream")
SyslogFlusher(socket) == Send(IF socket = "tcp" THEN "stream" ELSE "datagram")
UdpFlusher            == Send("datagrams")
DatadogFlusher        == Send("lines")
FileFlusher           == Send("file")

\* from_config: a plugin lacks none of the keys it needs and has none it refuses
\* (a value it cannot honour counts as a key of its own).
Plugin(flusher, needs, refuses) == [flusher |-> flusher, needs |-> needs, refuses |-> refuses]

HttpLoggerPlugin          == Plugin(HttpLoggerFlusher, {"uri"}, {"concat_method"})
LokiLoggerPlugin          == Plugin(LokiLoggerFlusher, {"endpoint_addrs"}, {})
LagoPlugin                == Plugin(LagoFlusher, {"endpoint", "token", "event_transaction_id",
                                                  "subscription_id", "event_code"}, {})
SkywalkingLoggerPlugin    == Plugin(SkywalkingFlusher, {"endpoint_addr"}, {})
ClickhouseLoggerPlugin    == Plugin(ClickhouseFlusher, {"endpoint_addrs", "logtable", "database"}, {})
ElasticsearchLoggerPlugin == Plugin(EsFlusher, {"endpoint_addrs", "field", "field.index"}, {})
SplunkHecLoggingPlugin    == Plugin(SplunkFlusher, {"endpoint.uri", "endpoint.token"}, {})
LogglyPlugin              == Plugin(LogglyFlusher, {"customer_token"}, {})
SlsLoggerPlugin           == Plugin(SlsFlusher, {"host", "port", "project", "logstore",
                                                 "access_key_id", "access_key_secret"}, {})
GoogleCloudLoggingPlugin  == Plugin(GoogleCloudFlusher, {"client_email", "private_key", "project_id"}, {})
TencentCloudClsPlugin     == Plugin(ClsFlusher, {"cls_host", "cls_topic", "secret_id", "secret_key"}, {})
TcpLoggerPlugin           == Plugin(TcpFlusher, {"host", "port"}, {"tls"})
ErrorLogLoggerPlugin      == Plugin(ErrorLogFlusher, {"host", "port"}, {"tls", "level"})
SyslogPlugin(socket)      == Plugin(SyslogFlusher(socket), {"host"}, {"tls", "sock_type"})
UdpLoggerPlugin           == Plugin(UdpFlusher, {"host", "port"}, {})
DatadogPlugin             == Plugin(DatadogFlusher, {}, {"port"})
FileLoggerPlugin          == Plugin(FileFlusher, {"path"}, {})

\* The trait the sink is generic in, with no plugin behind it.
BatchFlusher == Send("any")

AllLoggers ==
    {HttpLoggerPlugin, LokiLoggerPlugin, LagoPlugin, SkywalkingLoggerPlugin,
     ClickhouseLoggerPlugin, ElasticsearchLoggerPlugin, SplunkHecLoggingPlugin,
     LogglyPlugin, SlsLoggerPlugin, GoogleCloudLoggingPlugin, TencentCloudClsPlugin,
     TcpLoggerPlugin, ErrorLogLoggerPlugin, SyslogPlugin("tcp"), SyslogPlugin("udp"),
     UdpLoggerPlugin, DatadogPlugin, FileLoggerPlugin, Plugin(BatchFlusher, {}, {})}

ASSUME LoggerAssumption == Loggers \subseteq AllLoggers

VARIABLES
    logger,     \* the flusher of the plugin in the policy
    kept,       \* external: the entries the collector has
    copied,     \* external: the entries it has more than once
    unclear     \* history: entries for which an attempt told neither yes nor no

collector  == <<logger, kept, copied, unclear>>
loggerVars == <<vars, collector>>

\* A complete configuration, and those with one mistake.
Configs(l) == {l.needs} \cup {l.needs \ {k} : k \in l.needs} \cup {l.needs \cup {k} : k \in l.refuses}

\* A node that from_config refuses spawns no sink.
from_config_ok(l, keys) == l.needs \subseteq keys /\ keys \cap l.refuses = {}

LoggerInit ==
    /\ \E l \in Loggers : \E keys \in Configs(l) :
          logger = l.flusher /\ Fresh(from_config_ok(l, keys))
    /\ kept = {} /\ copied = {} /\ unclear = {}

-----------------------------------------------------------------------------
(* One flush. *)

\* The entries in S arrive; of those in U the logger cannot know.
Arrive(S, U) ==
    /\ kept' = kept \cup S
    /\ copied' = copied \cup (S \cap kept)
    /\ unclear' = unclear \cup U
    /\ UNCHANGED logger

Head1(n) == Range1(SubSeq(entries, 1, n))
Batch    == Range1(entries)

\* What a collector may keep of a batch it has accepted.
Accepted == IF logger.sends = "bulk" THEN SUBSET Batch ELSE {Batch}

\* A collector keeps nothing unless it answers with a 2xx, and uses 204 only
\* with loggers that expect it.
Answer(status) ==
    /\ logger.sends \in {"call", "bulk"}
    /\ status = 204 => 204 \in logger.success
    /\ \E S \in IF status < 300 THEN Accepted ELSE {{}} : Arrive(S, {})
    /\ IF status \in logger.success THEN FlushOk ELSE FlushErr(0)

\* There is no connection (or, for google-cloud-logging, no token); or the time is
\* over, before or after the collector has the batch.
NoAnswer ==
    /\ logger.sends \in {"call", "bulk"}
    /\ Arrive({}, {}) \/ \E S \in {{}} \cup Accepted : Arrive(S, Batch)
    /\ FlushErr(0)

\* connect, write_all, shutdown: success is what the local socket took.
Stream ==
    /\ logger.sends = "stream"
    /\ \E n \in 0..Len(entries) : Arrive(Head1(n), Batch)
    /\ FlushOk \/ FlushErr(0)

\* The whole batch in one datagram, which may be lost on the way.
Datagram ==
    /\ logger.sends = "datagram"
    /\ \/ FlushErr(0) /\ Arrive({}, {})
       \/ FlushOk /\ \E S \in {{}, Batch} : Arrive(S, {})

\* Mutant: a refused datagram fails the whole batch.
DatagramsRetryAll ==
    /\ logger.sends \in {"datagrams", "lines"}
    /\ \E n \in 0..Len(entries) : \E S \in SUBSET Head1(n) :
          /\ Arrive(S, {})
          /\ IF n = Len(entries) THEN FlushOk ELSE FlushErr(0)

\* A datagram per entry; the socket refuses the one after the first n.  With
\* "lines", an entry may be several datagrams, and some of them sent.
Datagrams ==
    /\ logger.sends \in {"datagrams", "lines"}
    /\ \E n \in 0..Len(entries) : \E S \in SUBSET Head1(n) :
          \/ n = Len(entries) /\ Arrive(S, {}) /\ FlushOk
          \/ n < Len(entries) /\ Arrive(S, {}) /\ FlushErr(n)
          \/ /\ n < Len(entries) /\ logger.sends = "lines"
             /\ Arrive(S \cup {entries[n + 1]}, {entries[n + 1]})
             /\ FlushErr(n)

\* The file cannot be opened; or it is written by a thread of its own, of which
\* write_all sees an error only if the batch is large.
Append1 ==
    /\ logger.sends = "file"
    /\ \/ FlushErr(0) /\ Arrive({}, {})
       \/ /\ \E n \in 0..Len(entries) : Arrive(Head1(n), Batch)
          /\ FlushOk \/ FlushErr(0)

\* What the trait allows a flusher to say, first_fail after the last entry included.
AnyFlusher ==
    /\ logger.sends = "any"
    /\ FlushOk \/ \E n \in 0..Len(entries) : FlushErr(n)
    /\ UNCHANGED collector

Flush ==
    \/ (\E s \in Statuses : Answer(s)) \/ NoAnswer
    \/ Stream \/ Datagram \/ Datagrams \/ Append1 \/ AnyFlusher

Elsewhere == UNCHANGED collector

LoggerTask == Flush \/ ((Receive \/ Deadline \/ Closed \/ Retry) /\ Elsewhere)

LoggerNext == LoggerTask \/ ((push \/ DropSink) /\ Elsewhere)

\* As for the sink.  Every flush returns: calls and connections have a time limit,
\* datagrams and files wait for no peer.
LoggerSpec == LoggerInit /\ [][LoggerNext]_loggerVars /\ WF_loggerVars(LoggerTask)

-----------------------------------------------------------------------------
(* Properties. *)

\* The loggers whose collector takes or refuses a batch as a whole and that take
\* for success only its word that it has.  elasticsearch-logger is not one: _bulk
\* answers 200 and may have refused any of the entries.
Confirming == {LokiLoggerFlusher, LagoFlusher, SplunkFlusher, LogglyFlusher,
               SlsFlusher, GoogleCloudFlusher}

\* Such a logger never counts an entry as delivered that the collector has not
\* got, whatever was retried, answered or left open before.  And with any
\* logger, elasticsearch-logger included, a second copy of an entry comes from an attempt of
\* which the logger could not know the result, never from the way batches are
\* cut and resent.
DeliveryExplained ==
    /\ logger \in Confirming => Range1(acked) \subseteq kept
    /\ copied \subseteq unclear
=============================================================================
