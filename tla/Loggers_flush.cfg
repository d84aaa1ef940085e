\* Every logger; four entries through a channel of one, batches of two, one retry.
CONSTANTS
    max_pending_entries = 1
    batch_max_size = 2
    max_retry_count = 1
    MaxPushed = 4
    Loggers <- AllLoggers
SPECIFICATION LoggerSpec
INVARIANTS RetriesAreExact DeliveryExplained
PROPERTIES DrainsOnDrop PipeSpec
\* The task ends when the sink is dropped.
CHECK_DEADLOCK FALSE
