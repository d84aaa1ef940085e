----------------------------- MODULE HotReload -----------------------------
(***************************************************************************)
(* A gateway whose configuration is gateway.yaml.  Its watcher: the        *)
(* notification thread forwards file events over a channel of one slot,    *)
(* blocking while it is full; the async loop takes one, waits, drains what *)
(* else arrived and reloads the file.  And POST /api/config/reload, which  *)
(* reads and applies the file beside the watcher.  An editor may write a   *)
(* file in several steps, some of them unreadable.                         *)
(***************************************************************************)
EXTENDS Naturals

CONSTANTS
    Contents,               \* what gateway.yaml may hold
    Loadable,               \* the contents that parse, validate and compile
    MaxEvents, MaxReloads   \* bounds on the changes of the directory and the requests

ASSUME ReloadAssumption == Loadable \subseteq Contents /\ {MaxEvents, MaxReloads} \subseteq Nat

VARIABLES
    file,       \* the content of gateway.yaml
    changes,    \* how many changes there have been
    events,     \* events the notification thread has not sent yet
    channel,    \* events in the channel: 0 or 1
    pc,         \* watch_config: "recv", "debounce", "drain", "reload", "apply"
    loaded,     \* what the watcher read last, and after how many changes
    asked,      \* the same for the admin handler, which is busy with it or not
    reloads,    \* how many requests to reload there have been
    served,     \* the configuration being served
    newest      \* history: the latest read that has ever been applied

watchVars == <<file, changes, events, channel, pc, loaded, asked, reloads, served, newest>>

Read == [content |-> file, at |-> changes]

WatchInit ==
    /\ file \in Loadable
    /\ changes = 0 /\ events = 0 /\ channel = 0 /\ reloads = 0 /\ newest = 0
    /\ pc = "recv" /\ loaded = Read /\ served = Read
    /\ asked = [busy |-> FALSE, read |-> Read]

\* The file, or another one in its directory, is written or created; the file
\* system reports it.
Change ==
    /\ changes < MaxEvents
    /\ changes' = changes + 1
    /\ file' \in Contents
    /\ events' = events + 1
    /\ UNCHANGED <<channel, pc, loaded, asked, reloads, served, newest>>

\* blocking_send
Notify ==
    /\ events > 0 /\ channel = 0
    /\ events' = events - 1 /\ channel' = 1
    /\ UNCHANGED <<file, changes, pc, loaded, asked, reloads, served, newest>>

Recv ==
    /\ pc = "recv" /\ channel = 1
    /\ channel' = 0 /\ pc' = "debounce"
    /\ UNCHANGED <<file, changes, events, loaded, asked, reloads, served, newest>>

\* 500 ms are over.
Debounced ==
    /\ pc = "debounce"
    /\ pc' = "drain"
    /\ UNCHANGED <<file, changes, events, channel, loaded, asked, reloads, served, newest>>

\* One round of the try_recv loop; the blocked sender may refill the slot.
Drain ==
    /\ pc = "drain"
    /\ channel' = 0
    /\ pc' = IF channel = 0 THEN "reload" ELSE "drain"
    /\ UNCHANGED <<file, changes, events, loaded, asked, reloads, served, newest>>

\* reload_from_disk reads the file; what cannot be loaded changes nothing.
reload_from_disk ==
    /\ pc = "reload"
    /\ loaded' = Read
    /\ pc' = IF file \in Loadable THEN "apply" ELSE "recv"
    /\ UNCHANGED <<file, changes, events, channel, asked, reloads, served, newest>>

\* apply_gateway of what was read: whoever comes last is served.
Serve(read) ==
    /\ served' = read
    /\ newest' = IF read.at > newest THEN read.at ELSE newest

\* Mutant: the channel is drained once more after the reload.
ApplyThenDrain ==
    /\ pc = "apply"
    /\ Serve(loaded)
    /\ channel' = 0
    /\ pc' = "recv"
    /\ UNCHANGED <<file, changes, events, loaded, asked, reloads>>

WatchApply ==
    /\ pc = "apply"
    /\ Serve(loaded)
    /\ pc' = "recv"
    /\ UNCHANGED <<file, changes, events, channel, loaded, asked, reloads>>

watch_config == Recv \/ Debounced \/ Drain \/ reload_from_disk \/ WatchApply

\* The handler of POST /api/config/reload calls reload_from_disk as well: it
\* reads, and answers at once if that fails ...
reload_config ==
    /\ reloads < MaxReloads /\ ~asked.busy
    /\ reloads' = reloads + 1
    /\ asked' = [busy |-> file \in Loadable, read |-> Read]
    /\ UNCHANGED <<file, changes, events, channel, pc, loaded, served, newest>>

\* ... and applies.
ReloadApply ==
    /\ asked.busy
    /\ Serve(asked.read)
    /\ asked' = [asked EXCEPT !.busy = FALSE]
    /\ UNCHANGED <<file, changes, events, channel, pc, loaded, reloads>>

WatchNext == Change \/ Notify \/ watch_config \/ reload_config \/ ReloadApply

WatchSpec == WatchInit /\ [][WatchNext]_watchVars

-----------------------------------------------------------------------------
\* No edit is missed, although events are merged and dropped: once the file
\* rests, the gateway serves it.  Only a reload on demand that read the file
\* before the watcher did, and applied it after, may leave an older edit in
\* service, until the next change.
LastEditServed == <>[](file \in Loadable => served.content = file \/ served.at < newest)

\* The watcher never falls asleep on an edit it has not read: when it waits
\* with nothing on the way, what it read last is what the file holds.
NoEditPending ==
    pc = "recv" /\ channel = 0 /\ events = 0 => loaded.content = file
=============================================================================
