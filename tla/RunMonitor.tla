----------------------------- MODULE RunMonitor -----------------------------
(***************************************************************************)
(* The run detail page that watches a live run: the server's event stream  *)
(* (src/server/api-event-stream.ts), the EventSource that listens to it    *)
(* (client/src/monitor/run-events-stream.ts), the polled run listing and   *)
(* the run record the page reads (client/src/run-detail).                  *)
(*                                                                         *)
(* The run is the versions its records go through; the last one is its     *)
(* end, however it ended.  An event is named by the version it follows, so *)
(* event sequences have gaps, as they have in a table all runs share.  A   *)
(* reading is the version the server read.                                 *)
(***************************************************************************)
EXTENDS Integers, Sequences, FiniteSets

CONSTANTS
    Ended,       \* the version in which the run no longer reads as running
    Moves,       \* the versions that put the run in another step
    MaxAttempts, \* MAX_ATTEMPTS, the retries of a failed fetch
    MaxFaults    \* bound: failed fetches and broken streams, together

ASSUME MonitorAssumption ==
    /\ Ended \in Nat \ {0} /\ Moves \subseteq 1..Ended /\ Ended \in Moves
    /\ MaxAttempts \in Nat /\ MaxFaults \in Nat

VARIABLES
    written,    \* the version of the run's records
    events,     \* the versions whose event is recorded
    row,        \* the page's query of the run listing, as to this run
    record,     \* its query of the run record
    previous,   \* the phase its last effect saw, useWhenChanged's ref
    source,     \* the EventSource: "none", "waiting" to connect, "open"
    server,     \* the request that streams to it
    wire,       \* the events sent and not yet delivered
    seen,       \* the events delivered on this connection
    faults

runVars == <<written, events>>
streamVars == <<source, server, wire, seen>>
monitorVars == <<runVars, row, record, previous, streamVars, faults>>

Unread == -1        \* a query without data
Versions == 0..Ended

(* Where phaseOf puts a reading: "unlisted" before the first answer, then   *)
(* the step the run is at and, past them all, its ending.                   *)
phaseOf(v) ==
    IF v = Unread THEN Unread ELSE Cardinality({m \in Moves : m <= v})

Running(v) == v \in 0..(Ended - 1)

Query == [data : Versions \cup {Unread}, fetch : {"idle", "asked", "read"},
          got : Versions, failures : 0..MaxAttempts, isError : BOOLEAN,
          refetched : BOOLEAN]

NoRequest == [at |-> "none", sequence |-> 0, batch |-> {}, upto |-> 0]

MonitorTypeOK ==
    /\ written \in Versions /\ events \subseteq 1..Ended
    /\ row \in Query /\ record \in Query
    /\ previous \in Unread..Ended
    /\ source \in {"none", "waiting", "open"}
    /\ server \in [at : {"none", "polling", "writing", "ended"},
                   sequence : Versions, batch : SUBSET events,
                   upto : Versions]
    /\ wire \in Seq(events) /\ seen \subseteq events
    /\ faults \in 0..MaxFaults

-----------------------------------------------------------------------------
(* The queries.  A fetch is asked, read by the server and answered; of one  *)
(* query no two are in flight.                                              *)

Asked(q) == [q EXCEPT !.fetch = "asked", !.got = 0, !.failures = 0]

(* invalidateQueries with cancelRefetch: false, and the interval's refetch. *)
Joined(q) == IF q.fetch = "idle" THEN Asked(q) ELSE q

(* invalidateQueries: what is in flight is cancelled, unless it is the      *)
(* query's first reading, which it joins.                                   *)
Restarted(q) == IF q.data = Unread THEN Joined(q) ELSE Asked(q)

Read(q) == [q EXCEPT !.fetch = "read", !.got = written]

Answered(q) == [q EXCEPT !.fetch = "idle", !.data = q.got, !.got = 0,
                         !.failures = 0, !.isError = FALSE,
                         !.refetched = q.data # Unread]

(* Mutant: a fetch that is given up keeps its failures and goes on. *)
retry_NoLimit(q) ==
    [q EXCEPT !.fetch = "asked", !.got = 0, !.failures = @ + 1]

retry(q) ==
    IF q.failures < MaxAttempts
    THEN [q EXCEPT !.fetch = "asked", !.got = 0, !.failures = @ + 1]
    ELSE [q EXCEPT !.fetch = "idle", !.got = 0, !.failures = 0,
                   !.isError = TRUE]

fetchRunListing ==
    /\ row.fetch = "asked"
    /\ row' = Read(row)
    /\ UNCHANGED <<runVars, record, previous, streamVars, faults>>

answerRunListing ==
    /\ row.fetch = "read"
    /\ row' = Answered(row)
    /\ UNCHANGED <<runVars, record, previous, streamVars, faults>>

fetchRunRecord ==
    /\ record.fetch = "asked"
    /\ record' = Read(record)
    /\ UNCHANGED <<runVars, row, previous, streamVars, faults>>

answerRunRecord ==
    /\ record.fetch = "read"
    /\ record' = Answered(record)
    /\ UNCHANGED <<runVars, row, previous, streamVars, faults>>

fetchFails ==
    /\ faults < MaxFaults /\ faults' = faults + 1
    /\ \/ row.fetch # "idle" /\ row' = retry(row) /\ UNCHANGED record
       \/ record.fetch # "idle" /\ record' = retry(record) /\ UNCHANGED row
    /\ UNCHANGED <<runVars, previous, streamVars>>

(* pollInterval: the listing is asked for again, at either interval.        *)
(* Mutant: not while the page is connected, as events move it meanwhile. *)
poll_Unconnected ==
    /\ row.fetch = "idle" /\ source = "none"
    /\ row' = Joined(row)
    /\ UNCHANGED <<runVars, record, previous, streamVars, faults>>

poll ==
    /\ row.fetch = "idle"
    /\ row' = Joined(row)
    /\ UNCHANGED <<runVars, record, previous, streamVars, faults>>

(* useWhenChanged on phaseOf, in useRunDetailInvalidation.                  *)
(* Mutant: the invalidation joins a fetch in flight, as the events' does. *)
phaseChanged_Joins ==
    /\ previous # phaseOf(row.data)
    /\ previous' = phaseOf(row.data)
    /\ record' = Joined(record)
    /\ UNCHANGED <<runVars, row, streamVars, faults>>

phaseChanged ==
    /\ previous # phaseOf(row.data)
    /\ previous' = phaseOf(row.data)
    /\ record' = Restarted(record)
    /\ UNCHANGED <<runVars, row, streamVars, faults>>

-----------------------------------------------------------------------------
(* The EventSource.  RunWorkspace mounts it while the row reads as running  *)
(* and the record is there.                                                 *)

Mounted == Running(row.data) /\ record.data # Unread

openSource ==
    /\ source = "none" /\ Mounted
    /\ source' = "waiting"
    /\ UNCHANGED <<runVars, row, record, previous, server, wire, seen, faults>>

closeSource ==
    /\ source # "none" /\ ~Mounted
    /\ source' = "none"
    /\ server' = NoRequest /\ wire' = <<>> /\ seen' = {}
    /\ UNCHANGED <<runVars, row, record, previous, faults>>

(* The browser connects, and again after the connection ended; each request *)
(* starts from the first event.                                             *)
connect ==
    /\ source = "waiting"
    /\ source' = "open"
    /\ server' = [NoRequest EXCEPT !.at = "polling"] /\ seen' = {}
    /\ UNCHANGED <<runVars, row, record, previous, wire, faults>>

(* The message listener of useRunEventsStream. *)
onMessage ==
    /\ wire # <<>>
    /\ wire' = Tail(wire)
    /\ seen' = seen \cup {Head(wire)}
    /\ row' = Joined(row) /\ record' = Joined(record)
    /\ UNCHANGED <<runVars, previous, source, server, faults>>

Disconnected ==
    /\ source' = "waiting" /\ server' = NoRequest
    /\ wire' = <<>> /\ seen' = {}

sourceEnds ==
    /\ source = "open" /\ server.at = "ended" /\ wire = <<>>
    /\ Disconnected
    /\ UNCHANGED <<runVars, row, record, previous, faults>>

connectionLost ==
    /\ source = "open"
    /\ faults < MaxFaults /\ faults' = faults + 1
    /\ Disconnected
    /\ UNCHANGED <<runVars, row, record, previous>>

-----------------------------------------------------------------------------
(* The server's side: runEventBatches and its consumer.                     *)

eventsSince(sequence) == {e \in events : e > sequence}

readBatch ==
    /\ server.at = "polling"
    /\ LET batch == eventsSince(server.sequence)
       IN  \E upto \in batch \cup {server.sequence} :
             /\ \A e \in batch : e <= upto
             /\ server' = [server EXCEPT !.at = "writing", !.batch = batch,
                                        !.upto = upto]
    /\ UNCHANGED <<runVars, row, record, previous, source, wire, seen, faults>>

(* The events of a batch are written in their order.                        *)
writeEventBatch ==
    /\ server.at = "writing"
    /\ \E e \in server.batch :
         /\ \A f \in server.batch : e <= f
         /\ wire' = Append(wire, e)
         /\ server' = [server EXCEPT !.batch = @ \ {e}]
    /\ UNCHANGED <<runVars, row, record, previous, source, seen, faults>>

(* Mutant: the stream goes on from the store's latest event. *)
batchWritten_Latest ==
    /\ server.at = "writing" /\ server.batch = {}
    /\ server' = [server EXCEPT
                    !.sequence = CHOOSE e \in events \cup {0} :
                                    \A f \in events : f <= e,
                    !.at = IF server.upto = Ended THEN "ended" ELSE "polling"]
    /\ UNCHANGED <<runVars, row, record, previous, source, wire, seen, faults>>

batchWritten ==
    /\ server.at = "writing" /\ server.batch = {}
    /\ server' = [server EXCEPT
                    !.sequence = server.upto,
                    !.at = IF server.upto = Ended THEN "ended" ELSE "polling"]
    /\ UNCHANGED <<runVars, row, record, previous, source, wire, seen, faults>>

(* streamRunResponse reports the failure and the response ends. *)
streamFails ==
    /\ server.at \in {"polling", "writing"}
    /\ faults < MaxFaults /\ faults' = faults + 1
    /\ server' = [server EXCEPT !.at = "ended", !.batch = {}]
    /\ UNCHANGED <<runVars, row, record, previous, source, wire, seen>>

-----------------------------------------------------------------------------
(* The run.  An event follows the records it is about; a record may have    *)
(* none, and neither has the end of a run whose process was killed.         *)

writeRecords ==
    /\ written < Ended
    /\ written' = written + 1
    /\ UNCHANGED <<events, row, record, previous, streamVars, faults>>

recordEvent ==
    /\ written > 0 /\ written \notin events
    /\ events' = events \cup {written}
    /\ UNCHANGED <<written, row, record, previous, streamVars, faults>>

MonitorInit ==
    /\ written \in Versions
    /\ events = {e \in 1..Ended : e <= written}
    /\ row = [data |-> Unread, fetch |-> "asked", got |-> 0, failures |-> 0,
              isError |-> FALSE, refetched |-> FALSE]
    /\ record = row
    /\ previous = Unread
    /\ source = "none" /\ server = NoRequest /\ wire = <<>> /\ seen = {}
    /\ faults = 0

Page ==
    \/ fetchRunListing \/ answerRunListing \/ poll
    \/ fetchRunRecord \/ answerRunRecord \/ phaseChanged

Stream ==
    \/ openSource \/ closeSource \/ connect \/ onMessage \/ sourceEnds
    \/ readBatch \/ writeEventBatch \/ batchWritten

MonitorNext ==
    \/ Page \/ Stream
    \/ fetchFails \/ connectionLost \/ streamFails
    \/ writeRecords \/ recordEvent

MonitorSpec == MonitorInit /\ [][MonitorNext]_monitorVars

(* Requests are answered, effects run and the browser's timers fire.  The   *)
(* run and the faults are left free.                                        *)
MonitorFairness ==
    /\ WF_monitorVars(fetchRunListing \/ answerRunListing)
    /\ WF_monitorVars(poll)
    /\ WF_monitorVars(fetchRunRecord \/ answerRunRecord)
    /\ WF_monitorVars(phaseChanged)
    /\ WF_monitorVars(closeSource)

FairMonitorSpec == MonitorSpec /\ MonitorFairness

-----------------------------------------------------------------------------
(* On one connection the page is given every event once and in order,       *)
(* whatever the run records while a batch is being written.                 *)
EventsInOrder ==
    /\ \A e \in seen, f \in events : f < e => f \in seen
    /\ \A i \in DOMAIN wire :
          /\ \A e \in seen : e < wire[i]
          /\ \A f \in events : f < wire[i] =>
                f \in seen \/ \E j \in 1..(i - 1) : wire[j] = f

(* A record the page has read again is never of an earlier step than the    *)
(* row beside it, once nothing is in flight and no reading was given up.    *)
(* The first reading may be: what is asked while it is in flight joins it.  *)
RecordNotBehindRow ==
    (/\ record.refetched /\ record.fetch = "idle" /\ ~record.isError
     /\ previous = phaseOf(row.data))
       => phaseOf(record.data) >= phaseOf(row.data)

(* A page that shows a live run when it ends comes to show the ended        *)
(* record, though the terminal event may be missing, lost, or joined by a   *)
(* fetch that began before it.  The one way it does not is a refetch that   *)
(* was given up after the last retry: the older record then stays on the    *)
(* page, which tells of an error only while it has no record                *)
(* (run-detail-page.tsx), and does not ask again by itself.  (A window that *)
(* regains focus asks; that is the operator's act and is not modelled.)     *)
RecordCatchesUp ==
    (written = Ended /\ record.data # Unread /\ Running(row.data))
       ~> (record.data = Ended \/ [](record.isError /\ record.fetch = "idle"))

(* The stream of an ended run is closed for good: the page does not connect *)
(* to it, and replay it, again and again.                                   *)
StreamCloses == (written = Ended) ~> [](source = "none")
=============================================================================
