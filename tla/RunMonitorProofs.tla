-------------------------- MODULE RunMonitorProofs --------------------------
(***************************************************************************)
(* Proofs about RunMonitor, for a run of any length, any set of steps and  *)
(* any number of faults: the page is given the events in order, and the    *)
(* record it shows is not behind the row beside it.                        *)
(***************************************************************************)
EXTENDS RunMonitor, FiniteSetTheorems, SequenceTheorems, TLAPS

(* The events that were sent on this connection.                            *)
Sent(e) == e \in seen \/ \E i \in DOMAIN wire : wire[i] = e

(* What the server sent is a beginning of the run's events, in their order. *)
WireInv ==
    /\ \A e \in events : e <= written
    /\ source # "open" => server = NoRequest /\ wire = <<>> /\ seen = {}
    /\ \A e \in seen, i \in DOMAIN wire : e < wire[i]
    /\ \A i, j \in DOMAIN wire : i < j => wire[i] < wire[j]
    /\ \A e, f \in events : Sent(e) /\ f < e => Sent(f)

(* How far the stream's request is: up to which event it has sent them all. *)
ServerInv ==
    /\ server.at = "polling" =>
          /\ server.sequence \in events \cup {0}
          /\ \A e \in events : Sent(e) <=> e <= server.sequence
    /\ server.at = "writing" =>
          /\ server.upto \in events \cup {0}
          /\ \A e \in events : Sent(e) \/ e \in server.batch <=> e <= server.upto
          /\ \A e \in events, f \in server.batch : Sent(e) => e < f

(* The row is not ahead of the run, and the phase the page acted on not     *)
(* ahead of the row.  A record that is read anew is read after the phase    *)
(* that asked for it.                                                       *)
RecordInv ==
    /\ row.data <= written /\ row.got <= written
    /\ previous <= phaseOf(written)
    /\ record.refetched => record.data # Unread
    /\ record.fetch = "read" /\ record.data # Unread =>
          previous <= phaseOf(record.got)
    /\ record.refetched /\ record.fetch = "idle" /\ ~record.isError =>
          previous <= phaseOf(record.data)

MonitorInv == MonitorTypeOK /\ WireInv /\ ServerInv /\ RecordInv

-----------------------------------------------------------------------------
(* Phases.                                                                  *)

LEMMA PhaseType ==
    ASSUME NEW v \in Versions \cup {Unread}
    PROVE  phaseOf(v) \in Unread..Ended
<1> DEFINE Past == {m \in Moves : m <= v}
<1>1. Ended \in Int /\ 1 \in Int /\ Ended >= 1
  BY MonitorAssumption
<1>2. IsFiniteSet(1..Ended) /\ Cardinality(1..Ended) = Ended
  BY <1>1, FS_Interval
<1>3. Past \in SUBSET (1..Ended)
  BY MonitorAssumption
<1>4. IsFiniteSet(Past) /\ Cardinality(Past) <= Ended
  BY <1>2, <1>3, FS_Subset
<1>5. Cardinality(Past) \in Nat
  BY <1>4, FS_CardinalityType
<1>6. QED
  BY <1>1, <1>4, <1>5 DEF phaseOf, Unread

(* A later reading is never of an earlier phase.                            *)
LEMMA PhaseMonotone ==
    ASSUME NEW v \in Versions \cup {Unread}, NEW w \in Versions, v <= w
    PROVE  phaseOf(v) <= phaseOf(w)
<1> DEFINE Past(x) == {m \in Moves : m <= x}
<1>1. w # Unread /\ w \in Int /\ v \in Int /\ Moves \subseteq Int
  BY MonitorAssumption DEF Versions, Unread
<1>2. CASE v = Unread
  BY <1>1, <1>2, PhaseType DEF phaseOf, Unread
<1>3. CASE v # Unread
  <2>1. IsFiniteSet(1..Ended)
    BY MonitorAssumption, FS_Interval
  <2>2. Past(w) \in SUBSET (1..Ended)
    BY MonitorAssumption
  <2>3. IsFiniteSet(Past(w))
    BY <2>1, <2>2, FS_Subset
  <2>4. Past(v) \in SUBSET Past(w)
    <3>1. ASSUME NEW m \in Moves, m <= v PROVE m <= w
      BY <1>1, <3>1
    <3>2. QED
      BY <3>1
  <2>5. Cardinality(Past(v)) <= Cardinality(Past(w))
    BY <2>3, <2>4, FS_Subset
  <2>6. QED
    BY <1>1, <1>3, <2>5 DEF phaseOf
<1>4. QED
  BY <1>2, <1>3
-----------------------------------------------------------------------------
(* The steps, by what they leave alone.                                     *)

LEMMA MonitorSteps ==
    ASSUME [MonitorNext]_monitorVars
    PROVE  \/ Page \/ fetchFails
           \/ openSource \/ closeSource \/ connect \/ onMessage
           \/ sourceEnds \/ connectionLost
           \/ readBatch \/ writeEventBatch \/ batchWritten \/ streamFails
           \/ writeRecords \/ recordEvent \/ UNCHANGED monitorVars
  BY DEF MonitorNext, Stream

LEMMA MonitorInitial == MonitorInit => MonitorInv
<1> SUFFICES ASSUME MonitorInit PROVE MonitorInv
  OBVIOUS
<1> USE MonitorAssumption DEF MonitorInit, NoRequest, Versions, Unread
<1>1. MonitorTypeOK
  BY DEF MonitorTypeOK, Query
<1>2. WireInv /\ ServerInv
  BY DEF WireInv, ServerInv, Sent
<1>3. previous <= phaseOf(written)
  BY PhaseType
<1>4. RecordInv
  BY <1>3 DEF RecordInv
<1>5. QED
  BY <1>1, <1>2, <1>4 DEF MonitorInv

-----------------------------------------------------------------------------
(* The queries keep their type.                                             *)

LEMMA QueryTypes ==
    ASSUME MonitorTypeOK, NEW q \in Query
    PROVE  Joined(q) \in Query /\ Restarted(q) \in Query /\ Read(q) \in Query
           /\ Answered(q) \in Query /\ retry(q) \in Query
<1>0. /\ 0 \in Versions /\ 0 \in 0..MaxAttempts /\ written \in Versions
      /\ q.got \in Versions
  BY MonitorAssumption DEF Versions, MonitorTypeOK, Query
<1>1. Asked(q) \in Query
  BY <1>0 DEF Asked, Query
<1>2. Joined(q) \in Query /\ Restarted(q) \in Query
  BY <1>1 DEF Joined, Restarted
<1>3. Read(q) \in Query
  BY <1>0 DEF Read, Query
<1>4. Answered(q) \in Query
  <2>1. (q.data # Unread) \in BOOLEAN
    OBVIOUS
  <2>2. QED
    BY <1>0, <2>1 DEF Answered, Query
<1>5. retry(q) \in Query
  <2>1. CASE q.failures < MaxAttempts
    <3>1. q.failures + 1 \in 0..MaxAttempts
      BY <2>1, MonitorAssumption DEF Query
    <3>2. QED
      BY <1>0, <2>1, <3>1 DEF retry, Query
  <2>2. CASE ~(q.failures < MaxAttempts)
    BY <1>0, <2>2 DEF retry, Query
  <2>3. QED
    BY <2>1, <2>2
<1>6. QED
  BY <1>2, <1>3, <1>4, <1>5

(* A larger store of events holds the same sequences.                       *)
LEMMA SeqGrows ==
    ASSUME NEW S, NEW T, S \subseteq T, NEW s \in Seq(S)
    PROVE  s \in Seq(T)
  OBVIOUS

LEMMA MonitorTypeStep ==
    ASSUME MonitorTypeOK, [MonitorNext]_monitorVars
    PROVE  MonitorTypeOK'
<1> USE MonitorAssumption DEF MonitorTypeOK, runVars, streamVars
<1>0. row \in Query /\ record \in Query /\ 0 \in Versions
  BY DEF Versions
<1>1. CASE Page
  <2>1. row' \in Query /\ record' \in Query
    BY <1>0, <1>1, QueryTypes DEF Page, fetchRunListing, answerRunListing,
       poll, fetchRunRecord, answerRunRecord, phaseChanged
  <2>2. phaseOf(row.data) \in Unread..Ended
    BY <1>0, PhaseType DEF Query
  <2>3. previous' \in Unread..Ended
    BY <1>1, <2>2 DEF Page, fetchRunListing, answerRunListing, poll,
       fetchRunRecord, answerRunRecord, phaseChanged
  <2>4. UNCHANGED <<runVars, streamVars, faults>>
    BY <1>1 DEF Page, fetchRunListing, answerRunListing, poll,
       fetchRunRecord, answerRunRecord, phaseChanged
  <2>5. QED
    BY <2>1, <2>3, <2>4
<1>2. CASE fetchFails
  <2>1. row' \in Query /\ record' \in Query
    BY <1>0, <1>2, QueryTypes DEF fetchFails
  <2>2. QED
    BY <1>2, <2>1 DEF fetchFails
<1>3. CASE onMessage
  <2>1. row' \in Query /\ record' \in Query
    BY <1>0, <1>3, QueryTypes DEF onMessage
  <2>2. Tail(wire) \in Seq(events) /\ Head(wire) \in events
    BY <1>3, HeadTailProperties DEF onMessage
  <2>3. QED
    BY <1>3, <2>1, <2>2 DEF onMessage
<1>4. CASE openSource \/ closeSource \/ connect \/ sourceEnds
           \/ connectionLost
  <2>1. /\ \/ server' = server \/ server' = NoRequest
           \/ server' = [NoRequest EXCEPT !.at = "polling"]
        /\ wire' = wire \/ wire' = <<>>
        /\ seen' = seen \/ seen' = {}
        /\ source' \in {"none", "waiting", "open"}
        /\ UNCHANGED <<runVars, row, record, previous>>
    BY <1>4 DEF openSource, closeSource, connect, sourceEnds, connectionLost,
       Disconnected
  <2>2. server' \in [at : {"none", "polling", "writing", "ended"},
                     sequence : Versions, batch : SUBSET events,
                     upto : Versions]
    BY <1>0, <2>1 DEF NoRequest
  <2>3. wire' \in Seq(events)
    BY <2>1, EmptySeq
  <2>4. faults' \in 0..MaxFaults
    BY <1>4 DEF openSource, closeSource, connect, sourceEnds, connectionLost
  <2>5. QED
    BY <2>1, <2>2, <2>3, <2>4
<1>5. CASE readBatch
  <2>1. PICK upto \in eventsSince(server.sequence) \cup {server.sequence} :
            server' = [server EXCEPT !.at = "writing", !.upto = upto,
                                     !.batch = eventsSince(server.sequence)]
    BY <1>5 DEF readBatch
  <2>2. upto \in Versions /\ eventsSince(server.sequence) \subseteq events
    BY DEF eventsSince, Versions
  <2>3. QED
    BY <1>5, <2>1, <2>2 DEF readBatch
<1>6. CASE writeEventBatch
  <2>1. PICK e \in server.batch :
            /\ wire' = Append(wire, e)
            /\ server' = [server EXCEPT !.batch = @ \ {e}]
    BY <1>6 DEF writeEventBatch
  <2>2. wire' \in Seq(events)
    BY <2>1
  <2>3. QED
    BY <1>6, <2>1, <2>2 DEF writeEventBatch
<1>7. CASE batchWritten \/ streamFails
  <2>1. server' \in [at : {"none", "polling", "writing", "ended"},
                     sequence : Versions, batch : SUBSET events,
                     upto : Versions]
    BY <1>7 DEF batchWritten, streamFails
  <2>2. QED
    BY <1>7, <2>1 DEF batchWritten, streamFails
<1>8. CASE writeRecords
  BY <1>8 DEF writeRecords, Versions
<1>9. CASE recordEvent
  <2>1. events \subseteq events' /\ events' \subseteq 1..Ended
    BY <1>9 DEF recordEvent, Versions
  <2>2. wire' \in Seq(events')
    BY <1>9, <2>1, SeqGrows DEF recordEvent
  <2>3. QED
    BY <1>9, <2>1, <2>2 DEF recordEvent
<1>10. CASE UNCHANGED monitorVars
  BY <1>10 DEF monitorVars
<1>11. QED
  BY <1>1, <1>2, <1>3, <1>4, <1>5, <1>6, <1>7, <1>8, <1>9, <1>10,
     MonitorSteps
-----------------------------------------------------------------------------
(* The stream.                                                              *)

(* A step that leaves the stream and the events alone.                      *)
LEMMA StreamKept ==
    ASSUME WireInv, ServerInv, UNCHANGED <<events, streamVars>>,
           written \in Nat, written' \in Nat, written <= written',
           events \subseteq Nat
    PROVE  WireInv' /\ ServerInv'
  BY DEF WireInv, ServerInv, Sent, streamVars

(* A stream that starts anew.                                               *)
LEMMA StreamAnew ==
    ASSUME WireInv, UNCHANGED <<written, events>>, wire' = <<>>, seen' = {},
           \/ server' = NoRequest
           \/ source' = "open" /\ server' = [NoRequest EXCEPT !.at = "polling"],
           events \subseteq 1..Ended
    PROVE  WireInv' /\ ServerInv'
<1>1. \A e : ~Sent(e)'
  BY DEF Sent
<1>2. WireInv'
  <2>1. DOMAIN wire' = {}
    OBVIOUS
  <2>2. server' = NoRequest \/ source' = "open"
    OBVIOUS
  <2>3. QED
    BY <1>1, <2>1, <2>2 DEF WireInv
<1>3. ServerInv'
  BY <1>1, MonitorAssumption DEF ServerInv, NoRequest
<1>4. QED
  BY <1>2, <1>3

LEMMA MessageStep ==
    ASSUME MonitorTypeOK, WireInv, ServerInv, onMessage
    PROVE  WireInv' /\ ServerInv'
<1>1. /\ wire \in Seq(events) /\ events \subseteq Nat /\ seen \subseteq events
      /\ wire # <<>> /\ wire' = Tail(wire) /\ seen' = seen \cup {Head(wire)}
      /\ UNCHANGED <<written, events, source, server>>
  BY MonitorAssumption DEF MonitorTypeOK, onMessage, runVars
<1>2. /\ Len(wire) \in Nat \ {0} /\ DOMAIN wire = 1..Len(wire)
      /\ Head(wire) = wire[1]
      /\ DOMAIN wire' = 1..(Len(wire) - 1)
      /\ \A i \in 1..(Len(wire) - 1) : wire'[i] = wire[i + 1]
      /\ \A i \in DOMAIN wire : wire[i] \in Nat
  <2>1. Len(wire) \in Nat \ {0} /\ DOMAIN wire = 1..Len(wire)
    BY <1>1, EmptySeq, LenProperties
  <2>2. Tail(wire) \in Seq(events) /\ Len(Tail(wire)) = Len(wire) - 1
        /\ \A i \in 1..Len(Tail(wire)) : Tail(wire)[i] = wire[i + 1]
    BY <1>1, HeadTailProperties
  <2>3. DOMAIN Tail(wire) = 1..Len(Tail(wire))
    BY <2>2, LenProperties
  <2>4. Head(wire) = wire[1]
    BY <1>1
  <2>5. \A i \in DOMAIN wire : wire[i] \in events
    BY <1>1, <2>1, ElementOfSeq
  <2>6. QED
    BY <1>1, <2>1, <2>2, <2>3, <2>4, <2>5
<1>3. \A e : Sent(e)' <=> Sent(e)
  <2>1. ASSUME NEW e, Sent(e)' PROVE Sent(e)
    BY <1>1, <1>2, <2>1 DEF Sent
  <2>2. ASSUME NEW e, Sent(e) PROVE Sent(e)'
    <3>1. CASE e \in seen
      BY <1>1, <3>1 DEF Sent
    <3>2. ASSUME NEW i \in DOMAIN wire, wire[i] = e PROVE Sent(e)'
      <4>1. CASE i = 1
        BY <1>1, <1>2, <3>2, <4>1 DEF Sent
      <4>2. CASE i # 1
        <5>1. i - 1 \in DOMAIN wire' /\ wire'[i - 1] = e
          BY <1>2, <3>2, <4>2
        <5>2. QED
          BY <5>1 DEF Sent
      <4>3. QED
        BY <4>1, <4>2
    <3>3. QED
      BY <2>2, <3>1, <3>2 DEF Sent
  <2>3. QED
    BY <2>1, <2>2
<1>4. \A i, j \in DOMAIN wire' : i < j => wire'[i] < wire'[j]
  BY <1>2 DEF WireInv
<1>5. \A e \in seen', i \in DOMAIN wire' : e < wire'[i]
  BY <1>1, <1>2 DEF WireInv
<1>6. source # "open" => wire = <<>>
  BY DEF WireInv
<1>7. WireInv'
  BY <1>1, <1>3, <1>4, <1>5, <1>6 DEF WireInv
<1>8. ServerInv'
  BY <1>1, <1>3 DEF ServerInv
<1>9. QED
  BY <1>7, <1>8

LEMMA WriteStep ==
    ASSUME MonitorTypeOK, WireInv, ServerInv, writeEventBatch
    PROVE  WireInv' /\ ServerInv'
<1>1. PICK e \in server.batch :
          /\ \A f \in server.batch : e <= f
          /\ wire' = Append(wire, e)
          /\ server' = [server EXCEPT !.batch = @ \ {e}]
  BY DEF writeEventBatch
<1>2. /\ wire \in Seq(events) /\ events \subseteq Nat /\ seen \subseteq events
      /\ server.at = "writing" /\ server.batch \subseteq events
      /\ server'.at = "writing" /\ server'.batch = server.batch \ {e}
      /\ server'.upto = server.upto
      /\ UNCHANGED <<written, events, source, seen>>
  BY <1>1, MonitorAssumption DEF MonitorTypeOK, writeEventBatch, runVars
<1>3. /\ Len(wire) \in Nat /\ DOMAIN wire = 1..Len(wire)
      /\ DOMAIN wire' = 1..(Len(wire) + 1)
      /\ \A i \in DOMAIN wire : wire'[i] = wire[i] /\ wire[i] \in events
      /\ wire'[Len(wire) + 1] = e
  BY <1>1, <1>2
<1>4. \A f : Sent(f)' <=> Sent(f) \/ f = e
  <2>1. ASSUME NEW f, Sent(f)' PROVE Sent(f) \/ f = e
    <3>1. CASE f \in seen
      BY <3>1 DEF Sent
    <3>2. ASSUME NEW i \in DOMAIN wire', wire'[i] = f
          PROVE  Sent(f) \/ f = e
      <4>1. i \in DOMAIN wire \/ i = Len(wire) + 1
        BY <1>3
      <4>2. QED
        BY <1>3, <3>2, <4>1 DEF Sent
    <3>3. QED
      BY <1>2, <2>1, <3>1, <3>2 DEF Sent
  <2>2. ASSUME NEW f, Sent(f) \/ f = e PROVE Sent(f)'
    <3>1. CASE f = e
      <4>1. Len(wire) + 1 \in DOMAIN wire'
        BY <1>3
      <4>2. QED
        BY <1>3, <3>1, <4>1 DEF Sent
    <3>2. CASE Sent(f)
      <4>1. DOMAIN wire \subseteq DOMAIN wire'
        BY <1>3
      <4>2. QED
        BY <1>2, <1>3, <3>2, <4>1 DEF Sent
    <3>3. QED
      BY <2>2, <3>1, <3>2
  <2>3. QED
    BY <2>1, <2>2
<1>5. \A f \in events : Sent(f) => f < e
  BY <1>1, <1>2 DEF ServerInv
<1>6. \A i, j \in DOMAIN wire' : i < j => wire'[i] < wire'[j]
  <2>1. ASSUME NEW i \in DOMAIN wire', NEW j \in DOMAIN wire', i < j
        PROVE  wire'[i] < wire'[j]
    <3>1. i \in DOMAIN wire /\ (j \in DOMAIN wire \/ j = Len(wire) + 1)
      BY <1>3, <2>1
    <3>2. wire[i] < e
      BY <1>3, <1>5, <3>1 DEF Sent
    <3>3. QED
      BY <1>3, <2>1, <3>1, <3>2 DEF WireInv
  <2>2. QED
    BY <2>1
<1>7. \A f \in seen', i \in DOMAIN wire' : f < wire'[i]
  <2>1. ASSUME NEW f \in seen, NEW i \in DOMAIN wire' PROVE f < wire'[i]
    <3>1. f < e
      BY <1>2, <1>5 DEF Sent
    <3>2. i \in DOMAIN wire \/ i = Len(wire) + 1
      BY <1>3
    <3>3. QED
      BY <1>3, <3>1, <3>2 DEF WireInv
  <2>2. QED
    BY <1>2, <2>1
<1>8. source = "open"
  BY <1>2 DEF WireInv, NoRequest
<1>9. \A f, g \in events : Sent(f)' /\ g < f => Sent(g)'
  <2>1. \A g \in events : g < e => Sent(g)
    <3>1. ASSUME NEW g \in events, g < e PROVE Sent(g)
      <4>1. e \in events
        BY <1>2
      <4>2. e \in Nat /\ g \in Nat
        BY <1>2, <4>1
      <4>3. e <= server.upto
        BY <1>2, <4>1 DEF ServerInv
      <4>4. server.upto \in Nat
        BY MonitorAssumption DEF MonitorTypeOK, Versions
      <4>5. g <= server.upto /\ g \notin server.batch
        BY <1>1, <3>1, <4>2, <4>4, <4>3
      <4>6. QED
        BY <1>2, <4>5 DEF ServerInv
    <3>2. QED
      BY <3>1
  <2>2. QED
    BY <1>4, <2>1 DEF WireInv
<1>10. WireInv'
  BY <1>2, <1>6, <1>7, <1>8, <1>9 DEF WireInv
<1>11. ServerInv'
  <2>1. \A f \in events : Sent(f)' \/ f \in server'.batch <=> f <= server.upto
    BY <1>2, <1>4 DEF ServerInv
  <2>2. \A f \in events, g \in server'.batch : Sent(f)' => f < g
    BY <1>1, <1>2, <1>4 DEF ServerInv
  <2>3. QED
    BY <1>2, <2>1, <2>2 DEF ServerInv
<1>12. QED
  BY <1>10, <1>11
LEMMA BatchStep ==
    ASSUME MonitorTypeOK, WireInv, ServerInv,
           readBatch \/ batchWritten \/ streamFails
    PROVE  WireInv' /\ ServerInv'
<1>0. /\ events \subseteq Nat
      /\ server.sequence \in Nat /\ server.upto \in Nat
  BY MonitorAssumption DEF MonitorTypeOK, Versions
<1>1. /\ UNCHANGED <<written, events, source, wire, seen>>
      /\ server.at # "none"
  BY DEF readBatch, batchWritten, streamFails, runVars
<1>2. \A e : Sent(e)' <=> Sent(e)
  BY <1>1 DEF Sent
<1>3. WireInv'
  <2>1. source = "open"
    BY <1>1 DEF WireInv, NoRequest
  <2>2. QED
    BY <1>1, <1>2, <2>1 DEF WireInv
<1>4. CASE readBatch
  <2>1. PICK upto \in eventsSince(server.sequence) \cup {server.sequence} :
            /\ \A e \in eventsSince(server.sequence) : e <= upto
            /\ server' = [server EXCEPT !.at = "writing", !.upto = upto,
                                        !.batch = eventsSince(server.sequence)]
    BY <1>4 DEF readBatch
  <2>2. /\ server'.at = "writing" /\ server'.upto = upto
        /\ server'.batch = {e \in events : e > server.sequence}
        /\ server.at = "polling"
    BY <1>4, <2>1 DEF readBatch, eventsSince, MonitorTypeOK
  <2>3. upto \in Nat /\ server.sequence <= upto /\ upto \in events \cup {0}
    BY <1>0, <1>1, <2>1, <2>2 DEF eventsSince, ServerInv
  <2>4. \A e \in events : Sent(e) <=> e <= server.sequence
    BY <2>2 DEF ServerInv
  <2>5. \A e \in events : Sent(e) \/ e \in server'.batch <=> e <= upto
    BY <1>0, <1>1, <2>1, <2>2, <2>3, <2>4 DEF eventsSince
  <2>6. \A e \in events, f \in server'.batch : Sent(e) => e < f
    <3>1. ASSUME NEW e \in events, NEW f \in events, e <= server.sequence,
                 f > server.sequence
          PROVE  e < f
      <4>1. e \in Nat /\ f \in Nat
        BY <1>0
      <4>2. QED
        BY <1>0, <3>1, <4>1
    <3>2. QED
      BY <2>2, <2>4, <3>1
  <2>7. QED
    BY <1>1, <1>2, <1>3, <2>2, <2>3, <2>5, <2>6 DEF ServerInv
<1>5. CASE batchWritten
  <2>1. /\ server.at = "writing" /\ server.batch = {}
        /\ server'.at \in {"ended", "polling"}
        /\ server'.sequence = server.upto
    BY <1>5 DEF batchWritten, MonitorTypeOK
  <2>2. QED
    BY <1>1, <1>2, <1>3, <2>1 DEF ServerInv
<1>6. CASE streamFails
  <2>1. server'.at = "ended"
    BY <1>6 DEF streamFails, MonitorTypeOK
  <2>2. QED
    BY <1>3, <2>1 DEF ServerInv
<1>7. QED
  BY <1>4, <1>5, <1>6

LEMMA Below ==
    ASSUME NEW w \in Nat \ {0}, NEW E \in SUBSET Nat, \A e \in E : e < w,
           NEW x \in E \cup {0}
    PROVE  ~(w <= x)
  OBVIOUS

(* A new event follows all that the stream has sent or is about to send.    *)
LEMMA EventStep ==
    ASSUME MonitorTypeOK, WireInv, ServerInv, recordEvent
    PROVE  WireInv' /\ ServerInv'
<1>1. /\ written \in Nat \ {0} /\ written \notin events
      /\ events' = events \cup {written} /\ events \subseteq Nat
      /\ UNCHANGED <<written, source, server, wire, seen>>
  BY MonitorAssumption DEF MonitorTypeOK, Versions, recordEvent, streamVars
<1>0. \A e : Sent(e)' <=> Sent(e)
  BY <1>1 DEF Sent
<1>2. \A e : Sent(e) => e \in events
  <2>1. \A i \in DOMAIN wire : wire[i] \in events
    BY LenProperties, ElementOfSeq DEF MonitorTypeOK
  <2>2. QED
    BY <2>1 DEF Sent, MonitorTypeOK
<1>3. \A e \in events : e < written
  BY <1>1 DEF WireInv
<1>4. ~Sent(written)
  BY <1>1, <1>2
<1>5. \A e, f \in events' : Sent(e) /\ f < e => Sent(f)
  BY <1>1, <1>2, <1>3 DEF WireInv
<1>6. WireInv'
  BY <1>0, <1>1, <1>3, <1>5 DEF WireInv
<1>7. CASE server.at = "polling"
  <2>1. server.sequence \in events \cup {0}
    BY <1>7 DEF ServerInv
  <2>2. ~(written <= server.sequence)
    BY <1>1, <1>3, <2>1, Below
  <2>3. \A e \in events' : Sent(e) <=> e <= server.sequence
    BY <1>1, <1>4, <1>7, <2>2 DEF ServerInv
  <2>4. QED
    BY <1>0, <1>1, <1>6, <1>7, <2>1, <2>3 DEF ServerInv
<1>8. CASE server.at = "writing"
  <2>1. server.upto \in events \cup {0} /\ server.batch \subseteq events
    BY <1>8 DEF ServerInv, MonitorTypeOK
  <2>2. ~(written <= server.upto)
    BY <1>1, <1>3, <2>1, Below
  <2>3. \A e \in events' : Sent(e) \/ e \in server.batch <=> e <= server.upto
    BY <1>1, <1>4, <1>8, <2>1, <2>2 DEF ServerInv
  <2>4. \A e \in events', f \in server.batch : Sent(e) => e < f
    BY <1>1, <1>4, <1>8 DEF ServerInv
  <2>5. QED
    BY <1>0, <1>1, <1>6, <1>8, <2>1, <2>3, <2>4 DEF ServerInv
<1>9. CASE server.at \notin {"polling", "writing"}
  BY <1>0, <1>1, <1>6, <1>9 DEF ServerInv
<1>10. QED
  BY <1>7, <1>8, <1>9

LEMMA StreamStep ==
    ASSUME MonitorTypeOK, WireInv, ServerInv, [MonitorNext]_monitorVars
    PROVE  WireInv' /\ ServerInv'
<1>1. /\ written \in Nat /\ events \subseteq Nat /\ events \subseteq 1..Ended
  BY MonitorAssumption DEF MonitorTypeOK, Versions
<1>2. CASE Page \/ fetchFails \/ writeRecords \/ UNCHANGED monitorVars
  <2>1. /\ UNCHANGED <<events, streamVars>>
        /\ written' = written \/ written' = written + 1
    BY <1>2 DEF Page, fetchRunListing, answerRunListing, poll, fetchRunRecord,
       answerRunRecord, phaseChanged, fetchFails, writeRecords, runVars,
       monitorVars
  <2>2. QED
    BY <1>1, <2>1, StreamKept
<1>3. CASE openSource
  BY <1>3 DEF openSource, runVars, WireInv, ServerInv, Sent, NoRequest
<1>4. CASE closeSource \/ connect \/ sourceEnds \/ connectionLost
  <2>1. /\ UNCHANGED <<written, events>> /\ wire' = <<>> /\ seen' = {}
        /\ \/ server' = NoRequest
           \/ /\ source' = "open"
              /\ server' = [NoRequest EXCEPT !.at = "polling"]
    BY <1>4 DEF closeSource, connect, sourceEnds, connectionLost,
       Disconnected, runVars, WireInv
  <2>2. QED
    BY <1>1, <2>1, StreamAnew
<1>5. QED
  BY <1>2, <1>3, <1>4, MonitorSteps, MessageStep, WriteStep, BatchStep,
     EventStep
-----------------------------------------------------------------------------
(* The readings.                                                            *)

(* What an invalidation, an answer and a failure make of a query.           *)
LEMMA QueryFields ==
    ASSUME NEW q \in Query
    PROVE  /\ Joined(q) = q \/ Joined(q) = Asked(q)
           /\ q.fetch = "idle" => Joined(q).fetch = "asked"
           /\ Restarted(q) = Joined(q) \/ Restarted(q) = Asked(q)
           /\ q.data # Unread => Restarted(q).fetch = "asked"
           /\ q.data = Unread => Restarted(q) = Joined(q)
           /\ Asked(q).fetch = "asked" /\ Asked(q).data = q.data
           /\ Asked(q).got = 0 /\ Asked(q).refetched = q.refetched
           /\ Read(q).data = q.data /\ Read(q).got = written
           /\ Read(q).fetch = "read" /\ Read(q).refetched = q.refetched
           /\ Answered(q).fetch = "idle" /\ Answered(q).data = q.got
           /\ Answered(q).got = 0
           /\ Answered(q).refetched <=> q.data # Unread
           /\ retry(q).data = q.data /\ retry(q).got = 0
           /\ retry(q).refetched = q.refetched
           /\ retry(q).fetch = "asked" \/ retry(q).isError
           /\ retry(q).fetch # "read"
<1>1. /\ Asked(q).fetch = "asked" /\ Asked(q).data = q.data
      /\ Asked(q).got = 0 /\ Asked(q).refetched = q.refetched
  BY DEF Asked, Query
<1>2. /\ Joined(q) = q \/ Joined(q) = Asked(q)
      /\ q.fetch = "idle" => Joined(q).fetch = "asked"
      /\ Restarted(q) = Joined(q) \/ Restarted(q) = Asked(q)
      /\ q.data # Unread => Restarted(q).fetch = "asked"
      /\ q.data = Unread => Restarted(q) = Joined(q)
  BY <1>1 DEF Joined, Restarted
<1>3. /\ Read(q).data = q.data /\ Read(q).got = written
      /\ Read(q).fetch = "read" /\ Read(q).refetched = q.refetched
  BY DEF Read, Query
<1>4. /\ Answered(q).fetch = "idle" /\ Answered(q).data = q.got
      /\ Answered(q).got = 0
      /\ Answered(q).refetched <=> q.data # Unread
  BY DEF Answered, Query
<1>5. /\ retry(q).data = q.data /\ retry(q).got = 0
      /\ retry(q).refetched = q.refetched
      /\ retry(q).fetch = "asked" \/ retry(q).isError
      /\ retry(q).fetch # "read"
  BY DEF retry, Query
<1>6. QED
  BY <1>1, <1>2, <1>3, <1>4, <1>5

(* The record query by itself: a step that keeps the phase acted on and     *)
(* leaves the query alone, asks for it, reads it, answers it or fails it.   *)
RecordPart ==
    /\ record.refetched => record.data # Unread
    /\ record.fetch = "read" /\ record.data # Unread =>
          previous <= phaseOf(record.got)
    /\ record.refetched /\ record.fetch = "idle" /\ ~record.isError =>
          previous <= phaseOf(record.data)

RowPart ==
    /\ row.data <= written /\ row.got <= written
    /\ previous <= phaseOf(written)

RecordMoves ==
    /\ UNCHANGED previous
    /\ \/ record' \in {record, Joined(record), Read(record), retry(record)}
       \/ record.fetch = "read" /\ record' = Answered(record)

LEMMA RecordPartStep ==
    ASSUME MonitorTypeOK, RecordPart, RowPart, RecordMoves
    PROVE  RecordPart'
<1>0. record \in Query /\ record.got # Unread
  BY MonitorAssumption DEF MonitorTypeOK, Query, Versions, Unread
<1> USE <1>0, QueryFields DEF RecordPart, RecordMoves
<1>1. CASE record' = record
  BY <1>1 DEF RecordPart
<1>2. CASE record' = Joined(record)
  BY <1>1, <1>2
<1>3. CASE record' = Read(record)
  BY <1>3 DEF RowPart
<1>4. CASE record' = retry(record)
  BY <1>4
<1>5. CASE record.fetch = "read" /\ record' = Answered(record)
  BY <1>5
<1>6. QED
  BY <1>1, <1>2, <1>3, <1>4, <1>5

LEMMA RowPartStep ==
    ASSUME MonitorTypeOK, RowPart, [MonitorNext]_monitorVars
    PROVE  RowPart'
<1>0. /\ row \in Query /\ row.data \in Int /\ row.got \in Int
      /\ written \in Nat /\ written \in Versions /\ previous \in Int
      /\ row.data \in Versions \cup {Unread}
      /\ phaseOf(written) \in Int /\ phaseOf(row.data) \in Int
  <2>1. row.data \in Versions \cup {Unread} /\ written \in Versions
    BY DEF MonitorTypeOK, Query
  <2>2. phaseOf(written) \in Unread..Ended /\ phaseOf(row.data) \in Unread..Ended
    BY <2>1, PhaseType
  <2>3. QED
    BY <2>1, <2>2, MonitorAssumption
    DEF MonitorTypeOK, Query, Versions, Unread
<1>1. CASE writeRecords
  <2>1. written' = written + 1 /\ written' \in Versions
        /\ UNCHANGED <<row, previous>>
    BY <1>0, <1>1, MonitorAssumption DEF writeRecords, Versions
  <2>2. phaseOf(written) <= phaseOf(written') /\ phaseOf(written') \in Int
    <3>1. written <= written'
      BY <1>0, <2>1
    <3>2. phaseOf(written') \in Unread..Ended
      BY <2>1, PhaseType
    <3>3. QED
      BY <1>0, <2>1, <3>1, <3>2, PhaseMonotone
  <2>3. row'.data <= written' /\ row'.got <= written'
    BY <1>0, <2>1 DEF RowPart
  <2>4. QED
    BY <1>0, <2>1, <2>2, <2>3 DEF RowPart
<1>2. CASE phaseChanged
  <2>1. previous' = phaseOf(row.data) /\ UNCHANGED <<row, written>>
    BY <1>2 DEF phaseChanged, runVars
  <2>2. QED
    BY <1>0, <2>1, PhaseMonotone DEF RowPart
<1>3. ASSUME UNCHANGED <<written, previous>>,
             \/ row' \in {row, Joined(row), Read(row), retry(row)}
             \/ row' = Answered(row)
      PROVE  RowPart'
  <2>1. row'.data <= written /\ row'.got <= written
    BY <1>0, <1>3, QueryFields DEF RowPart
  <2>2. QED
    BY <1>3, <2>1 DEF RowPart
<1>4. CASE Page
  BY <1>2, <1>3, <1>4 DEF Page, fetchRunListing, answerRunListing, poll,
     fetchRunRecord, answerRunRecord, runVars
<1>5. CASE fetchFails \/ onMessage
  BY <1>3, <1>5 DEF fetchFails, onMessage, runVars
<1>6. QED
  BY <1>1, <1>3, <1>4, <1>5, MonitorSteps DEF openSource, closeSource,
     connect, sourceEnds, connectionLost, readBatch, writeEventBatch,
     batchWritten, streamFails, recordEvent, runVars, monitorVars

LEMMA RecordStep ==
    ASSUME MonitorTypeOK, RecordInv, [MonitorNext]_monitorVars
    PROVE  RecordInv'
<1>1. RecordPart /\ RowPart
  BY DEF RecordInv, RecordPart, RowPart
<1>2. CASE phaseChanged
  <2>1. record \in Query /\ record' = Restarted(record)
    BY <1>2 DEF phaseChanged, MonitorTypeOK
  <2>2. record'.data = record.data /\ record'.refetched = record.refetched
    BY <2>1, QueryFields
  <2>3. record.data # Unread => record'.fetch = "asked"
    BY <2>1, QueryFields
  <2>4. RecordPart'
    BY <1>1, <2>2, <2>3 DEF RecordPart
  <2>5. QED
    BY <1>1, <2>4, RowPartStep DEF RecordInv, RecordPart, RowPart
<1>3. CASE fetchRunListing \/ answerRunListing \/ poll \/ fetchRunRecord
           \/ answerRunRecord \/ fetchFails \/ onMessage
  <2>1. RecordMoves
    BY <1>3 DEF RecordMoves, fetchRunListing, answerRunListing, poll, fetchRunRecord,
       answerRunRecord, fetchFails, onMessage
  <2>2. RowPart'
    BY <1>1, RowPartStep
  <2>3. RecordPart'
    BY <1>1, <2>1, RecordPartStep
  <2>4. QED
    BY <2>2, <2>3 DEF RecordInv, RecordPart, RowPart
<1>4. CASE UNCHANGED <<previous, record>>
  <2>1. RowPart'
    BY <1>1, RowPartStep
  <2>2. RecordPart'
    BY <1>1, <1>4 DEF RecordPart
  <2>3. QED
    BY <2>1, <2>2 DEF RecordInv, RecordPart, RowPart
<1>5. QED
  BY <1>2, <1>3, <1>4, MonitorSteps DEF Page, openSource, closeSource,
     connect, sourceEnds, connectionLost, readBatch, writeEventBatch,
     batchWritten, streamFails, writeRecords, recordEvent, monitorVars

LEMMA MonitorInvariant == MonitorSpec => []MonitorInv
<1>1. MonitorInv /\ [MonitorNext]_monitorVars => MonitorInv'
  BY MonitorTypeStep, StreamStep, RecordStep DEF MonitorInv
<1>2. QED
  BY <1>1, MonitorInitial, PTL DEF MonitorSpec

-----------------------------------------------------------------------------
(* The state of the page and of its stream is well formed; no fetch fails   *)
(* more often than MAX_ATTEMPTS before it is given up.                      *)
THEOREM MonitorType == MonitorSpec => []MonitorTypeOK
<1>1. MonitorInv => MonitorTypeOK
  BY DEF MonitorInv
<1>2. QED
  BY <1>1, MonitorInvariant, PTL

(* On one connection the page is given every event once and in order, for   *)
(* any run and however the run's events meet the batches the stream reads   *)
(* and the faults that end it (runEventBatches, writeEventBatch).           *)
THEOREM StreamInOrder == MonitorSpec => []EventsInOrder
<1>1. MonitorInv => EventsInOrder
  <2> SUFFICES ASSUME MonitorInv PROVE EventsInOrder
    OBVIOUS
  <2>0. /\ wire \in Seq(events) /\ events \subseteq Nat /\ seen \subseteq events
        /\ Len(wire) \in Nat /\ DOMAIN wire = 1..Len(wire)
    BY MonitorAssumption, LenProperties DEF MonitorInv, MonitorTypeOK
  <2>1. \A i \in DOMAIN wire : wire[i] \in events
    BY <2>0, ElementOfSeq
  <2>2. ASSUME NEW e \in seen, NEW f \in events, f < e PROVE f \in seen
    <3>1. Sent(f)
      BY <2>0, <2>2 DEF MonitorInv, WireInv, Sent
    <3>2. \A i \in DOMAIN wire : wire[i] # f
      <4>1. ASSUME NEW i \in DOMAIN wire PROVE wire[i] # f
        <5>1. e < wire[i] /\ e \in Nat /\ wire[i] \in Nat /\ f \in Nat
          BY <2>0, <2>1 DEF MonitorInv, WireInv
        <5>2. QED
          BY <2>2, <5>1
      <4>2. QED
        BY <4>1
    <3>3. QED
      BY <3>1, <3>2 DEF Sent
  <2>3. ASSUME NEW i \in DOMAIN wire, NEW f \in events, f < wire[i]
        PROVE  f \in seen \/ \E j \in 1..(i - 1) : wire[j] = f
    <3>1. Sent(f)
      BY <2>1, <2>3 DEF MonitorInv, WireInv, Sent
    <3>2. ASSUME NEW j \in DOMAIN wire, wire[j] = f PROVE j \in 1..(i - 1)
      <4>1. wire[i] \in Nat /\ f \in Nat
        BY <2>0, <2>1
      <4>2. ~(i < j) /\ i # j
        BY <2>3, <3>2, <4>1 DEF MonitorInv, WireInv
      <4>3. QED
        BY <2>0, <4>2
    <3>3. QED
      BY <3>1, <3>2 DEF Sent
  <2>4. \A e \in seen, i \in DOMAIN wire : e < wire[i]
    BY DEF MonitorInv, WireInv
  <2>5. QED
    BY <2>2, <2>3, <2>4 DEF EventsInOrder
<1>2. QED
  BY <1>1, MonitorInvariant, PTL

(* A record the page has read again is never of an earlier step than the    *)
(* row beside it, for any run and any order of its queries                  *)
(* (useRunDetailInvalidation, invalidateQueries).                           *)
THEOREM RecordKeepsUp == MonitorSpec => []RecordNotBehindRow
<1>1. MonitorInv => RecordNotBehindRow
  <2> SUFFICES ASSUME MonitorInv, record.refetched, record.fetch = "idle",
                      ~record.isError, previous = phaseOf(row.data)
               PROVE  phaseOf(record.data) >= phaseOf(row.data)
    BY DEF RecordNotBehindRow
  <2>1. previous <= phaseOf(record.data)
    BY DEF MonitorInv, RecordInv
  <2>2. previous \in Unread..Ended /\ phaseOf(record.data) \in Unread..Ended
    BY PhaseType DEF MonitorInv, MonitorTypeOK, Query
  <2>3. QED
    BY <2>1, <2>2, MonitorAssumption DEF Unread
<1>2. QED
  BY <1>1, MonitorInvariant, PTL
=============================================================================
