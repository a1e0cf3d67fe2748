----------------------------- MODULE Telemetry ------------------------------
(***************************************************************************)
(* The ingest path of telemetry-ingestion: drone WebSocket connections     *)
(* (ws/server.ts), the anomaly window (anomaly/pipeline.ts, detector.ts),  *)
(* the batching persister (persist/persister.ts, bounds.ts), the hypertable *)
(* writes (persist/store.ts) and the process that starts, shuts down and   *)
(* crashes (app.ts, index.ts); Codec is the frames' encoding, History the  *)
(* query that reads the rows back.                                         *)
(*                                                                         *)
(* A frame is handled synchronously: parse, detect, offer.  Only the       *)
(* inserts are asynchronous: flush() appends a drain to a promise chain,   *)
(* so at most one insert is in flight while frames keep arriving.  Several *)
(* frames of one TCP segment are handled before a drain gets to start.     *)
(***************************************************************************)
EXTENDS Codec, History

CONSTANTS
  Drones,         \* drone ids
  NoDrone,        \* a free connection slot
  Conns,          \* WebSocket connections that may be open together
  Frames,         \* the readings drones send
  Wires,          \* what may arrive over a connection
  Queries,        \* history requests
  Seeded,         \* rows the seed tool wrote before the process started
  BatchSize,      \* BatchingPersisterOptions.batchSize
  WindowSize,     \* AnomalyPipelineOptions.windowSize
  AltDropThreshold, BatteryDrainThreshold,
  MaxInputs,      \* bound on connection attempts and frames
  MaxStarts       \* bound on process starts

ASSUME TelemetryAssumption ==
  /\ NoDrone \notin Drones
  /\ Frames \subseteq [ts : Nat, altitude : Int, remainingPct : Int,
                       rcSignalStrength : Int, healthy : BOOLEAN, flags : Nat]
  /\ MicrosPerMs \in Nat \ {0}
  \* The checksum tells damage: where it matches, the values are those some
  \* drone sent, though the time need not fall on a whole millisecond.
  /\ \A w \in Wires :
       w.crc = "match" /\ (\A s \in Slot : w.data[s] # NotFinite) =>
         \E f \in Frames :
           /\ encode(f) \in Wires /\ w.data = encode(f).data
           /\ w.timeUsec \in encode(f).timeUsec .. encode(f).timeUsec + MicrosPerMs - 1
  /\ IsFiniteSet(Seeded)
  /\ \A r \in Seeded : r.frame.ts \in Nat /\ r.frame.altitude \in Int
  /\ \A q, r \in Seeded : q.drone = r.drone /\ q.frame.ts = r.frame.ts => q = r
  /\ \A q \in Queries : /\ q.from \in Int \cup {Blank} /\ q.to \in Int \cup {Blank}
                        /\ q.buckets \in Nat \cup {Blank}
  /\ BatchSize \in Nat \ {0}
  /\ WindowSize \in Nat \ {0}
  /\ AltDropThreshold \in Nat
  /\ BatteryDrainThreshold \in Nat
  /\ MaxInputs \in Nat
  /\ MaxStarts \in Nat

VARIABLES
  phase,     \* "up", "flushing" (stop), "closing" (wss.close), "down"
  conn,      \* conn[c]: the drone behind connection c, or NoDrone
  windows,   \* windows[d]: recent observed samples of d
  gate,      \* gate[d]: last accepted timestamp of d, NoTs before the first
  pending,   \* accepted, not yet captured by a drain
  chain,     \* drains not finished: "flush", or "stop" for the one of stop()
  writing,   \* the batch whose INSERT is in flight
  rows,      \* the telemetry_samples hypertable
  metrics,   \* createMetrics()
  emitted,   \* anomalies sent to the sinks for the last frame: [drone, kinds]
  inputs,    \* connection attempts and frames so far
  starts,    \* process starts so far
  accepted,  \* history: samples offer() accepted since the start, in order
  atStop,    \* history: how many were accepted when stop() was called
  handed,    \* history: samples handed to insertBatch and answered, in order
  failed     \* history: samples in batches whose insert rejected

vars == <<phase, conn, windows, gate, pending, chain, writing, rows, metrics,
          emitted, inputs, starts, accepted, atStop, handed, failed>>

memory == <<windows, gate, pending, chain, writing, metrics, emitted,
            accepted, atStop, handed, failed>>

-----------------------------------------------------------------------------
NoTs == -1

Sample == [drone : Drones, frame : Frames]

NoAnomaly == [drone |-> NoDrone, kinds |-> {}]

Counters == {"parseErrors", "framesParsed", "samplesPersisted",
             "rejectedBounds", "rejectedNonMonotonic",
             "connectionsAccepted", "connectionsRejected"}

inc(counter, delta) == metrics' = [metrics EXCEPT ![counter] = @ + delta]

-----------------------------------------------------------------------------
(* anomaly/detector.ts *)

hasGpsFault(f) == f.flags % 2 = 1

isEkf2DegradedAlone(f) == ~f.healthy \/ f.flags # 0

isEkf2Degraded(f, prev) == (prev.healthy /\ ~f.healthy) \/ f.flags # 0

(***************************************************************************)
(* The anomaly kinds of frame f after the observed frames `history`.       *)
(* Rates are compared multiplied out: (a - b) / dt > t  iff  a - b > t*dt. *)
(* They are undefined, and skipped, when dt is not positive.               *)
(***************************************************************************)
detectAnomalies(f, history) ==
  IF history = <<>>
  THEN IF isEkf2DegradedAlone(f) THEN {"EKF2_DEGRADED"} ELSE {}
  ELSE LET prev == history[Len(history)]
           dt   == f.ts - prev.ts
       IN  {k \in {"ALTITUDE_DROP", "BATTERY_DRAIN_SPIKE", "EKF2_DEGRADED",
                   "GPS_ACCURACY_LOSS"} :
              \/ /\ k = "ALTITUDE_DROP" /\ dt > 0
                 /\ prev.altitude - f.altitude > AltDropThreshold * dt
              \/ /\ k = "BATTERY_DRAIN_SPIKE" /\ dt > 0
                 /\ prev.remainingPct - f.remainingPct > BatteryDrainThreshold * dt
              \/ k = "EKF2_DEGRADED" /\ isEkf2Degraded(f, prev)
              \/ k = "GPS_ACCURACY_LOSS" /\ hasGpsFault(f) /\ ~hasGpsFault(prev)}

(* Mutant: a full window keeps what it has and forgets the new sample. *)
remembersOldest(d, f) ==
  IF Len(windows[d]) >= WindowSize THEN windows[d] ELSE Append(windows[d], f)

(* The window of d after f: push, then shift when it has grown too long. *)
remember(d, f) ==
  LET window == Append(windows[d], f)
  IN  IF Len(window) > WindowSize THEN Tail(window) ELSE window

(* AnomalyPipeline.observe: detect against the window, emit, remember. *)
observe(d, f) ==
  /\ emitted' = [drone |-> d, kinds |-> detectAnomalies(f, windows[d])]
  /\ windows' = [windows EXCEPT ![d] = remember(d, f)]

-----------------------------------------------------------------------------
(* persist/bounds.ts *)

isPercentInRange(v) == 0 <= v /\ v <= 100

isWithinBounds(f) ==
  isPercentInRange(f.remainingPct) /\ isPercentInRange(f.rcSignalStrength)

(* MonotonicTimestampGate.accept *)
accepts(d, f) == gate[d] = NoTs \/ f.ts > gate[d]

-----------------------------------------------------------------------------
(* persist/persister.ts *)

flush(kind) == chain' = Append(chain, kind)

(* offer: the rejected are counted and dropped, the accepted buffered; a    *)
(* full buffer schedules a drain, again for every sample that finds it full. *)
offer(d, f) ==
  \/ /\ ~isWithinBounds(f)
     /\ metrics' = [metrics EXCEPT !.framesParsed = @ + 1, !.rejectedBounds = @ + 1]
     /\ UNCHANGED <<gate, pending, chain, accepted>>
  \/ /\ isWithinBounds(f) /\ ~accepts(d, f)
     /\ metrics' = [metrics EXCEPT !.framesParsed = @ + 1,
                                   !.rejectedNonMonotonic = @ + 1]
     /\ UNCHANGED <<gate, pending, chain, accepted>>
  \/ /\ isWithinBounds(f) /\ accepts(d, f)
     /\ gate'     = [gate EXCEPT ![d] = f.ts]
     /\ pending'  = Append(pending, [drone |-> d, frame |-> f])
     /\ accepted' = Append(accepted, [drone |-> d, frame |-> f])
     /\ inc("framesParsed", 1)
     /\ IF Len(pending) + 1 >= BatchSize THEN flush("flush") ELSE UNCHANGED chain

(* The head of the chain is finished.  The one of stop() goes on to close   *)
(* the servers, whether its insert succeeded or not.                        *)
drained ==
  /\ chain' = Tail(chain)
  /\ phase' = IF Head(chain) = "stop" THEN "closing" ELSE phase

DrainEmpty ==
  /\ phase # "down" /\ chain # <<>> /\ writing = <<>> /\ pending = <<>>
  /\ drained
  /\ UNCHANGED <<conn, windows, gate, pending, writing, rows, metrics, emitted,
                 inputs, starts, accepted, atStop, handed, failed>>

DrainStart ==
  /\ phase # "down" /\ chain # <<>> /\ writing = <<>> /\ pending # <<>>
  /\ writing' = pending
  /\ pending' = <<>>
  /\ UNCHANGED <<phase, conn, windows, gate, chain, rows, metrics, emitted,
                 inputs, starts, accepted, atStop, handed, failed>>

(* The rows after a batch: ON CONFLICT (drone_id, ts) DO NOTHING. *)
inserted(batch) ==
  rows \cup {batch[i] : i \in {j \in 1..Len(batch) :
               \A r \in rows : r.drone = batch[j].drone => r.frame.ts # batch[j].frame.ts}}

InsertOk ==
  /\ phase # "down" /\ writing # <<>>
  /\ rows'    = inserted(writing)
  /\ handed'  = handed \o writing
  /\ writing' = <<>>
  /\ inc("samplesPersisted", Len(writing))
  /\ drained
  /\ UNCHANGED <<conn, windows, gate, pending, emitted, inputs, starts, accepted, atStop, failed>>

(* Mutant: a rejected insert is counted as persisted. *)
InsertFailCounts ==
  /\ phase # "down" /\ writing # <<>>
  /\ handed'  = handed \o writing
  /\ failed'  = failed \o writing
  /\ writing' = <<>>
  /\ inc("samplesPersisted", Len(writing))
  /\ drained
  /\ UNCHANGED <<conn, windows, gate, pending, rows, emitted, inputs, starts, accepted, atStop>>

(* Mutant: no catch on the chain: a rejection is never followed by a drain. *)
InsertFailStuck ==
  /\ phase # "down" /\ writing # <<>>
  /\ handed'  = handed \o writing
  /\ failed'  = failed \o writing
  /\ writing' = <<>>
  /\ chain'   = <<>>
  /\ UNCHANGED <<phase, conn, windows, gate, pending, rows, metrics, emitted,
                 inputs, starts, accepted, atStop>>

(***************************************************************************)
(* The insert rejects: onError logs it, the batch is gone and the gate has *)
(* moved on.  The statement may have been applied before the answer was    *)
(* lost.                                                                   *)
(***************************************************************************)
InsertFail ==
  /\ phase # "down" /\ writing # <<>>
  /\ rows' \in {rows, inserted(writing)}
  /\ handed'  = handed \o writing
  /\ failed'  = failed \o writing
  /\ writing' = <<>>
  /\ drained
  /\ UNCHANGED <<conn, windows, gate, pending, metrics, emitted, inputs, starts, accepted, atStop>>

-----------------------------------------------------------------------------
(* ws/server.ts *)

(* handleConnection: authorizeRequest refuses a bad token or drone id. New  *)
(* upgrades are no longer served once wss.close() has been called.          *)
Connect(c, d) ==
  /\ phase \in {"up", "flushing"} /\ conn[c] = NoDrone
  /\ inputs < MaxInputs
  /\ inputs' = inputs + 1
  /\ \/ conn' = [conn EXCEPT ![c] = d] /\ inc("connectionsAccepted", 1)
     \/ inc("connectionsRejected", 1) /\ UNCHANGED conn
  /\ UNCHANGED <<phase, windows, gate, pending, chain, writing, rows, emitted,
                 starts, accepted, atStop, handed, failed>>

Disconnect(c) ==
  /\ conn[c] # NoDrone
  /\ conn' = [conn EXCEPT ![c] = NoDrone]
  /\ UNCHANGED <<phase, windows, gate, pending, chain, writing, rows, metrics, emitted,
                 inputs, starts, accepted, atStop, handed, failed>>

(* What parseFrame makes of the frames that may arrive. *)
Damaged == {w \in Wires : ~wellFormed(w)}
Parsed  == {parseFrame(w) : w \in Wires \ Damaged}

(* handleFrame: a frame that does not parse is counted and dropped. *)
MalformedFrame(c) ==
  /\ phase # "down" /\ conn[c] # NoDrone
  /\ Damaged # {}
  /\ inputs < MaxInputs
  /\ inputs' = inputs + 1
  /\ inc("parseErrors", 1)
  /\ UNCHANGED <<phase, conn, windows, gate, pending, chain, writing, rows, emitted,
                 starts, accepted, atStop, handed, failed>>

(* handleFrame: the sample is observed first and offered afterwards. *)
HandleFrame(c, f) ==
  /\ phase # "down" /\ conn[c] # NoDrone
  /\ inputs < MaxInputs
  /\ inputs' = inputs + 1
  /\ observe(conn[c], f)
  /\ offer(conn[c], f)
  /\ UNCHANGED <<phase, conn, writing, rows, starts, atStop, handed, failed>>

-----------------------------------------------------------------------------
(* app.ts close(), index.ts shutdown() and main() *)

(* Mutant: stop() returns at once when the buffer is empty, whether or not   *)
(* an insert is in flight.                                                   *)
ShutdownEager ==
  /\ phase = "up"
  /\ phase' = IF pending = <<>> THEN "closing" ELSE "flushing"
  /\ IF pending = <<>> THEN UNCHANGED chain ELSE flush("stop")
  /\ atStop' = Len(accepted)
  /\ UNCHANGED <<conn, windows, gate, pending, writing, rows, metrics, emitted,
                 inputs, starts, accepted, handed, failed>>

Shutdown ==
  /\ phase = "up"
  /\ phase' = "flushing"
  /\ flush("stop")
  /\ atStop' = Len(accepted)
  /\ UNCHANGED <<conn, windows, gate, pending, writing, rows, metrics, emitted,
                 inputs, starts, accepted, handed, failed>>

(* The process ends: what is in memory is gone, an INSERT in flight may or  *)
(* may not have been applied, and every socket is closed.                   *)
Exit ==
  /\ phase' = "down"
  /\ conn'  = [c \in Conns |-> NoDrone]
  /\ rows'  \in {rows, inserted(writing)}
  /\ UNCHANGED memory
  /\ UNCHANGED <<inputs, starts>>

(* wss.close() calls back once every client has left; then process.exit. *)
Closed ==
  /\ phase = "closing"
  /\ \A c \in Conns : conn[c] = NoDrone
  /\ Exit

Crash == phase # "down" /\ Exit

Start ==
  /\ phase = "down" /\ starts < MaxStarts
  /\ phase'  = "up"
  /\ starts' = starts + 1
  /\ windows'  = [d \in Drones |-> <<>>]
  /\ gate'     = [d \in Drones |-> NoTs]
  /\ pending'  = <<>>
  /\ chain'    = <<>>
  /\ writing'  = <<>>
  /\ metrics'  = [k \in Counters |-> 0]
  /\ emitted'  = NoAnomaly
  /\ accepted' = <<>>
  /\ atStop'   = 0
  /\ handed'   = <<>>
  /\ failed'   = <<>>
  /\ UNCHANGED <<conn, rows, inputs>>

-----------------------------------------------------------------------------
Init ==
  /\ phase  = "up"
  /\ conn   = [c \in Conns |-> NoDrone]
  /\ rows   = Seeded
  /\ inputs = 0
  /\ starts = 1
  /\ windows  = [d \in Drones |-> <<>>]
  /\ gate     = [d \in Drones |-> NoTs]
  /\ pending  = <<>>
  /\ chain    = <<>>
  /\ writing  = <<>>
  /\ metrics  = [k \in Counters |-> 0]
  /\ emitted  = NoAnomaly
  /\ accepted = <<>>
  /\ atStop   = 0
  /\ handed   = <<>>
  /\ failed   = <<>>

Drain == DrainEmpty \/ DrainStart \/ InsertOk \/ InsertFail

Input ==
  \E c \in Conns :
    \/ \E d \in Drones : Connect(c, d)
    \/ Disconnect(c)
    \/ MalformedFrame(c)
    \/ \E f \in Parsed : HandleFrame(c, f)

Next == Drain \/ Input \/ Shutdown \/ Closed \/ Crash \/ Start

Spec == Init /\ [][Next]_vars

(* Promise callbacks run and every query is answered, one way or the other. *)
FairSpec == Spec /\ WF_vars(Drain)

-----------------------------------------------------------------------------
(* Properties *)

(* The type invariant. *)
TypeOK ==
  /\ phase    \in {"up", "flushing", "closing", "down"}
  /\ conn     \in [Conns -> Drones \cup {NoDrone}]
  /\ windows  \in [Drones -> Seq(Frames)]
  /\ \A d \in Drones : Len(windows[d]) <= WindowSize
  /\ gate     \in [Drones -> Nat \cup {NoTs}]
  /\ pending  \in Seq(Sample)
  /\ chain    \in Seq({"flush", "stop"})
  /\ writing  \in Seq(Sample)
  /\ rows     \subseteq Sample \cup Seeded
  /\ metrics  \in [Counters -> Nat]
  /\ emitted.drone \in Drones \cup {NoDrone}
  /\ inputs   \in Nat
  /\ starts   \in Nat
  /\ accepted \in Seq(Sample)
  /\ atStop   \in Nat
  /\ handed   \in Seq(Sample)
  /\ failed   \in Seq(Sample)

(***************************************************************************)
(* Every sample offer() accepted is handed to the store exactly once and   *)
(* in the order of acceptance, however many frames arrive while an insert  *)
(* is in flight: what is not yet answered is in flight or in the buffer.   *)
(* By the time close() goes on to the servers all that was accepted before *)
(* stop() was called has been answered.                                    *)
(***************************************************************************)
HandedOverOnce ==
  /\ accepted = handed \o writing \o pending
  /\ phase = "closing" => Len(handed) >= atStop

(* Every parsed frame is counted once: rejected, persisted, lost with a     *)
(* failed insert, in flight or buffered.                                    *)
FramesAccountedFor ==
  metrics.framesParsed =
    metrics.rejectedBounds + metrics.rejectedNonMonotonic
    + metrics.samplesPersisted + Len(failed) + Len(writing) + Len(pending)

(* The readings that were sent and may arrive as they were sent. *)
Undamaged == {f \in Frames : encode(f) \in Wires}

(***************************************************************************)
(* The hypertable holds at most one row per drone and timestamp, across    *)
(* restarts that forget the gate and drones that send again; every row is  *)
(* a reading some drone sent, undamaged and within bounds.  What is handed *)
(* over by one process ascends in time for each drone, whichever           *)
(* connections it came over.                                               *)
(***************************************************************************)
RowsWellFormed ==
  /\ TypeOK
  /\ \A r \in rows :
       /\ r \notin Seeded =>
            /\ r.frame.remainingPct \in 0..100 /\ r.frame.rcSignalStrength \in 0..100
            /\ r.frame \in Undamaged
       /\ \A q \in rows : q.drone = r.drone /\ q.frame.ts = r.frame.ts => q = r
  /\ \A i, j \in 1..Len(accepted) :
       i < j /\ accepted[i].drone = accepted[j].drone =>
         accepted[i].frame.ts < accepted[j].frame.ts /\ accepted[j].frame.ts <= gate[accepted[j].drone]

AnswersWell(stored, q) ==
  LET answer == handleHistory(stored, q)
  IN  IF answer.status = 200 THEN Conserves(stored, q, answer.points)
      ELSE /\ answer.points = <<>>
           /\ Blank \in {q.droneId, q.from, q.to} \/ q.from > q.to \/ q.buckets = 0

(* The contents of the hypertable of which every request is answered well    *)
(* (a constant, so that it is worked out once).                              *)
Conserved ==
  {new \cup Seeded : new \in {n \in SUBSET {s \in Sample : isWithinBounds(s.frame)} :
                              \A q \in Queries : AnswersWell(n \cup Seeded, q)}}

(***************************************************************************)
(* Whatever has been stored when a history request is answered, the series *)
(* conserves it up to one granule at each end of the range, and a request  *)
(* that makes no sense gets a 400 and no points.                           *)
(***************************************************************************)
HistoryConserves == rows \in Conserved

(***************************************************************************)
(* A persisting GPS fault is reported once: of two frames of a drone in a  *)
(* row, not both report GPS_ACCURACY_LOSS, whatever the window's bound.    *)
(***************************************************************************)
GpsLossReportedOnce ==
  [][/\ metrics'.framesParsed > metrics.framesParsed
     /\ emitted'.drone = emitted.drone
     /\ "GPS_ACCURACY_LOSS" \in emitted.kinds
     => "GPS_ACCURACY_LOSS" \notin emitted'.kinds]_vars

(* A full buffer is drained and stop() gets to the end of its final flush,  *)
(* failing inserts or not, unless the process ends.                         *)
BufferDrains ==
  /\ Len(pending) >= BatchSize ~> Len(pending) < BatchSize \/ phase = "down"
  /\ phase = "flushing" ~> phase # "flushing"

(* The window of a drone is ascending by timestamp (pipeline.ts).           *)
WindowAscending ==
  \A d \in Drones : \A i, j \in 1..Len(windows[d]) :
    i < j => windows[d][i].ts < windows[d][j].ts
=============================================================================
