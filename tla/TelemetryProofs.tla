-------------------------- MODULE TelemetryProofs ---------------------------
(***************************************************************************)
(* Theorems about Telemetry, for every set of drones, connections and      *)
(* readings, every batch and window size and every number of restarts.     *)
(***************************************************************************)
EXTENDS Telemetry, FunctionTheorems, FiniteSetTheorems, SequenceTheorems,
        WellFoundedInduction, TLAPS

-----------------------------------------------------------------------------
(* What comes over a connection. *)

(* Division undoes a product and its remainder. *)
LEMMA DivRemainder ==
  ASSUME NEW q \in Nat, NEW n \in Nat \ {0}, NEW r \in 0..n - 1
  PROVE  (q * n + r) \div n = q
  <1> DEFINE p == (q * n + r) \div n
  <1>1. q * n \in Nat /\ q * n + r \in Nat
    OBVIOUS
  <1>2. p \in Nat /\ n * p <= q * n + r /\ q * n + r < n * p + n
    BY <1>1
  <1> HIDE DEF p
  <1>3. p < q + 1
    <2>1. SUFFICES ASSUME p >= q + 1 PROVE FALSE
      BY <1>2
    <2>2. n * p >= n * (q + 1) /\ n * (q + 1) = q * n + n
      BY <1>2, <2>1
    <2>3. QED BY <1>1, <1>2, <2>2
  <1>4. p > q - 1
    <2>1. SUFFICES ASSUME p + 1 <= q PROVE FALSE
      BY <1>2
    <2>2. n * (p + 1) <= n * q /\ n * (p + 1) = n * p + n
      BY <1>2, <2>1
    <2>3. QED BY <1>1, <1>2, <2>2
  <1>5. QED BY <1>2, <1>3, <1>4 DEF p

(* A frame that parses is read as one of the readings that were sent.       *)
LEMMA ParsedIsSent == Parsed \subseteq Undamaged
  <1> SUFFICES ASSUME NEW w \in Wires, wellFormed(w)
               PROVE  parseFrame(w) \in Undamaged
    BY DEF Parsed, Damaged
  <1>1. PICK f \in Frames :
          /\ encode(f) \in Wires /\ w.data = encode(f).data
          /\ w.timeUsec \in encode(f).timeUsec .. encode(f).timeUsec + MicrosPerMs - 1
    BY TelemetryAssumption DEF wellFormed
  <1>2. f \in [ts : Nat, altitude : Int, remainingPct : Int,
               rcSignalStrength : Int, healthy : BOOLEAN, flags : Nat]
    BY TelemetryAssumption
  <1>3. encode(f).timeUsec = f.ts * MicrosPerMs /\ f.ts * MicrosPerMs \in Nat
    BY <1>2, TelemetryAssumption DEF encode
  <1>4. PICK r \in 0..MicrosPerMs - 1 : w.timeUsec = f.ts * MicrosPerMs + r
    <2>1. w.timeUsec - f.ts * MicrosPerMs \in 0..MicrosPerMs - 1
      BY <1>1, <1>3, TelemetryAssumption
    <2>2. w.timeUsec = f.ts * MicrosPerMs + (w.timeUsec - f.ts * MicrosPerMs)
      BY <1>1, <1>3, TelemetryAssumption
    <2>3. QED BY <2>1, <2>2
  <1>5. microsToIso(w.timeUsec) = f.ts
    BY <1>2, <1>4, DivRemainder, TelemetryAssumption DEF microsToIso
  <1>6. /\ w.data.altitude = f.altitude
        /\ w.data.remainingPct = f.remainingPct
        /\ w.data.rcSignalStrength = f.rcSignalStrength
        /\ w.data.ekf2Healthy = IF f.healthy THEN 1 ELSE 0
        /\ w.data.ekf2Flags = f.flags * 10
    BY <1>1 DEF encode
  <1>7. (w.data.ekf2Flags + 5) \div 10 = f.flags
    BY <1>2, <1>6, DivRemainder
  <1>8. (w.data.ekf2Healthy # 0) = f.healthy
    BY <1>2, <1>6
  <1>9. parseFrame(w) = f
    BY <1>2, <1>5, <1>6, <1>7, <1>8 DEF parseFrame
  <1>10. QED BY <1>1, <1>9 DEF Undamaged

-----------------------------------------------------------------------------
(* Sequences and windows. *)

(* Appending to the last part of a sequence appends to the whole. *)
LEMMA AppendToPart ==
  ASSUME NEW S, NEW a \in Seq(S), NEW b \in Seq(S), NEW x \in S
  PROVE  a \o Append(b, x) = Append(a \o b, x)
  <1>1. <<x>> \in Seq(S) /\ a \o b \in Seq(S)
    BY ConcatProperties
  <1>2. Append(b, x) = b \o <<x>> /\ Append(a \o b, x) = (a \o b) \o <<x>>
    BY <1>1, AppendIsConcat
  <1>3. QED BY <1>1, <1>2, ConcatAssociative

(* A window remembers the newest frame and does not outgrow its bound.      *)
LEMMA RememberType ==
  ASSUME TypeOK, NEW d \in Drones, NEW f \in Frames
  PROVE  /\ remember(d, f) \in Seq(Frames) /\ remember(d, f) # <<>>
         /\ Len(remember(d, f)) <= WindowSize
         /\ remember(d, f)[Len(remember(d, f))] = f
  <1> DEFINE w == Append(windows[d], f)
  <1>1. windows[d] \in Seq(Frames) /\ Len(windows[d]) <= WindowSize
    BY DEF TypeOK
  <1>2. /\ w \in Seq(Frames) /\ Len(w) = Len(windows[d]) + 1 /\ w[Len(w)] = f
        /\ Len(windows[d]) \in Nat
    BY <1>1, AppendProperties, LenProperties
  <1>3. WindowSize \in Nat \ {0}
    BY TelemetryAssumption
  <1> HIDE DEF w
  <1>4. CASE Len(w) <= WindowSize
    <2>1. remember(d, f) = w
      BY <1>2, <1>3, <1>4 DEF remember, w
    <2>2. w # <<>>
      BY <1>2, EmptySeq
    <2>3. QED BY <1>2, <1>4, <2>1, <2>2
  <1>5. CASE Len(w) > WindowSize
    <2>1. remember(d, f) = Tail(w)
      BY <1>5 DEF remember, w
    <2>2. Len(w) = WindowSize + 1 /\ w # <<>>
      BY <1>1, <1>2, <1>3, <1>5, EmptySeq
    <2>3. /\ Tail(w) \in Seq(Frames) /\ Len(Tail(w)) = Len(w) - 1
          /\ \A i \in 1..Len(Tail(w)) : Tail(w)[i] = w[i + 1]
      BY <1>2, <2>2, HeadTailProperties
    <2>4. Tail(w)[WindowSize] = w[WindowSize + 1] /\ Tail(w) # <<>>
      BY <1>3, <2>2, <2>3, EmptySeq
    <2>5. QED BY <1>2, <1>3, <2>1, <2>2, <2>3, <2>4
  <1>6. QED BY <1>1, <1>2, <1>3, <1>4, <1>5

-----------------------------------------------------------------------------
(* Types *)

(* The service that has not started has its types. *)
LEMMA InitType == Init => TypeOK
  <1> SUFFICES ASSUME Init PROVE TypeOK
    OBVIOUS
  <1>1. /\ \A S : <<>> \in Seq(S)
        /\ Len(<<>>) = 0 /\ WindowSize \in Nat
    BY TelemetryAssumption
  <1>2. /\ metrics \in [Counters -> Nat] /\ windows \in [Drones -> Seq(Frames)]
        /\ \A d \in Drones : Len(windows[d]) <= WindowSize
    BY <1>1 DEF Init
  <1>3. QED BY <1>1, <1>2 DEF Init, TypeOK, NoTs, NoAnomaly

(* A start keeps the types. *)
LEMMA StartType ==
  ASSUME TypeOK, Start
  PROVE  TypeOK'
  <1>1. /\ \A S : <<>> \in Seq(S)
        /\ Len(<<>>) = 0 /\ WindowSize \in Nat
    BY TelemetryAssumption
  <1>2. /\ metrics' \in [Counters -> Nat] /\ windows' \in [Drones -> Seq(Frames)]
        /\ \A d \in Drones : Len(windows'[d]) <= WindowSize
    BY <1>1 DEF Start
  <1>3. QED BY <1>1, <1>2 DEF Start, TypeOK, NoTs, NoAnomaly

(* A batch of samples is stored as samples. *)
LEMMA InsertedType ==
  ASSUME TypeOK
  PROVE  inserted(writing) \subseteq Sample \cup Seeded
  <1>1. \A i \in 1..Len(writing) : writing[i] \in Sample
    BY ElementOfSeq DEF TypeOK
  <1>2. QED BY <1>1 DEF TypeOK, inserted

(* What the end of a write leaves of the chain of flushes. *)
LEMMA DrainedType ==
  ASSUME TypeOK, chain # <<>>, drained
  PROVE  /\ phase' \in {"up", "flushing", "closing", "down"}
         /\ chain' \in Seq({"flush", "stop"})
  BY HeadTailProperties DEF TypeOK, drained

(* A write, stored or failed, keeps the types. *)
LEMMA DrainType ==
  ASSUME TypeOK, Drain, writing # <<>> => chain # <<>>
  PROVE  TypeOK'
  <1>1. CASE DrainEmpty
    BY <1>1, DrainedType DEF DrainEmpty, TypeOK
  <1>2. CASE DrainStart
    <2>1. <<>> \in Seq(Sample)
      OBVIOUS
    <2>2. QED BY <1>2, <2>1 DEF DrainStart, TypeOK
  <1>3. CASE InsertOk
    <2>1. metrics' \in [Counters -> Nat]
      <3>1. Len(writing) \in Nat /\ "samplesPersisted" \in Counters
        BY LenProperties DEF TypeOK, Counters
      <3>2. metrics' = [metrics EXCEPT !["samplesPersisted"] = @ + Len(writing)]
        BY <1>3 DEF InsertOk, inc
      <3>3. metrics \in [Counters -> Nat] /\ metrics["samplesPersisted"] + Len(writing) \in Nat
        BY <3>1 DEF TypeOK
      <3>4. QED BY <3>1, <3>2, <3>3
    <2>2. handed' \in Seq(Sample) /\ writing' \in Seq(Sample)
      BY <1>3, ConcatProperties DEF InsertOk, TypeOK
    <2>3. QED BY <1>3, <2>1, <2>2, DrainedType, InsertedType DEF InsertOk, TypeOK
  <1>4. CASE InsertFail
    <2>1. handed' \in Seq(Sample) /\ failed' \in Seq(Sample) /\ writing' \in Seq(Sample)
      BY <1>4, ConcatProperties DEF InsertFail, TypeOK
    <2>2. rows' \subseteq Sample \cup Seeded
      BY <1>4, InsertedType DEF InsertFail, TypeOK
    <2>3. phase' \in {"up", "flushing", "closing", "down"} /\ chain' \in Seq({"flush", "stop"})
      BY <1>4, DrainedType DEF InsertFail
    <2>4. QED BY <1>4, <2>1, <2>2, <2>3 DEF InsertFail, TypeOK
  <1>5. QED BY <1>1, <1>2, <1>3, <1>4 DEF Drain

(* What a frame that parses does to the buffer. *)
Accepted(d, f) ==
  /\ isWithinBounds(f) /\ accepts(d, f)
  /\ gate'     = [gate EXCEPT ![d] = f.ts]
  /\ pending'  = Append(pending, [drone |-> d, frame |-> f])
  /\ accepted' = Append(accepted, [drone |-> d, frame |-> f])
  /\ metrics'  = [metrics EXCEPT !.framesParsed = @ + 1]
  /\ \/ chain' = Append(chain, "flush")
     \/ UNCHANGED chain

Dropped ==
  /\ UNCHANGED <<gate, pending, chain, accepted>>
  /\ \/ metrics' = [metrics EXCEPT !.framesParsed = @ + 1, !.rejectedBounds = @ + 1]
     \/ metrics' = [metrics EXCEPT !.framesParsed = @ + 1, !.rejectedNonMonotonic = @ + 1]

(* A frame that reaches the bounds check is dropped or accepted. *)
LEMMA FrameCases ==
  ASSUME TypeOK, NEW c \in Conns, NEW f \in Parsed, HandleFrame(c, f)
  PROVE  /\ conn[c] \in Drones /\ f \in Frames /\ f \in Undamaged /\ f.ts \in Nat
         /\ observe(conn[c], f)
         /\ UNCHANGED <<phase, conn, writing, rows, starts, atStop, handed, failed>>
         /\ inputs' = inputs + 1
         /\ Dropped \/ Accepted(conn[c], f)
  <1>1. conn[c] \in Drones
    BY DEF HandleFrame, TypeOK
  <1>2. f \in Undamaged /\ f \in Frames /\ f.ts \in Nat
    BY ParsedIsSent, TelemetryAssumption DEF Undamaged
  <1>3. Dropped \/ Accepted(conn[c], f)
    BY DEF HandleFrame, offer, Dropped, Accepted, inc, flush
  <1>4. QED BY <1>1, <1>2, <1>3 DEF HandleFrame

(* A frame keeps the types. *)
LEMMA FrameType ==
  ASSUME TypeOK, NEW c \in Conns, NEW f \in Parsed, HandleFrame(c, f)
  PROVE  TypeOK'
  <1>1. /\ conn[c] \in Drones /\ f \in Frames /\ f.ts \in Nat
        /\ observe(conn[c], f)
        /\ UNCHANGED <<phase, conn, writing, rows, starts, atStop, handed, failed>>
        /\ inputs' = inputs + 1
        /\ Dropped \/ Accepted(conn[c], f)
    BY FrameCases
  <1>2. /\ windows' \in [Drones -> Seq(Frames)]
        /\ \A d \in Drones : Len(windows'[d]) <= WindowSize
        /\ emitted'.drone \in Drones
    BY <1>1, RememberType DEF observe, TypeOK
  <1>3. metrics' \in [Counters -> Nat]
    <2>1. /\ metrics \in [Counters -> Nat]
          /\ {"framesParsed", "rejectedBounds", "rejectedNonMonotonic"} \subseteq Counters
      BY DEF TypeOK, Counters
    <2>2. /\ metrics.framesParsed + 1 \in Nat /\ metrics.rejectedBounds + 1 \in Nat
          /\ metrics.rejectedNonMonotonic + 1 \in Nat
      BY <2>1
    <2>3. CASE Accepted(conn[c], f)
      <3>1. metrics' = [metrics EXCEPT !.framesParsed = @ + 1]
        BY <2>3 DEF Accepted
      <3>2. QED BY <2>1, <2>2, <3>1
    <2>4. CASE Dropped
      <3>1. \/ metrics' = [metrics EXCEPT !.framesParsed = @ + 1, !.rejectedBounds = @ + 1]
            \/ metrics' = [metrics EXCEPT !.framesParsed = @ + 1,
                                          !.rejectedNonMonotonic = @ + 1]
        BY <2>4 DEF Dropped
      <3>2. QED BY <2>1, <2>2, <3>1
    <2>5. QED BY <1>1, <2>3, <2>4
  <1>4. /\ gate' \in [Drones -> Nat \cup {NoTs}] /\ pending' \in Seq(Sample)
        /\ accepted' \in Seq(Sample) /\ chain' \in Seq({"flush", "stop"})
    <2>1. CASE Dropped
      BY <2>1 DEF Dropped, TypeOK
    <2>2. CASE Accepted(conn[c], f)
      <3>1. [drone |-> conn[c], frame |-> f] \in Sample
        BY <1>1 DEF Sample
      <3>2. QED BY ZenonT(60), <1>1, <2>2, <3>1, AppendProperties DEF Accepted, TypeOK
    <2>3. QED BY <1>1, <2>1, <2>2
  <1>5. /\ phase' \in {"up", "flushing", "closing", "down"}
        /\ conn' \in [Conns -> Drones \cup {NoDrone}]
        /\ writing' \in Seq(Sample) /\ rows' \subseteq Sample \cup Seeded
        /\ inputs' \in Nat /\ starts' \in Nat /\ atStop' \in Nat
        /\ handed' \in Seq(Sample) /\ failed' \in Seq(Sample)
    BY <1>1 DEF TypeOK
  <1>6. QED BY <1>2, <1>3, <1>4, <1>5 DEF TypeOK

(* The steps of the sockets and of the process keep the types. *)
LEMMA ProcessType ==
  ASSUME TypeOK,
         \/ \E c \in Conns : \/ \E d \in Drones : Connect(c, d)
                             \/ Disconnect(c) \/ MalformedFrame(c)
         \/ Shutdown \/ Closed \/ Crash
  PROVE  TypeOK'
  <1>1. /\ metrics \in [Counters -> Nat]
        /\ {"parseErrors", "connectionsAccepted", "connectionsRejected"} \subseteq Counters
    BY DEF TypeOK, Counters
  <1>2. /\ metrics.parseErrors + 1 \in Nat /\ metrics.connectionsAccepted + 1 \in Nat
        /\ metrics.connectionsRejected + 1 \in Nat
    BY <1>1
  <1>3. CASE \E c \in Conns, d \in Drones : Connect(c, d)
    <2>1. PICK c \in Conns, d \in Drones : Connect(c, d)
      BY <1>3
    <2>2. conn' \in [Conns -> Drones \cup {NoDrone}]
      BY <2>1 DEF Connect, TypeOK
    <2>3. \/ metrics' = [metrics EXCEPT !["connectionsAccepted"] = @ + 1]
          \/ metrics' = [metrics EXCEPT !["connectionsRejected"] = @ + 1]
      BY <2>1 DEF Connect, inc
    <2>4. metrics' \in [Counters -> Nat]
      BY <1>1, <1>2, <2>3
    <2>5. QED BY <2>1, <2>2, <2>4 DEF Connect, TypeOK
  <1>4. CASE \E c \in Conns : Disconnect(c)
    BY <1>4 DEF Disconnect, TypeOK
  <1>5. CASE \E c \in Conns : MalformedFrame(c)
    <2>1. metrics' = [metrics EXCEPT !["parseErrors"] = @ + 1]
      BY <1>5 DEF MalformedFrame, inc
    <2>2. metrics' \in [Counters -> Nat]
      BY <1>1, <1>2, <2>1
    <2>3. QED BY <1>5, <2>2 DEF MalformedFrame, TypeOK
  <1>6. CASE Shutdown
    <2>1. chain' \in Seq({"flush", "stop"})
      BY <1>6, AppendProperties DEF Shutdown, flush, TypeOK
    <2>2. atStop' \in Nat
      BY <1>6, LenProperties DEF Shutdown, TypeOK
    <2>3. QED BY <1>6, <2>1, <2>2 DEF Shutdown, TypeOK
  <1>7. CASE Closed \/ Crash
    BY <1>7, InsertedType DEF Closed, Crash, Exit, memory, TypeOK
  <1>8. QED BY <1>3, <1>4, <1>5, <1>6, <1>7

-----------------------------------------------------------------------------
(* The buffer, the batch in flight and the chain of drains. *)

(***************************************************************************)
(* Every accepted sample is answered, in flight or buffered, in order; the *)
(* head of the chain owns the batch in flight; the drain of stop() hands   *)
(* over at least what was accepted before it was scheduled.                *)
(***************************************************************************)
HandOver ==
  /\ accepted = handed \o writing \o pending
  /\ FramesAccountedFor
  /\ writing # <<>> => chain # <<>>
  /\ phase = "up" => \A i \in 1..Len(chain) : chain[i] = "flush"
  /\ atStop <= Len(accepted)
  /\ writing # <<>> /\ Head(chain) = "stop" => atStop <= Len(handed) + Len(writing)
  /\ phase = "closing" => atStop <= Len(handed)

(* A sample accepted is handed over, being written or buffered. *)
LEMMA Lengths ==
  ASSUME TypeOK, HandOver
  PROVE  /\ Len(accepted) = Len(handed) + Len(writing) + Len(pending)
         /\ Len(accepted) \in Nat /\ Len(handed) \in Nat /\ Len(failed) \in Nat
         /\ Len(writing) \in Nat /\ Len(pending) \in Nat /\ Len(chain) \in Nat
         /\ handed \o writing \in Seq(Sample)
  <1>1. /\ handed \in Seq(Sample) /\ writing \in Seq(Sample) /\ pending \in Seq(Sample)
        /\ accepted \in Seq(Sample) /\ failed \in Seq(Sample)
        /\ chain \in Seq({"flush", "stop"})
    BY DEF TypeOK
  <1>2. /\ handed \o writing \in Seq(Sample)
        /\ Len(handed \o writing) = Len(handed) + Len(writing)
    BY <1>1, ConcatProperties
  <1>3. Len(accepted) = Len(handed \o writing) + Len(pending)
    BY <1>1, <1>2, ConcatProperties DEF HandOver
  <1>4. QED BY <1>1, <1>2, <1>3, LenProperties

(* The counters are natural numbers. *)
LEMMA Counted ==
  ASSUME TypeOK
  PROVE  /\ metrics \in [Counters -> Nat]
         /\ {"framesParsed", "rejectedBounds", "rejectedNonMonotonic",
             "samplesPersisted"} \subseteq Counters
         /\ metrics.framesParsed \in Nat /\ metrics.rejectedBounds \in Nat
         /\ metrics.rejectedNonMonotonic \in Nat /\ metrics.samplesPersisted \in Nat
  <1>1. /\ metrics \in [Counters -> Nat]
        /\ {"framesParsed", "rejectedBounds", "rejectedNonMonotonic",
            "samplesPersisted"} \subseteq Counters
    BY DEF TypeOK, Counters
  <1>2. QED BY <1>1

(* A finished drain: the chain loses its head. *)
LEMMA DrainedChain ==
  ASSUME TypeOK, HandOver, chain # <<>>, drained
  PROVE  /\ Len(chain) \in Nat \ {0} /\ Head(chain) = chain[1]
         /\ phase' = "closing" => phase = "closing" \/ Head(chain) = "stop"
         /\ phase' = "up" => \A i \in 1..Len(chain') : chain'[i] = "flush"
  <1>1. chain \in Seq({"flush", "stop"})
    BY DEF TypeOK
  <1>2. Len(chain) \in Nat \ {0} /\ Head(chain) = chain[1]
    BY <1>1, EmptySeq
  <1>3. /\ Len(chain') = Len(chain) - 1
        /\ \A i \in 1..Len(chain') : chain'[i] = chain[i + 1]
    BY <1>1, HeadTailProperties DEF drained
  <1>4. phase' = "up" => phase = "up"
    BY DEF drained
  <1>5. phase' = "up" => \A i \in 1..Len(chain') : chain'[i] = "flush"
    BY <1>2, <1>3, <1>4 DEF HandOver
  <1>6. QED BY <1>2, <1>5 DEF drained

(* No drain loses a sample, hands one over twice or changes the order.      *)
LEMMA DrainHandsOver ==
  ASSUME TypeOK, HandOver, Drain
  PROVE  HandOver'
  <1>1. /\ handed \in Seq(Sample) /\ writing \in Seq(Sample) /\ pending \in Seq(Sample)
        /\ failed \in Seq(Sample) /\ atStop \in Nat
    BY DEF TypeOK
  <1>2. Len(<<>>) = 0 /\ <<>> \in Seq(Sample)
    OBVIOUS
  <1>3. /\ Len(accepted) = Len(handed) + Len(writing) + Len(pending)
        /\ Len(accepted) \in Nat /\ Len(handed) \in Nat /\ Len(failed) \in Nat
        /\ Len(writing) \in Nat /\ Len(pending) \in Nat /\ Len(chain) \in Nat
        /\ handed \o writing \in Seq(Sample)
    BY Lengths
  <1>4. CASE DrainEmpty
    <2>1. /\ chain # <<>> /\ drained /\ writing = <<>> /\ pending = <<>>
          /\ UNCHANGED <<pending, writing, metrics, accepted, atStop, handed, failed>>
      BY <1>4 DEF DrainEmpty
    <2>2. phase' = "closing" => atStop <= Len(handed)
      BY <1>2, <1>3, <2>1, DrainedChain DEF HandOver
    <2>3. QED BY <2>1, <2>2, DrainedChain DEF HandOver, FramesAccountedFor
  <1>5. CASE DrainStart
    <2>1. /\ chain # <<>> /\ writing = <<>> /\ writing' = pending /\ pending' = <<>>
          /\ UNCHANGED <<phase, chain, metrics, accepted, atStop, handed, failed>>
      BY <1>5 DEF DrainStart
    <2>2. accepted' = handed' \o writing' \o pending'
      <3>1. handed \o <<>> = handed /\ handed \o pending \in Seq(Sample)
        BY <1>1, ConcatEmptySeq, ConcatProperties
      <3>2. (handed \o pending) \o <<>> = handed \o pending
        BY <3>1, ConcatEmptySeq
      <3>3. accepted = (handed \o <<>>) \o pending
        BY <2>1 DEF HandOver
      <3>4. QED BY <2>1, <3>1, <3>2, <3>3
    <2>3. FramesAccountedFor'
      <3>1. Len(writing) = 0 /\ Len(writing') = Len(pending) /\ Len(pending') = 0
            /\ metrics' = metrics /\ failed' = failed
        BY <2>1
      <3>2. QED BY <1>3, <3>1, Counted DEF HandOver, FramesAccountedFor
    <2>4. QED BY <1>2, <1>3, <2>1, <2>2, <2>3 DEF HandOver
  <1>6. CASE InsertOk \/ InsertFail
    <2>1. /\ chain # <<>> /\ drained /\ writing' = <<>>
          /\ handed' = handed \o writing
          /\ UNCHANGED <<pending, accepted, atStop>>
      BY <1>6 DEF InsertOk, InsertFail, HandOver
    <2>2. Len(handed') = Len(handed) + Len(writing)
      BY <1>1, <2>1, ConcatProperties
    <2>3. accepted' = handed' \o writing' \o pending'
      <3>1. (handed \o writing) \o <<>> = handed \o writing
        BY <1>3, ConcatEmptySeq
      <3>2. QED BY <2>1, <3>1 DEF HandOver
    <2>4. phase' = "closing" => atStop' <= Len(handed')
      <3>1. writing # <<>>
        BY <1>6 DEF InsertOk, InsertFail
      <3>2. QED BY <1>1, <1>3, <2>1, <2>2, <3>1, DrainedChain DEF HandOver
    <2>5. FramesAccountedFor'
      <3>1. /\ metrics \in [Counters -> Nat]
            /\ {"framesParsed", "rejectedBounds", "rejectedNonMonotonic",
                "samplesPersisted"} \subseteq Counters
        BY Counted
      <3>2. /\ metrics.framesParsed \in Nat /\ metrics.rejectedBounds \in Nat
            /\ metrics.rejectedNonMonotonic \in Nat /\ metrics.samplesPersisted \in Nat
        BY Counted
      <3>3. metrics.framesParsed = metrics.rejectedBounds + metrics.rejectedNonMonotonic
              + metrics.samplesPersisted + Len(failed) + Len(writing) + Len(pending)
        BY DEF HandOver, FramesAccountedFor
      <3>4. CASE InsertOk
        <4>1. /\ metrics'.framesParsed = metrics.framesParsed
              /\ metrics'.rejectedBounds = metrics.rejectedBounds
              /\ metrics'.rejectedNonMonotonic = metrics.rejectedNonMonotonic
              /\ metrics'.samplesPersisted = metrics.samplesPersisted + Len(writing)
          BY <3>1, <3>4 DEF InsertOk, inc
        <4>2. failed' = failed
          BY <3>4 DEF InsertOk
        <4>3. QED BY SMTT(30), <1>2, <1>3, <2>1, <3>2, <3>3, <4>1, <4>2 DEF FramesAccountedFor
      <3>5. CASE InsertFail
        <4>1. Len(failed') = Len(failed) + Len(writing) /\ metrics' = metrics
          BY <1>1, <3>5, ConcatProperties DEF InsertFail
        <4>2. QED BY <1>2, <1>3, <2>1, <3>2, <3>3, <4>1 DEF FramesAccountedFor
      <3>6. QED BY <1>6, <3>4, <3>5
    <2>6. QED BY <2>1, <2>3, <2>4, <2>5, DrainedChain DEF HandOver
  <1>7. QED BY <1>4, <1>5, <1>6 DEF Drain

(* What is accepted joins the end of the buffer, whatever is in flight.     *)
LEMMA FrameHandsOver ==
  ASSUME TypeOK, HandOver, NEW c \in Conns, NEW f \in Parsed, HandleFrame(c, f)
  PROVE  HandOver'
  <1>1. /\ conn[c] \in Drones /\ f \in Frames
        /\ UNCHANGED <<phase, writing, atStop, handed, failed>>
        /\ Dropped \/ Accepted(conn[c], f)
    BY FrameCases
  <1>2. /\ Len(accepted) = Len(handed) + Len(writing) + Len(pending)
        /\ Len(accepted) \in Nat /\ Len(handed) \in Nat /\ Len(failed) \in Nat
        /\ Len(writing) \in Nat /\ Len(pending) \in Nat /\ Len(chain) \in Nat
        /\ handed \o writing \in Seq(Sample)
    BY Lengths
  <1>3. /\ metrics \in [Counters -> Nat]
        /\ {"framesParsed", "rejectedBounds", "rejectedNonMonotonic",
            "samplesPersisted"} \subseteq Counters
    BY Counted
  <1> DEFINE parsed == metrics.framesParsed
             bounds == metrics.rejectedBounds
             early  == metrics.rejectedNonMonotonic
             stored == metrics.samplesPersisted
             lost   == Len(failed)
             flying == Len(writing)
             waits  == Len(pending)
  <1>4. /\ parsed \in Nat /\ bounds \in Nat /\ early \in Nat /\ stored \in Nat
        /\ lost \in Nat /\ flying \in Nat /\ waits \in Nat
    BY <1>2, Counted
  <1>5. parsed = bounds + early + stored + lost + flying + waits
    BY DEF HandOver, FramesAccountedFor
  <1>6. CASE Dropped
    <2>1. /\ metrics'.framesParsed = parsed + 1 /\ metrics'.samplesPersisted = stored
          /\ \/ metrics'.rejectedBounds = bounds + 1 /\ metrics'.rejectedNonMonotonic = early
             \/ metrics'.rejectedBounds = bounds /\ metrics'.rejectedNonMonotonic = early + 1
          /\ Len(writing') = flying /\ Len(failed') = lost /\ Len(pending') = waits
      BY <1>1, <1>3, <1>6 DEF Dropped
    <2>2. FramesAccountedFor'
      <3> HIDE DEF parsed, bounds, early, stored, lost, flying, waits
      <3>1. metrics'.rejectedBounds + metrics'.rejectedNonMonotonic = bounds + early + 1
        BY <1>4, <2>1
      <3>2. parsed + 1 = (bounds + early + 1) + stored + lost + flying + waits
        BY <1>4, <1>5
      <3>3. QED BY <2>1, <3>1, <3>2 DEF FramesAccountedFor
    <2>3. QED BY <1>1, <1>6, <2>2 DEF Dropped, HandOver
  <1>7. CASE Accepted(conn[c], f)
    <2> DEFINE x == [drone |-> conn[c], frame |-> f]
    <2>1. x \in Sample
      BY <1>1 DEF Sample
    <2>2. /\ pending \in Seq(Sample) /\ accepted \in Seq(Sample) /\ atStop \in Nat
          /\ chain \in Seq({"flush", "stop"})
      BY DEF TypeOK
    <2>3. /\ pending' = Append(pending, x) /\ accepted' = Append(accepted, x)
          /\ metrics' = [metrics EXCEPT !.framesParsed = @ + 1]
          /\ chain' = Append(chain, "flush") \/ chain' = chain
      BY <1>7 DEF Accepted
    <2> HIDE DEF x
    <2>4. Len(pending') = Len(pending) + 1 /\ Len(accepted') = Len(accepted) + 1
      BY <2>1, <2>2, <2>3, AppendProperties
    <2>5. accepted' = handed' \o writing' \o pending'
      <3>1. handed' = handed /\ writing' = writing
        BY <1>1
      <3>2. accepted = (handed \o writing) \o pending
        BY DEF HandOver
      <3>3. (handed \o writing) \o Append(pending, x)
              = Append((handed \o writing) \o pending, x)
        BY SMTT(30), <1>2, <2>1, <2>2, AppendToPart
      <3>4. QED BY <2>3, <3>1, <3>2, <3>3
    <2>6. FramesAccountedFor'
      <3>1. /\ metrics'.framesParsed = parsed + 1 /\ metrics'.samplesPersisted = stored
            /\ metrics'.rejectedBounds = bounds /\ metrics'.rejectedNonMonotonic = early
            /\ Len(writing') = flying /\ Len(failed') = lost /\ Len(pending') = waits + 1
        BY <1>1, <1>3, <2>3, <2>4
      <3> HIDE DEF parsed, bounds, early, stored, lost, flying, waits
      <3>2. QED BY <1>4, <1>5, <3>1 DEF FramesAccountedFor
    <2>7. /\ chain # <<>> => chain' # <<>> /\ Head(chain') = Head(chain)
          /\ phase = "up" => \A i \in 1..Len(chain') : chain'[i] = "flush"
      <3>1. CASE chain' = chain
        BY <3>1 DEF HandOver
      <3>2. CASE chain' = Append(chain, "flush")
        <4>1. /\ chain' # <<>> /\ Len(chain') = Len(chain) + 1
              /\ \A i \in 1..Len(chain) : chain'[i] = chain[i]
              /\ chain'[Len(chain) + 1] = "flush"
          BY <2>2, <3>2, AppendProperties
        <4>2. chain # <<>> => Head(chain') = chain'[1] /\ Head(chain) = chain[1]
                               /\ 1 \in 1..Len(chain)
          BY <2>2, <4>1, EmptySeq
        <4>3. chain # <<>> => chain' # <<>> /\ Head(chain') = Head(chain)
          BY <4>1, <4>2
        <4>4. phase = "up" => \A i \in 1..Len(chain') : chain'[i] = "flush"
          BY <1>2, <4>1 DEF HandOver
        <4>5. QED BY <4>3, <4>4
      <3>3. QED BY <2>3, <3>1, <3>2
    <2>8. QED BY <1>1, <1>2, <2>2, <2>4, <2>5, <2>6, <2>7 DEF HandOver
  <1>8. QED BY <1>1, <1>6, <1>7

(* Nothing the sockets or the process do disturbs the order of delivery.    *)
LEMMA ProcessHandsOver ==
  ASSUME TypeOK, HandOver,
         \/ \E c \in Conns : \/ \E d \in Drones : Connect(c, d)
                             \/ Disconnect(c) \/ MalformedFrame(c)
         \/ Shutdown \/ Closed \/ Crash
  PROVE  HandOver'
  <1>1. /\ UNCHANGED <<pending, writing, accepted, handed, failed>>
        /\ metrics'.framesParsed = metrics.framesParsed
        /\ metrics'.rejectedBounds = metrics.rejectedBounds
        /\ metrics'.rejectedNonMonotonic = metrics.rejectedNonMonotonic
        /\ metrics'.samplesPersisted = metrics.samplesPersisted
    <2>1. \/ \E k \in {"parseErrors", "connectionsAccepted", "connectionsRejected"} :
               metrics' = [metrics EXCEPT ![k] = @ + 1]
          \/ metrics' = metrics
      BY DEF Connect, Disconnect, MalformedFrame, Shutdown, Closed, Crash, Exit, memory, inc
    <2>2. UNCHANGED <<pending, writing, accepted, handed, failed>>
      BY DEF Connect, Disconnect, MalformedFrame, Shutdown, Closed, Crash, Exit, memory
    <2>3. QED BY <2>1, <2>2, Counted
  <1>2. FramesAccountedFor'
    <2>1. /\ Len(writing') = Len(writing) /\ Len(failed') = Len(failed)
          /\ Len(pending') = Len(pending)
      BY <1>1
    <2>2. FramesAccountedFor
      BY DEF HandOver
    <2>3. QED BY <1>1, <2>1, <2>2 DEF FramesAccountedFor
  <1>3. CASE Shutdown
    <2>1. /\ phase = "up" /\ phase' = "flushing"
          /\ chain' = Append(chain, "stop") /\ atStop' = Len(accepted)
      BY <1>3 DEF Shutdown, flush
    <2>2. chain \in Seq({"flush", "stop"})
      BY DEF TypeOK
    <2>3. chain' # <<>> /\ \A i \in 1..Len(chain) : chain'[i] = chain[i]
      BY <2>1, <2>2, AppendProperties
    <2>4. writing # <<>> => Head(chain') = "flush"
      <3>1. SUFFICES ASSUME writing # <<>> PROVE Head(chain') = "flush"
        OBVIOUS
      <3>2. chain # <<>> /\ Len(chain) \in Nat \ {0}
        BY <2>2, <3>1, EmptySeq DEF HandOver
      <3>3. Head(chain') = chain'[1] /\ chain[1] = "flush"
        BY <2>1, <2>2, <2>3, <3>2 DEF HandOver
      <3>4. QED BY <2>3, <3>2, <3>3
    <2>5. QED BY <1>1, <1>2, <2>1, <2>3, <2>4, Lengths DEF HandOver
  <1>4. CASE ~Shutdown
    <2>1. /\ UNCHANGED <<chain, atStop>>
          /\ phase' = phase \/ phase' = "down"
      BY <1>4 DEF Connect, Disconnect, MalformedFrame, Closed, Crash, Exit, memory
    <2>2. QED BY <1>1, <1>2, <2>1 DEF HandOver
  <1>5. QED BY <1>3, <1>4

(* A process that starts has nothing to hand over. *)
LEMMA StartHandsOver ==
  /\ Init => HandOver
  /\ Start => HandOver'
  <1>1. <<>> \o <<>> \o <<>> = <<>>
    BY ConcatEmptySeq
  <1>2. Len(<<>>) = 0
    OBVIOUS
  <1>3. \A k \in {"framesParsed", "rejectedBounds", "rejectedNonMonotonic",
                 "samplesPersisted"} : [l \in Counters |-> 0][k] = 0
    BY DEF Counters
  <1>4. Init => HandOver
    BY <1>1, <1>2, <1>3 DEF Init, HandOver, FramesAccountedFor
  <1>5. Start => HandOver'
    BY <1>1, <1>2, <1>3 DEF Start, HandOver, FramesAccountedFor
  <1>6. QED BY <1>4, <1>5

-----------------------------------------------------------------------------
(* The samples a process accepts and the rows they become. *)

Sound(x) == x.frame \in Undamaged /\ isWithinBounds(x.frame)

(* The gate is at or past everything accepted, and each drone ascends. *)
Ascending ==
  /\ \A i \in 1..Len(accepted) :
       Sound(accepted[i]) /\ accepted[i].frame.ts <= gate[accepted[i].drone]
  /\ \A i, j \in 1..Len(accepted) :
       i < j /\ accepted[i].drone = accepted[j].drone =>
         accepted[i].frame.ts < accepted[j].frame.ts

Stored ==
  /\ \A r \in rows : r \notin Seeded => Sound(r)
  /\ \A q, r \in rows : q.drone = r.drone /\ q.frame.ts = r.frame.ts => q = r

(* A frame that is let through is later than all its drone had before.      *)
LEMMA FrameAscends ==
  ASSUME TypeOK, Ascending, NEW c \in Conns, NEW f \in Parsed, HandleFrame(c, f)
  PROVE  Ascending'
  <1>1. /\ conn[c] \in Drones /\ f \in Frames /\ f \in Undamaged /\ f.ts \in Nat
        /\ Dropped \/ Accepted(conn[c], f)
    BY FrameCases
  <1>2. CASE Dropped
    BY <1>2 DEF Dropped, Ascending
  <1>3. CASE Accepted(conn[c], f)
    <2>1. PICK dd \in Drones : dd = conn[c]
      BY <1>1
    <2>2. PICK y \in Sample : y = [drone |-> dd, frame |-> f]
      BY <1>1, <2>1 DEF Sample
    <2>3. y.drone = dd /\ y.frame = f /\ Sound(y)
      BY <1>1, <1>3, <2>2 DEF Sound, Accepted
    <2>4. accepted \in Seq(Sample) /\ gate \in [Drones -> Nat \cup {NoTs}]
      BY DEF TypeOK
    <2>5. /\ accepted' = Append(accepted, y) /\ gate' = [gate EXCEPT ![dd] = f.ts]
          /\ gate[dd] = NoTs \/ f.ts > gate[dd]
      BY <1>3, <2>1, <2>2 DEF Accepted, accepts
    <2>6. Len(accepted) \in Nat /\ \A i \in 1..Len(accepted) : accepted[i] \in Sample
      BY <2>4, LenProperties, ElementOfSeq
    <2>7. \A i \in 1..Len(accepted) :
            accepted[i].drone \in Drones /\ accepted[i].frame.ts \in Nat
      BY <2>6, TelemetryAssumption DEF Sample
    <2>8. /\ Len(accepted') = Len(accepted) + 1
          /\ \A i \in 1..Len(accepted) : accepted'[i] = accepted[i]
          /\ accepted'[Len(accepted) + 1] = y
      BY <2>4, <2>5, AppendProperties
    <2>9. gate[dd] \in Nat \/ gate[dd] = -1
      BY <2>4 DEF NoTs
    <2>10. \A i \in 1..Len(accepted) :
             accepted[i].drone = dd => accepted[i].frame.ts < f.ts
      BY <1>1, <2>5, <2>7, <2>9 DEF Ascending, NoTs
    <2>11. ASSUME NEW i \in 1..Len(accepted')
           PROVE  Sound(accepted'[i]) /\ accepted'[i].frame.ts <= gate'[accepted'[i].drone]
      <3>1. CASE i \in 1..Len(accepted)
        <4>1. Sound(accepted[i]) /\ accepted[i].frame.ts <= gate[accepted[i].drone]
          BY <3>1 DEF Ascending
        <4>2. CASE accepted[i].drone = dd
          <5>1. gate'[dd] = f.ts
            BY <2>4, <2>5
          <5>2. accepted[i].frame.ts < f.ts
            BY <2>10, <3>1, <4>2
          <5>3. QED BY <1>1, <2>7, <2>8, <3>1, <4>1, <4>2, <5>1, <5>2
        <4>3. CASE accepted[i].drone # dd
          <5>1. gate'[accepted[i].drone] = gate[accepted[i].drone]
            BY <2>4, <2>5, <2>7, <3>1, <4>3
          <5>2. QED BY <2>8, <3>1, <4>1, <5>1
        <4>4. QED BY <4>2, <4>3
      <3>2. CASE i = Len(accepted) + 1
        <4>1. gate'[dd] = f.ts
          BY <2>4, <2>5
        <4>2. QED BY <1>1, <2>3, <2>8, <3>2, <4>1
      <3>3. QED BY <2>6, <2>8, <3>1, <3>2
    <2>12. ASSUME NEW i \in 1..Len(accepted'), NEW j \in 1..Len(accepted'),
                  i < j, accepted'[i].drone = accepted'[j].drone
           PROVE  accepted'[i].frame.ts < accepted'[j].frame.ts
      <3>1. i \in 1..Len(accepted) /\ (j \in 1..Len(accepted) \/ j = Len(accepted) + 1)
        BY <2>6, <2>8, <2>12
      <3>2. CASE j \in 1..Len(accepted)
        BY <2>8, <2>12, <3>1, <3>2 DEF Ascending
      <3>3. CASE j = Len(accepted) + 1
        BY <2>3, <2>8, <2>10, <2>12, <3>1, <3>3
      <3>4. QED BY <3>1, <3>2, <3>3
    <2>13. QED BY <2>11, <2>12 DEF Ascending
  <1>4. QED BY <1>1, <1>2, <1>3

(* The batch in flight is a stretch of what was accepted. *)
LEMMA BatchIsAccepted ==
  ASSUME TypeOK, HandOver, NEW i \in 1..Len(writing)
  PROVE  /\ Len(handed) + i \in 1..Len(accepted)
         /\ writing[i] = accepted[Len(handed) + i]
         /\ writing[i] \in Sample
  <1>1. /\ handed \in Seq(Sample) /\ writing \in Seq(Sample) /\ pending \in Seq(Sample)
    BY DEF TypeOK
  <1>2. /\ Len(accepted) = Len(handed) + Len(writing) + Len(pending)
        /\ Len(handed) \in Nat /\ Len(writing) \in Nat /\ Len(pending) \in Nat
        /\ handed \o writing \in Seq(Sample)
    BY Lengths
  <1>3. Len(handed) + i \in 1..Len(handed) + Len(writing)
    BY <1>2
  <1>4. /\ Len(handed \o writing) = Len(handed) + Len(writing)
        /\ (handed \o writing)[Len(handed) + i] = writing[i]
    BY <1>1, <1>2, <1>3, ConcatProperties
  <1>5. /\ Len(handed) + i \in 1..Len(accepted)
        /\ accepted[Len(handed) + i] = (handed \o writing)[Len(handed) + i]
    BY <1>1, <1>2, <1>3, <1>4, ConcatProperties DEF HandOver
  <1>6. QED BY <1>1, <1>4, <1>5, ElementOfSeq

(* ON CONFLICT DO NOTHING and the gate together: whatever is stored, and     *)
(* whatever was sent again, a batch adds no second row for a reading's key.  *)
LEMMA InsertedStored ==
  ASSUME TypeOK, HandOver, Ascending, Stored
  PROVE  /\ \A r \in inserted(writing) : r \notin Seeded => Sound(r)
         /\ \A q, r \in inserted(writing) :
              q.drone = r.drone /\ q.frame.ts = r.frame.ts => q = r
  <1> DEFINE fresh == {j \in 1..Len(writing) :
               \A r \in rows : r.drone = writing[j].drone =>
                               r.frame.ts # writing[j].frame.ts}
  <1>1. \A r \in inserted(writing) : r \in rows \/ \E i \in fresh : r = writing[i]
    BY DEF inserted
  <1>2. \A i \in 1..Len(writing) : Sound(writing[i])
    BY BatchIsAccepted DEF Ascending
  <1>3. \A i, j \in 1..Len(writing) :
          i < j /\ writing[i].drone = writing[j].drone =>
            writing[i].frame.ts < writing[j].frame.ts
    <2>1. SUFFICES ASSUME NEW i \in 1..Len(writing), NEW j \in 1..Len(writing),
                          i < j, writing[i].drone = writing[j].drone
                   PROVE  writing[i].frame.ts < writing[j].frame.ts
      OBVIOUS
    <2>2. Len(handed) \in Nat /\ Len(writing) \in Nat
      BY Lengths
    <2>3. /\ Len(handed) + i \in 1..Len(accepted) /\ writing[i] = accepted[Len(handed) + i]
          /\ Len(handed) + j \in 1..Len(accepted) /\ writing[j] = accepted[Len(handed) + j]
          /\ Len(handed) + i < Len(handed) + j
      BY <2>1, <2>2, BatchIsAccepted
    <2>4. QED BY <2>1, <2>3 DEF Ascending
  <1>4. \A i \in 1..Len(writing) : writing[i].frame.ts \in Nat
    BY BatchIsAccepted, TelemetryAssumption DEF Sample
  <1>5. ASSUME NEW i \in fresh, NEW j \in fresh, writing[i].drone = writing[j].drone,
               writing[i].frame.ts = writing[j].frame.ts
        PROVE  i = j
    <2>1. Len(writing) \in Nat /\ i \in 1..Len(writing) /\ j \in 1..Len(writing)
      BY Lengths
    <2>2. ~(i < j) /\ ~(j < i)
      BY <1>3, <1>4, <1>5, <2>1
    <2>3. QED BY <2>1, <2>2
  <1>6. \A r \in inserted(writing) : r \notin Seeded => Sound(r)
    BY <1>1, <1>2 DEF Stored
  <1>7. ASSUME NEW q \in inserted(writing), NEW r \in inserted(writing),
               q.drone = r.drone, q.frame.ts = r.frame.ts
        PROVE  q = r
    <2>1. CASE q \in rows /\ r \in rows
      BY <1>7, <2>1 DEF Stored
    <2>2. CASE q \in rows /\ \E i \in fresh : r = writing[i]
      BY <1>7, <2>2
    <2>3. CASE r \in rows /\ \E i \in fresh : q = writing[i]
      BY <1>7, <2>3
    <2>4. CASE (\E i \in fresh : q = writing[i]) /\ (\E j \in fresh : r = writing[j])
      BY <1>5, <1>7, <2>4
    <2>5. QED BY <1>1, <2>1, <2>2, <2>3, <2>4
  <1>8. QED BY <1>6, <1>7

-----------------------------------------------------------------------------
(* GPS faults *)

(* A reported loss left a faulty frame as the newest of its drone's window. *)
Remembered ==
  \A d \in Drones :
    emitted.drone = d /\ "GPS_ACCURACY_LOSS" \in emitted.kinds =>
      windows[d] # <<>> /\ hasGpsFault(windows[d][Len(windows[d])])

(* An anomaly of GPS loss is emitted with the faulty frame remembered. *)
LEMMA FrameRemembered ==
  ASSUME TypeOK, NEW d \in Drones, NEW f \in Frames, observe(d, f)
  PROVE  Remembered'
  <1>1. /\ emitted' = [drone |-> d, kinds |-> detectAnomalies(f, windows[d])]
        /\ windows' = [windows EXCEPT ![d] = remember(d, f)]
    BY DEF observe
  <1>2. /\ emitted'.drone = d /\ emitted'.kinds = detectAnomalies(f, windows[d])
        /\ windows'[d] = remember(d, f)
    BY <1>1 DEF TypeOK
  <1>3. "GPS_ACCURACY_LOSS" \in detectAnomalies(f, windows[d]) => hasGpsFault(f)
    BY DEF detectAnomalies
  <1>4. QED BY <1>2, <1>3, RememberType DEF Remembered

-----------------------------------------------------------------------------
(* The inductive invariant *)

IInv == TypeOK /\ HandOver /\ Ascending /\ Stored /\ Remembered

(* The service that has not started satisfies the invariant. *)
LEMMA InitIInv == Init => IInv
  <1> SUFFICES ASSUME Init PROVE IInv
    OBVIOUS
  <1>1. TypeOK /\ HandOver
    BY InitType, StartHandsOver
  <1>2. Ascending
    BY DEF Init, Ascending
  <1>3. Stored
    BY TelemetryAssumption DEF Init, Stored
  <1>4. Remembered
    BY DEF Init, Remembered, NoAnomaly
  <1>5. QED BY <1>1, <1>2, <1>3, <1>4 DEF IInv

(* Every step of the process, of the sockets and of the database keeps it.  *)
LEMMA NextIInv == IInv /\ [Next]_vars => IInv'
  <1> SUFFICES ASSUME IInv, [Next]_vars PROVE IInv'
    OBVIOUS
  <1> USE DEF IInv
  <1>1. CASE Drain
    <2>1. TypeOK'
      BY <1>1, DrainType DEF HandOver
    <2>2. HandOver'
      BY <1>1, DrainHandsOver
    <2>3. UNCHANGED <<accepted, gate, windows, emitted>>
      BY <1>1 DEF Drain, DrainEmpty, DrainStart, InsertOk, InsertFail
    <2>4. rows' = rows \/ rows' = inserted(writing)
      BY <1>1 DEF Drain, DrainEmpty, DrainStart, InsertOk, InsertFail
    <2>5. Stored'
      BY <2>4, InsertedStored DEF Stored
    <2>6. Ascending' /\ Remembered'
      BY <2>3 DEF Ascending, Remembered
    <2>7. QED BY <2>1, <2>2, <2>5, <2>6
  <1>2. CASE \E c \in Conns, f \in Parsed : HandleFrame(c, f)
    <2>1. PICK c \in Conns, f \in Parsed : HandleFrame(c, f)
      BY <1>2
    <2>2. TypeOK' /\ HandOver' /\ Ascending'
      BY <2>1, FrameType, FrameHandsOver, FrameAscends
    <2>3. Remembered'
      BY <2>1, FrameCases, FrameRemembered
    <2>4. Stored'
      BY <2>1 DEF HandleFrame, Stored
    <2>5. QED BY <2>2, <2>3, <2>4
  <1>3. CASE \/ \E c \in Conns : \/ \E d \in Drones : Connect(c, d)
                                 \/ Disconnect(c) \/ MalformedFrame(c)
             \/ Shutdown \/ Closed \/ Crash
    <2>1. TypeOK'
      BY <1>3, ProcessType
    <2>2. HandOver'
      BY <1>3, ProcessHandsOver
    <2>3. UNCHANGED <<accepted, gate, windows, emitted>>
      BY <1>3 DEF Connect, Disconnect, MalformedFrame, Shutdown, Closed, Crash, Exit, memory
    <2>4. rows' = rows \/ rows' = inserted(writing)
      BY <1>3 DEF Connect, Disconnect, MalformedFrame, Shutdown, Closed, Crash, Exit
    <2>5. Stored'
      BY <2>4, InsertedStored DEF Stored
    <2>6. Ascending' /\ Remembered'
      BY <2>3 DEF Ascending, Remembered
    <2>7. QED BY <2>1, <2>2, <2>5, <2>6
  <1>4. CASE Start
    <2>1. TypeOK' /\ HandOver'
      BY <1>4, StartType, StartHandsOver
    <2>2. Ascending'
      BY <1>4 DEF Start, Ascending
    <2>3. Stored'
      BY <1>4 DEF Start, Stored
    <2>4. Remembered'
      BY <1>4 DEF Start, Remembered, NoAnomaly
    <2>5. QED BY <2>1, <2>2, <2>3, <2>4
  <1>5. CASE UNCHANGED vars
    BY ZenonT(60), <1>5 DEF vars, TypeOK, HandOver, FramesAccountedFor, Ascending, Stored, Remembered
  <1>6. QED BY <1>1, <1>2, <1>3, <1>4, <1>5 DEF Next, Input

(* IInv holds in every state. *)
LEMMA Inductive == Spec => []IInv
  BY InitIInv, NextIInv, PTL DEF Spec

-----------------------------------------------------------------------------
(* Theorems *)

(***************************************************************************)
(* Every accepted sample is handed to the store once and in order, however *)
(* many arrive while an insert is in flight or fails, and by the time the  *)
(* servers are closed all those accepted before stop() were handed over.   *)
(***************************************************************************)
THEOREM DeliveredOnce == Spec => []HandedOverOnce
  <1>1. IInv => HandedOverOnce
    BY Lengths DEF IInv, HandOver, HandedOverOnce, TypeOK
  <1>2. QED BY <1>1, Inductive, PTL

(* No parsed frame goes uncounted: the metrics add up after every step of    *)
(* every interleaving of frames, inserts, failures, crashes and restarts.    *)
THEOREM CountersAddUp == Spec => []FramesAccountedFor
  <1>1. IInv => FramesAccountedFor
    BY DEF IInv, HandOver
  <1>2. QED BY <1>1, Inductive, PTL

(***************************************************************************)
(* The hypertable never holds two rows of a drone and timestamp, nor a     *)
(* reading nobody sent or out of bounds, whatever was applied of an insert *)
(* that failed or was in flight when the process ended; and one process    *)
(* accepts the samples of a drone in order of time.                        *)
(***************************************************************************)
THEOREM StoredSoundly == Spec => []RowsWellFormed
  <1>1. IInv => RowsWellFormed
    <2>1. SUFFICES ASSUME IInv PROVE RowsWellFormed
      OBVIOUS
    <2> USE DEF IInv
    <2>2. \A f \in Undamaged : isWithinBounds(f) =>
            f.remainingPct \in 0..100 /\ f.rcSignalStrength \in 0..100
      BY TelemetryAssumption DEF Undamaged, isWithinBounds, isPercentInRange
    <2>3. \A r \in rows : r \notin Seeded =>
            /\ r.frame.remainingPct \in 0..100 /\ r.frame.rcSignalStrength \in 0..100
            /\ r.frame \in Undamaged
      BY <2>1, <2>2 DEF Stored, Sound
    <2>4. \A r, q \in rows : q.drone = r.drone /\ q.frame.ts = r.frame.ts => q = r
      BY <2>1 DEF Stored
    <2>5. \A i, j \in 1..Len(accepted) :
            i < j /\ accepted[i].drone = accepted[j].drone =>
              accepted[i].frame.ts < accepted[j].frame.ts
              /\ accepted[j].frame.ts <= gate[accepted[j].drone]
      BY <2>1 DEF Ascending
    <2>6. QED BY <2>1, <2>3, <2>4, <2>5 DEF RowsWellFormed
  <1>2. QED BY <1>1, Inductive, PTL

(* A GPS fault that persists over two frames of a drone in a row, through    *)
(* whatever connections and whatever the window's bound, is reported once.   *)
THEOREM GpsLossOnce == Spec => GpsLossReportedOnce
  <1> DEFINE Once == /\ metrics'.framesParsed > metrics.framesParsed
                     /\ emitted'.drone = emitted.drone
                     /\ "GPS_ACCURACY_LOSS" \in emitted.kinds
                     => "GPS_ACCURACY_LOSS" \notin emitted'.kinds
  <1>1. IInv /\ [Next]_vars => [Once]_vars
    <2>1. SUFFICES ASSUME IInv, Next, metrics'.framesParsed > metrics.framesParsed,
                          emitted'.drone = emitted.drone,
                          "GPS_ACCURACY_LOSS" \in emitted.kinds
                   PROVE  "GPS_ACCURACY_LOSS" \notin emitted'.kinds
      OBVIOUS
    <2> USE DEF IInv
    <2>2. metrics.framesParsed \in Nat
      BY <2>1, Counted
    <2>3. \E c \in Conns, f \in Parsed : HandleFrame(c, f)
      <3>1. metrics \in [Counters -> Nat] /\ "framesParsed" \in Counters
        BY <2>1, Counted
      <3>2. CASE Drain
        BY <2>1, <2>2, <3>1, <3>2
           DEF Drain, DrainEmpty, DrainStart, InsertOk, InsertFail, inc
      <3>3. CASE \E c \in Conns : \/ \E d \in Drones : Connect(c, d)
                                  \/ Disconnect(c) \/ MalformedFrame(c)
        BY <2>1, <2>2, <3>1, <3>3 DEF Connect, Disconnect, MalformedFrame, inc
      <3>4. CASE Shutdown \/ Closed \/ Crash
        BY <2>1, <2>2, <3>4 DEF Shutdown, Closed, Crash, Exit, memory
      <3>5. CASE Start
        <4>1. metrics'.framesParsed = 0
          BY <3>1, <3>5 DEF Start
        <4>2. QED BY <2>1, <2>2, <4>1
      <3>6. QED BY <2>1, <3>2, <3>3, <3>4, <3>5 DEF Next, Input
    <2>4. PICK c \in Conns, f \in Parsed : HandleFrame(c, f)
      BY <2>3
    <2>5. PICK d \in Drones : d = conn[c]
      BY <2>1, <2>4, FrameCases
    <2>6. emitted' = [drone |-> d, kinds |-> detectAnomalies(f, windows[d])]
      BY <2>4, <2>5 DEF HandleFrame, observe
    <2>7. windows[d] # <<>> /\ hasGpsFault(windows[d][Len(windows[d])])
      BY <2>1, <2>6 DEF Remembered
    <2>8. "GPS_ACCURACY_LOSS" \notin detectAnomalies(f, windows[d])
      BY <2>7 DEF detectAnomalies
    <2>9. QED BY <2>6, <2>8
  <1>2. QED BY <1>1, Inductive, PTL DEF Spec, GpsLossReportedOnce

-----------------------------------------------------------------------------
(* The history of a drone.  A sort is given by the place of each member in  *)
(* a finite set that a strict order arranges.                               *)

(* The members of S up to d. *)
UpTo(S, before, d) == {e \in S : e = d \/ <<e, d>> \in before}

StrictOrder(S, before) ==
  /\ \A a \in S : <<a, a>> \notin before
  /\ \A a, b \in S : a = b \/ <<a, b>> \in before \/ <<b, a>> \in before
  /\ \A a, b, c \in S : <<a, b>> \in before /\ <<b, c>> \in before => <<a, c>> \in before

(* Each member of S has a place of its own, earlier ones the smaller places,*)
(* and every place is taken.                                                *)
LEMMA PlacesInOrder ==
  ASSUME NEW S, IsFiniteSet(S), NEW before, StrictOrder(S, before)
  PROVE  /\ Cardinality(S) \in Nat
         /\ \A d \in S : Cardinality(UpTo(S, before, d)) \in 1..Cardinality(S)
         /\ \A d, e \in S : <<d, e>> \in before =>
              Cardinality(UpTo(S, before, d)) < Cardinality(UpTo(S, before, e))
         /\ \A k \in 1..Cardinality(S) : \E d \in S : Cardinality(UpTo(S, before, d)) = k
  <1> DEFINE place(d) == Cardinality(UpTo(S, before, d))
             n == Cardinality(S)
  <1>1. n \in Nat
    BY FS_CardinalityType
  <1>2. ASSUME NEW d \in S
        PROVE  IsFiniteSet(UpTo(S, before, d)) /\ place(d) \in 1..n
    <2> DEFINE T == UpTo(S, before, d)
    <2>1. T \in SUBSET S /\ d \in T
      BY DEF UpTo
    <2> HIDE DEF T
    <2>2. IsFiniteSet(T) /\ Cardinality(T) <= n
      BY <2>1, FS_Subset
    <2>3. Cardinality(T) \in Nat /\ Cardinality(T) # 0
      BY <2>1, <2>2, FS_CardinalityType, FS_EmptySet
    <2>4. Cardinality(T) \in 1..n
      BY <1>1, <2>2, <2>3
    <2>5. QED BY <2>2, <2>4 DEF T
  <1>3. ASSUME NEW d \in S, NEW e \in S, <<d, e>> \in before PROVE place(d) < place(e)
    <2> DEFINE T == UpTo(S, before, d)
               U == UpTo(S, before, e)
    <2>1. \A x \in T : x \in U
      BY <1>3 DEF UpTo, StrictOrder
    <2>2. e \in U /\ e \notin T
      BY <1>3 DEF UpTo, StrictOrder
    <2>3. IsFiniteSet(U) /\ IsFiniteSet(T) /\ Cardinality(T) \in Nat /\ Cardinality(U) \in Nat
      BY <1>2, FS_CardinalityType
    <2> HIDE DEF T, U
    <2>4. Cardinality(T) <= Cardinality(U) /\ Cardinality(T) # Cardinality(U)
      BY <2>1, <2>2, <2>3, FS_Subset
    <2>5. Cardinality(T) < Cardinality(U)
      BY <2>3, <2>4
    <2>6. QED BY <2>5 DEF T, U
  <1>4. ASSUME NEW k \in 1..n PROVE \E d \in S : place(d) = k
    <2> DEFINE f == [d \in S |-> place(d)]
               K == 1..n
    <2> HIDE DEF n
    <2>1. f \in [S -> K]
      BY <1>2
    <2>2. ASSUME NEW d \in S, NEW e \in S, f[d] = f[e] PROVE d = e
      <3>1. place(d) = place(e) /\ place(d) \in Int /\ place(e) \in Int
        BY <1>2, <2>2
      <3>2. d = e \/ <<d, e>> \in before \/ <<e, d>> \in before
        BY DEF StrictOrder
      <3>3. QED BY <1>3, <3>1, <3>2
    <2>3. f \in Injection(S, K)
      BY <2>1, <2>2 DEF Injection, IsInjective
    <2>4. IsFiniteSet(K) /\ Cardinality(K) = n
      BY <1>1, FS_Interval
    <2>5. f \in Surjection(S, K)
      <3>1. Cardinality(K) = Cardinality(S)
        BY <2>4 DEF n
      <3> HIDE DEF f, K
      <3>2. QED BY <2>3, <2>4, <3>1, FS_Injection
    <2>6. \E d \in S : f[d] = k
      BY <2>5 DEF Surjection
    <2>7. QED BY <2>6
  <1>5. QED BY <1>1, <1>2, <1>3, <1>4

(* A sort lists the members of the set, each once, in their order. *)
LEMMA Sorted ==
  ASSUME NEW S, IsFiniteSet(S), NEW before, StrictOrder(S, before)
  PROVE  /\ inOrder(S, before) \in Seq(S) /\ Cardinality(S) \in Nat
         /\ Len(inOrder(S, before)) = Cardinality(S)
         /\ \A d \in S : \E k \in 1..Cardinality(S) : inOrder(S, before)[k] = d
         /\ \A j, k \in 1..Cardinality(S) : j < k =>
              <<inOrder(S, before)[j], inOrder(S, before)[k]>> \in before
  <1> DEFINE place(d) == Cardinality(UpTo(S, before, d))
             n == Cardinality(S)
             s == inOrder(S, before)
             at(k) == CHOOSE d \in S : place(d) = k
  <1>1. /\ n \in Nat /\ \A d \in S : place(d) \in 1..n
        /\ \A d, e \in S : <<d, e>> \in before => place(d) < place(e)
        /\ \A k \in 1..n : \E d \in S : place(d) = k
    BY PlacesInOrder
  <1>2. s = [k \in 1..n |-> at(k)]
    BY DEF inOrder, UpTo
  <1>3. \A k \in 1..n : at(k) \in S /\ place(at(k)) = k
    BY <1>1
  <1> HIDE DEF at, place, n, s
  <1>4. s \in Seq(S) /\ Len(s) = n /\ \A k \in 1..n : s[k] \in S /\ place(s[k]) = k
    BY <1>1, <1>2, <1>3
  <1>5. ASSUME NEW j \in 1..n, NEW k \in 1..n, j < k PROVE <<s[j], s[k]>> \in before
    <2>1. s[j] = s[k] \/ <<s[j], s[k]>> \in before \/ <<s[k], s[j]>> \in before
      BY <1>4 DEF StrictOrder
    <2>2. ~(<<s[k], s[j]>> \in before) /\ s[j] # s[k]
      BY <1>1, <1>4, <1>5
    <2>3. QED BY <2>1, <2>2
  <1>6. ASSUME NEW d \in S PROVE s[place(d)] = d /\ place(d) \in 1..n
    <2>1. place(d) \in 1..n
      BY <1>1
    <2>2. s[place(d)] \in S /\ place(s[place(d)]) = place(d)
      BY <1>4, <2>1
    <2>3. d = s[place(d)] \/ <<d, s[place(d)]>> \in before \/ <<s[place(d)], d>> \in before
      BY <2>2 DEF StrictOrder
    <2>4. QED BY <1>1, <2>1, <2>2, <2>3
  <1>7. QED BY <1>1, <1>4, <1>5, <1>6 DEF n, s

(* Every nonempty set of naturals has a least member. *)
LEMMA LeastMember ==
  ASSUME NEW T, T \subseteq Nat, T # {}
  PROVE  \E n \in T : \A m \in T : n <= m
  <1>1. PICK n \in T : \A m \in T : ~(<<m, n>> \in OpToRel(<, Nat))
    BY WFMin, NatLessThanWellFounded, Zenon
  <1>2. \A m \in T : ~(m < n)
    <2> SUFFICES ASSUME NEW m \in T PROVE ~(m < n)
      OBVIOUS
    <2>1. <<m, n>> \in Nat \X Nat /\ <<m, n>>[1] = m /\ <<m, n>>[2] = n
      OBVIOUS
    <2>2. QED BY <1>1, <2>1, Zenon DEF OpToRel
  <1>3. QED BY <1>2

(* The members of a set of numbers in ascending order. *)
Ascent(S) == inOrder(S, {p \in S \X S : p[1] < p[2]})

(* They ascend, and each is there. *)
LEMMA AscentSorted ==
  ASSUME NEW S, IsFiniteSet(S), \A x \in S : x \in Int
  PROVE  /\ Ascent(S) \in Seq(S) /\ Cardinality(S) \in Nat /\ Len(Ascent(S)) = Cardinality(S)
         /\ \A d \in S : \E k \in 1..Cardinality(S) : Ascent(S)[k] = d
         /\ \A j, k \in 1..Cardinality(S) : j < k => Ascent(S)[j] < Ascent(S)[k]
  <1> DEFINE before == {p \in S \X S : p[1] < p[2]}
             n == Cardinality(S)
             s == inOrder(S, before)
  <1>1. \A a, b \in S : <<a, b>> \in before <=> a < b
    OBVIOUS
  <1>2. Ascent(S) = s
    BY DEF Ascent
  <1> HIDE DEF before
  <1>3. StrictOrder(S, before)
    BY <1>1 DEF StrictOrder
  <1>4. /\ s \in Seq(S) /\ n \in Nat /\ Len(s) = n
        /\ \A d \in S : \E k \in 1..n : s[k] = d
        /\ \A j, k \in 1..n : j < k => <<s[j], s[k]>> \in before
    BY <1>3, Sorted
  <1> HIDE DEF s, n
  <1>5. \A k \in 1..n : s[k] \in S
    BY <1>4
  <1>6. \A j, k \in 1..n : j < k => s[j] < s[k]
    BY <1>1, <1>4, <1>5
  <1>7. QED BY <1>2, <1>4, <1>6 DEF s, n

(* A finite set of numbers has a least member and a greatest. *)
LEMMA Extremes ==
  ASSUME NEW S, IsFiniteSet(S), S # {}, \A x \in S : x \in Int
  PROVE  /\ Min(S) \in S /\ \A w \in S : Min(S) <= w
         /\ Max(S) \in S /\ \A w \in S : w <= Max(S)
  <1> DEFINE s == Ascent(S)
             n == Cardinality(S)
             Low(v) == \A w \in S : v <= w
             High(v) == \A w \in S : v >= w
  <1>3. /\ s \in Seq(S) /\ n \in Nat /\ Len(s) = n
        /\ \A d \in S : \E k \in 1..n : s[k] = d
        /\ \A j, k \in 1..n : j < k => s[j] < s[k]
    BY AscentSorted
  <1>4. n # 0
    BY FS_EmptySet
  <1> HIDE DEF s, n
  <1>5. \A k \in 1..n : s[k] \in S /\ s[k] \in Int
    BY <1>3
  <1>6. n \in Nat /\ 1 \in 1..n /\ n \in 1..n
    BY <1>3, <1>4
  <1>7. ASSUME NEW k \in 1..n PROVE s[1] <= s[k] /\ s[n] >= s[k]
    <2>1. s[1] \in Int /\ s[k] \in Int /\ s[n] \in Int
      BY <1>5, <1>6
    <2>2. k = 1 \/ 1 < k
      BY <1>6
    <2>3. k = n \/ k < n
      BY <1>6
    <2>4. s[1] <= s[k]
      BY <1>3, <1>6, <2>1, <2>2
    <2>5. s[n] >= s[k]
      BY <1>3, <1>6, <2>1, <2>3
    <2>6. QED BY <2>4, <2>5
  <1>8. s[1] \in S /\ s[n] \in S
    BY <1>5, <1>6
  <1>9. Low(s[1])
    BY <1>3, <1>7
  <1>10. High(s[n])
    BY <1>3, <1>7
  <1>11. Min(S) \in S /\ Low(Min(S))
    <2>1. Min(S) = CHOOSE v \in S : Low(v)
      BY DEF Min
    <2> HIDE DEF Low
    <2>2. QED BY <1>8, <1>9, <2>1
  <1>12. Max(S) \in S /\ High(Max(S))
    <2>1. Max(S) = CHOOSE v \in S : High(v)
      BY DEF Max
    <2> HIDE DEF High
    <2>2. QED BY <1>8, <1>10, <2>1
  <1>13. QED BY <1>11, <1>12

(* The smaller and the larger of two numbers. *)
LEMMA OfTwo ==
  ASSUME NEW a \in Int, NEW b \in Int
  PROVE  /\ Min({a, b}) \in Int /\ Min({a, b}) <= a /\ Min({a, b}) <= b
         /\ Max({a, b}) \in Int /\ Max({a, b}) >= a /\ Max({a, b}) >= b
         /\ Min({a, b}) \in {a, b} /\ Max({a, b}) \in {a, b}
  <1>1. IsFiniteSet({a, b}) /\ {a, b} # {} /\ \A x \in {a, b} : x \in Int
    <2>1. {a, b} = {a} \cup {b}
      OBVIOUS
    <2>2. IsFiniteSet({a}) /\ IsFiniteSet({b})
      BY FS_Singleton
    <2>3. QED BY <2>1, <2>2, FS_Union
  <1> DEFINE S == {a, b}
  <1>2. a \in S /\ b \in S /\ \A x \in S : x \in Int
    OBVIOUS
  <1> HIDE DEF S
  <1>3. /\ Min(S) \in S /\ \A w \in S : Min(S) <= w
        /\ Max(S) \in S /\ \A w \in S : w <= Max(S)
    BY <1>1, Extremes DEF S
  <1>4. /\ Min(S) \in Int /\ Min(S) <= a /\ Min(S) <= b
        /\ Max(S) \in Int /\ Max(S) >= a /\ Max(S) >= b
    BY <1>2, <1>3
  <1>5. QED BY <1>3, <1>4 DEF S

(* What a function makes of a finite set is finite. *)
LEMMA FiniteImage ==
  ASSUME NEW S, IsFiniteSet(S), NEW f, DOMAIN f = S
  PROVE  IsFiniteSet({f[x] : x \in S})
  <1> DEFINE T == {f[x] : x \in S}
             g == [x \in S |-> f[x]]
  <1>1. g \in [S -> T] /\ \A t \in T : \E x \in S : g[x] = t
    OBVIOUS
  <1>2. g \in Surjection(S, T)
    BY <1>1 DEF Surjection
  <1> HIDE DEF g, T
  <1>3. IsFiniteSet(T)
    BY <1>2, FS_Surjection
  <1>4. QED BY <1>3 DEF T

-----------------------------------------------------------------------------
(* Widths and places of buckets. *)

(* A quotient is the number of whole steps. *)
LEMMA Quotient ==
  ASSUME NEW a \in Nat, NEW w \in Nat \ {0}
  PROVE  /\ a \div w \in Nat /\ (a \div w) * w \in Nat
         /\ (a \div w) * w <= a /\ a < (a \div w) * w + w
  <1> DEFINE p == a \div w
  <1>1. p \in Nat /\ w * p <= a /\ a < w * p + w
    OBVIOUS
  <1> HIDE DEF p
  <1>2. w * p = p * w /\ p * w \in Nat
    BY <1>1
  <1>3. QED BY <1>1, <1>2 DEF p

(* A product grows with each of its factors. *)
LEMMA Grows ==
  ASSUME NEW a \in Nat, NEW b \in Nat, NEW w \in Nat, a <= b
  PROVE  a * w \in Nat /\ b * w \in Nat /\ a * w <= b * w
  OBVIOUS

(* A request that is answered. *)
Sensible(q) ==
  /\ q.from \in Int /\ q.to \in Int /\ q.from <= q.to
  /\ q.buckets \in Nat \cup {Blank} /\ (q.buckets # Blank => q.buckets >= 1)

Width(q) == bucketSeconds(q) * Second

(* The buckets asked for, of the width chosen, cover the range. *)
LEMMA WidthCovers ==
  ASSUME NEW q, Sensible(q)
  PROVE  /\ resolveBuckets(q.buckets) \in Nat \ {0} /\ Width(q) \in Nat \ {0}
         /\ resolveBuckets(q.buckets) * Width(q) \in Nat
         /\ q.to - q.from <= resolveBuckets(q.buckets) * Width(q)
  <1> DEFINE k == resolveBuckets(q.buckets)
             d == q.to - q.from
             n == Second * k
             c == ceilDiv(d, n)
             b == bucketSeconds(q)
  <1>1. k \in Nat \ {0}
    <2>1. CASE q.buckets = Blank
      BY <2>1, HistoryAssumption DEF resolveBuckets
    <2>2. CASE q.buckets # Blank
      <3>1. /\ q.buckets \in Int /\ q.buckets \in Nat \ {0}
            /\ MAX_BUCKETS \in Int /\ MAX_BUCKETS \in Nat \ {0}
        BY <2>2, HistoryAssumption DEF Sensible
      <3>2. Min({q.buckets, MAX_BUCKETS}) \in {q.buckets, MAX_BUCKETS}
        BY <3>1, OfTwo
      <3>3. k = Min({q.buckets, MAX_BUCKETS})
        BY <2>2 DEF resolveBuckets
      <3>4. QED BY <3>1, <3>2, <3>3
    <2>3. QED BY <2>1, <2>2
  <1>2. Second \in Nat \ {0} /\ d \in Nat
    BY HistoryAssumption DEF Sensible
  <1>3. b = Max({1, c})
    BY DEF bucketSeconds
  <1>4. c = (d + n - 1) \div n
    BY DEF ceilDiv
  <1>5. Width(q) = b * Second
    BY DEF Width
  <1> HIDE DEF k, d, b, c
  <1>6. n \in Nat \ {0} /\ d + n - 1 \in Nat
    <2>1. n \in Nat \ {0}
      BY <1>1, <1>2
    <2> HIDE DEF n
    <2>2. QED BY <1>2, <2>1
  <1>7. c \in Nat /\ d <= c * n /\ c * n \in Nat
    <2> HIDE DEF n
    <2>1. /\ c \in Nat /\ c * n \in Nat /\ d + n - 1 < c * n + n
      BY <1>4, <1>6, Quotient
    <2>2. QED BY <1>2, <1>6, <2>1
  <1>8. b \in Nat \ {0} /\ c <= b
    <2>0. 1 \in Int /\ c \in Int
      BY <1>7
    <2>1. Max({1, c}) \in Int /\ Max({1, c}) >= 1 /\ Max({1, c}) >= c
      BY <2>0, OfTwo
    <2>2. QED BY <1>3, <1>7, <2>1
  <1>9. b * Second \in Nat \ {0}
    BY <1>2, <1>8
  <1>10. c * n <= b * n /\ b * n \in Nat
    <2> HIDE DEF n
    <2>1. QED BY <1>6, <1>7, <1>8, Grows
  <1>11. b * n = k * (b * Second)
    <2>1. k \in Int /\ b \in Int /\ Second \in Int
      BY <1>1, <1>2, <1>8
    <2>2. QED BY <2>1
  <1>12. k * (b * Second) \in Nat /\ d <= k * (b * Second)
    <2> HIDE DEF n
    <2>1. QED BY <1>2, <1>7, <1>10, <1>11
  <1>13. QED BY <1>1, <1>5, <1>9, <1>12 DEF k, d

(* The row of a sample begins no later than the sample, and less than a     *)
(* granule before it.                                                       *)
LEMMA Granules ==
  ASSUME NEW q, NEW ts \in Nat
  PROVE  /\ granule(q) \in Nat /\ rowTime(q, ts) \in Int
         /\ rowTime(q, ts) <= ts /\ ts <= rowTime(q, ts) + granule(q)
         /\ \A a \in Int : a + granule(q) <= ts => a <= rowTime(q, ts)
  <1>1. granule(q) \in Nat
    <2>1. source(q) \in {"1h", "1m", "raw"}
      BY DEF source
    <2>2. ONE_HOUR_SECONDS * Second \in Nat /\ ONE_MINUTE_SECONDS * Second \in Nat
      BY HistoryAssumption
    <2>3. QED BY <2>1, <2>2 DEF granule
  <1> DEFINE g == granule(q)
  <1> HIDE DEF g
  <1>2. CASE g = 0
    <2>1. rowTime(q, ts) = ts
      BY <1>2 DEF rowTime, g
    <2>2. QED BY <1>1, <1>2, <2>1 DEF g
  <1>3. CASE g # 0
    <2>1. g \in Nat \ {0}
      BY <1>1, <1>3 DEF g
    <2>2. ts % g \in 0..g - 1
      BY <2>1
    <2>3. rowTime(q, ts) = ts - (ts % g)
      BY <1>3 DEF rowTime, g
    <2> DEFINE r == ts % g
    <2> HIDE DEF r
    <2>4. r \in Int /\ 0 <= r /\ r <= g - 1 /\ rowTime(q, ts) = ts - r
      BY <2>1, <2>2, <2>3 DEF r
    <2>5. QED BY <2>1, <2>4 DEF g
  <1>4. QED BY <1>2, <1>3

-----------------------------------------------------------------------------
(* The series.  What queryHistory and Conserves name within themselves.     *)

(* Rows of the hypertable: finitely many, with a time and an altitude. *)
Stores(samples) ==
  /\ IsFiniteSet(samples)
  /\ \A s \in samples : s.frame.ts \in Nat /\ s.frame.altitude \in Int

Selected(samples, q) == {s \in samples : /\ s.drone = q.droneId
                                         /\ rowTime(q, s.frame.ts) \in q.from..q.to}

Members(samples, q, b) == {s \in Selected(samples, q) : bucketOf(q, s.frame.ts) = b}

Altitudes(samples, q, b) == {s.frame.altitude : s \in Members(samples, q, b)}

Begins(samples, q) == {bucketOf(q, s.frame.ts) : s \in Selected(samples, q)}

Buckets(samples, q) == Ascent(Begins(samples, q))

Limit(samples, q) == Min({Len(Buckets(samples, q)), resolveBuckets(q.buckets)})

(* The answer, in these terms. *)
LEMMA SeriesIs ==
  ASSUME NEW samples, NEW q
  PROVE  queryHistory(samples, q) =
           [i \in 1..Limit(samples, q) |->
              [ts |-> Buckets(samples, q)[i],
               sampleCount |-> Cardinality(Members(samples, q, Buckets(samples, q)[i])),
               minAltitude |-> Min(Altitudes(samples, q, Buckets(samples, q)[i])),
               maxAltitude |-> Max(Altitudes(samples, q, Buckets(samples, q)[i]))]]
  BY Zenon DEF queryHistory, Selected, Members, Altitudes, Begins, Buckets, Limit, Ascent

(* The number of the bucket a sample falls into, from 0. *)
Step(q, ts) == (rowTime(q, ts) - q.from) \div Width(q)

(* A selected sample's bucket lies in the range, a whole number of widths   *)
(* from its start; and fewer than asked for if its row begins before the    *)
(* end.                                                                     *)
LEMMA BucketPlace ==
  ASSUME NEW q, Sensible(q), NEW ts \in Nat, rowTime(q, ts) \in q.from..q.to
  PROVE  /\ Step(q, ts) \in Nat /\ Step(q, ts) * Width(q) \in Nat
         /\ bucketOf(q, ts) = q.from + Step(q, ts) * Width(q)
         /\ bucketOf(q, ts) \in Int /\ q.from <= bucketOf(q, ts) /\ bucketOf(q, ts) <= q.to
         /\ rowTime(q, ts) < q.to => Step(q, ts) < resolveBuckets(q.buckets)
  <1> DEFINE w == Width(q)
             r == rowTime(q, ts)
             k == Step(q, ts)
             n == resolveBuckets(q.buckets)
             b == bucketOf(q, ts)
  <1>1. n \in Nat \ {0} /\ w \in Nat \ {0} /\ n * w \in Nat /\ q.to - q.from <= n * w
    BY WidthCovers
  <1>2. q.from \in Int /\ q.to \in Int /\ r \in Int /\ q.from <= r /\ r <= q.to
    BY Granules DEF Sensible
  <1>3. b = q.from + k * w
    BY DEF bucketOf, Step, Width
  <1>4. k = (r - q.from) \div w
    BY DEF Step
  <1> HIDE DEF w, r, k, n, b
  <1>5. r - q.from \in Nat
    BY <1>2
  <1>6. k \in Nat /\ k * w \in Nat /\ k * w <= r - q.from
    BY <1>1, <1>4, <1>5, Quotient
  <1>7. b \in Int /\ q.from <= b /\ b <= q.to
    BY <1>2, <1>3, <1>6
  <1>8. ASSUME r < q.to PROVE k < n
    <2>1. SUFFICES ASSUME n <= k PROVE FALSE
      BY <1>1, <1>6
    <2>2. n * w <= k * w
      BY <1>1, <1>6, <2>1, Grows
    <2>3. QED BY <1>1, <1>2, <1>6, <1>8, <2>2
  <1>9. QED BY <1>3, <1>6, <1>7, <1>8 DEF w, r, k, n, b

(* There are finitely many buckets, and each is that of a selected sample.  *)
LEMMA BucketList ==
  ASSUME NEW samples, NEW q, Stores(samples), Sensible(q)
  PROVE  /\ IsFiniteSet(Selected(samples, q))
         /\ Len(Buckets(samples, q)) \in Nat
         /\ \A i \in 1..Len(Buckets(samples, q)) :
              \E s \in Selected(samples, q) : Buckets(samples, q)[i] = bucketOf(q, s.frame.ts)
         /\ \A s \in Selected(samples, q) :
              \E i \in 1..Len(Buckets(samples, q)) : Buckets(samples, q)[i] = bucketOf(q, s.frame.ts)
         /\ \A i, j \in 1..Len(Buckets(samples, q)) : i < j =>
              Buckets(samples, q)[i] < Buckets(samples, q)[j]
  <1> DEFINE S == Selected(samples, q)
             B == Begins(samples, q)
             l == Buckets(samples, q)
  <1>1. IsFiniteSet(S)
    <2>1. S \in SUBSET samples
      BY DEF Selected
    <2> HIDE DEF S
    <2>2. QED BY <2>1, FS_Subset DEF Stores
  <1>2. IsFiniteSet(B)
    <2> DEFINE f == [s \in S |-> bucketOf(q, s.frame.ts)]
    <2>1. B = {f[s] : s \in S}
      BY DEF Begins
    <2>2. DOMAIN f = S
      OBVIOUS
    <2> HIDE DEF f, S
    <2>3. QED BY <1>1, <2>1, <2>2, FiniteImage
  <1>3. \A b \in B : b \in Int
    <2>1. \A s \in S : bucketOf(q, s.frame.ts) \in Int
      BY BucketPlace DEF Selected, Stores
    <2>2. QED BY <2>1 DEF Begins
  <1>4. l = Ascent(B)
    BY DEF Buckets
  <1>5. \A b \in B : \E s \in S : b = bucketOf(q, s.frame.ts)
    BY DEF Begins
  <1>6. \A s \in S : bucketOf(q, s.frame.ts) \in B
    BY DEF Begins
  <1> HIDE DEF S, B, l
  <1>7. /\ l \in Seq(B) /\ Len(l) \in Nat
        /\ \A b \in B : \E k \in 1..Len(l) : l[k] = b
        /\ \A j, k \in 1..Len(l) : j < k => l[j] < l[k]
    BY <1>2, <1>3, <1>4, AscentSorted, Zenon
  <1>8. \A i \in 1..Len(l) : l[i] \in B
    BY <1>7
  <1>9. \A i \in 1..Len(l) : \E s \in S : l[i] = bucketOf(q, s.frame.ts)
    BY <1>5, <1>8
  <1>10. \A s \in S : \E i \in 1..Len(l) : l[i] = bucketOf(q, s.frame.ts)
    BY <1>6, <1>7
  <1>11. QED BY <1>1, <1>7, <1>9, <1>10 DEF S, l

(* The bucket in place i is number i - 1 or a later one: a least            *)
(* counterexample would follow one that is not.                             *)
LEMMA PlaceBounded ==
  ASSUME NEW samples, NEW q, Stores(samples), Sensible(q),
         NEW i \in 1..Len(Buckets(samples, q)), NEW k \in Nat,
         Buckets(samples, q)[i] = q.from + k * Width(q)
  PROVE  i <= k + 1
  <1> DEFINE l == Buckets(samples, q)
             w == Width(q)
             T == {m \in 1..Len(l) : \E j \in Nat : l[m] = q.from + j * w /\ ~(m <= j + 1)}
  <1>1. Len(l) \in Nat /\ w \in Nat \ {0} /\ q.from \in Int
    BY BucketList, WidthCovers DEF Sensible
  <1>2. \A m \in 1..Len(l) : \E j \in Nat : l[m] = q.from + j * w
    <2> SUFFICES ASSUME NEW m \in 1..Len(l) PROVE \E j \in Nat : l[m] = q.from + j * w
      OBVIOUS
    <2>1. PICK s \in Selected(samples, q) : l[m] = bucketOf(q, s.frame.ts)
      BY BucketList
    <2>2. s.frame.ts \in Nat /\ rowTime(q, s.frame.ts) \in q.from..q.to
      BY DEF Selected, Stores
    <2>3. Step(q, s.frame.ts) \in Nat /\ bucketOf(q, s.frame.ts) = q.from + Step(q, s.frame.ts) * w
      BY <2>2, BucketPlace
    <2>4. QED BY <2>1, <2>3
  <1>3. \A x, y \in 1..Len(l) : x < y => l[x] < l[y]
    BY BucketList
  <1>4. l[i] = q.from + k * w /\ i \in 1..Len(l)
    OBVIOUS
  <1> HIDE DEF l, w
  <1>5. SUFFICES ASSUME T # {} PROVE FALSE
    BY <1>1, <1>4
  <1>6. T \subseteq Nat
    BY <1>1
  <1>7. PICK m \in T : \A x \in T : m <= x
    <2> HIDE DEF T
    <2>1. QED BY <1>5, <1>6, LeastMember
  <1>8. PICK j \in Nat : l[m] = q.from + j * w /\ ~(m <= j + 1)
    BY <1>7
  <1>9. m \in 1..Len(l) /\ m \in Nat
    BY <1>1, <1>7
  <1>10. m - 1 \in 1..Len(l) /\ m - 1 < m
    BY <1>1, <1>8, <1>9
  <1>11. PICK h \in Nat : l[m - 1] = q.from + h * w
    BY <1>2, <1>10
  <1>12. m - 1 <= h + 1
    <2>1. m - 1 \notin T
      <3>1. ~(m <= m - 1)
        BY <1>9
      <3> HIDE DEF T
      <3>2. QED BY <1>7, <3>1
    <2>2. QED BY <1>10, <1>11, <2>1
  <1>13. l[m - 1] < l[m]
    BY <1>3, <1>9, <1>10
  <1>14. CASE j <= h
    <2>1. j * w \in Nat /\ h * w \in Nat /\ j * w <= h * w
      BY <1>1, <1>14, Grows
    <2>2. QED BY <1>1, <1>8, <1>11, <1>13, <2>1
  <1>15. CASE ~(j <= h)
    BY <1>8, <1>9, <1>11, <1>12, <1>15
  <1>16. QED BY <1>14, <1>15

(* So a selected sample whose row begins before the end is in a bucket that *)
(* the cut leaves.                                                          *)
LEMMA KeptByCut ==
  ASSUME NEW samples, NEW q, Stores(samples), Sensible(q),
         NEW s \in Selected(samples, q), rowTime(q, s.frame.ts) < q.to
  PROVE  \E i \in 1..Limit(samples, q) : Buckets(samples, q)[i] = bucketOf(q, s.frame.ts)
  <1> DEFINE l == Buckets(samples, q)
             n == resolveBuckets(q.buckets)
             ts == s.frame.ts
             k == Step(q, ts)
             m == Limit(samples, q)
  <1>1. PICK i \in 1..Len(l) : l[i] = bucketOf(q, ts)
    BY BucketList
  <1>2. ts \in Nat /\ rowTime(q, ts) \in q.from..q.to
    BY DEF Selected, Stores
  <1>3. k \in Nat /\ bucketOf(q, ts) = q.from + k * Width(q) /\ k < n
    BY <1>2, BucketPlace
  <1>4. i <= k + 1
    BY <1>1, <1>3, PlaceBounded
  <1>5. Len(l) \in Nat /\ n \in Nat
    BY BucketList, WidthCovers
  <1>6. m = Min({Len(l), n})
    BY DEF Limit
  <1> HIDE DEF l, n, k, m
  <1>7. i <= n
    BY <1>3, <1>4, <1>5
  <1>8. m \in {Len(l), n}
    <2>1. Len(l) \in Int /\ n \in Int
      BY <1>5
    <2>2. QED BY <1>6, <2>1, OfTwo
  <1>9. i \in 1..m
    BY <1>1, <1>5, <1>7, <1>8
  <1>10. QED BY <1>1, <1>9 DEF l, m

-----------------------------------------------------------------------------
(* The counts. *)

(* The samples in the first n buckets. *)
Covered(samples, q, n) ==
  {s \in Selected(samples, q) : \E i \in 1..n : Buckets(samples, q)[i] = bucketOf(q, s.frame.ts)}

(* The cut takes no bucket that is not there. *)
LEMMA CutIsWithin ==
  ASSUME NEW samples, NEW q, Stores(samples), Sensible(q)
  PROVE  /\ Limit(samples, q) \in Nat
         /\ Limit(samples, q) <= Len(Buckets(samples, q))
         /\ Limit(samples, q) <= resolveBuckets(q.buckets)
  <1> DEFINE a == Len(Buckets(samples, q))
             b == resolveBuckets(q.buckets)
  <1>1. a \in Nat /\ b \in Nat /\ a \in Int /\ b \in Int
    BY BucketList, WidthCovers
  <1>2. Limit(samples, q) = Min({a, b})
    BY DEF Limit
  <1> HIDE DEF a, b
  <1>3. /\ Min({a, b}) <= a /\ Min({a, b}) <= b
        /\ Min({a, b}) \in {a, b}
    BY <1>1, OfTwo
  <1>4. QED BY <1>1, <1>2, <1>3 DEF a, b

(* Each bucket adds the samples it counts. *)
LEMMA CoveredGrows ==
  ASSUME NEW samples, NEW q, Stores(samples), Sensible(q)
  PROVE  /\ \A n \in Nat : /\ IsFiniteSet(Covered(samples, q, n))
                           /\ Cardinality(Covered(samples, q, n)) \in Nat
         /\ Cardinality(Covered(samples, q, 0)) = 0
         /\ \A n \in 1..Limit(samples, q) :
              /\ Cardinality(Members(samples, q, Buckets(samples, q)[n])) \in Nat
              /\ Cardinality(Covered(samples, q, n)) =
                   Cardinality(Members(samples, q, Buckets(samples, q)[n]))
                   + Cardinality(Covered(samples, q, n - 1))
  <1> DEFINE S == Selected(samples, q)
             l == Buckets(samples, q)
             C(n) == Covered(samples, q, n)
             M(n) == Members(samples, q, l[n])
  <1>1. IsFiniteSet(S)
    BY BucketList
  <1>2. ASSUME NEW n \in Nat PROVE IsFiniteSet(C(n)) /\ Cardinality(C(n)) \in Nat
    <2> DEFINE T == C(n)
    <2>1. T \in SUBSET S
      BY DEF Covered
    <2> HIDE DEF T, S
    <2>2. IsFiniteSet(T)
      BY <1>1, <2>1, FS_Subset
    <2>3. Cardinality(T) \in Nat
      BY <2>2, FS_CardinalityType
    <2>4. QED BY <2>2, <2>3 DEF T
  <1>3. Cardinality(C(0)) = 0
    <2>1. C(0) = {}
      BY DEF Covered
    <2>2. Cardinality({}) = 0
      BY FS_EmptySet
    <2>3. QED BY <2>1, <2>2
  <1>4. ASSUME NEW n \in 1..Limit(samples, q)
        PROVE  /\ Cardinality(M(n)) \in Nat
               /\ Cardinality(C(n)) = Cardinality(M(n)) + Cardinality(C(n - 1))
    <2>1. Limit(samples, q) \in Nat /\ Limit(samples, q) <= Len(l) /\ Len(l) \in Nat
      BY CutIsWithin, BucketList
    <2>2. n \in 1..Len(l) /\ n \in Nat /\ n - 1 \in Nat /\ n - 1 < n
      BY <2>1
    <2>3. \A i \in 1..n : i = n \/ i \in 1..n - 1
      BY <2>2
    <2>4. \A i \in 1..n - 1 : i \in 1..n /\ l[i] < l[n] /\ l[i] \in Int /\ l[n] \in Int
      <3>1. SUFFICES ASSUME NEW i \in 1..n - 1
                     PROVE  i \in 1..n /\ l[i] < l[n] /\ l[i] \in Int /\ l[n] \in Int
        OBVIOUS
      <3>2. i \in 1..Len(l) /\ i < n /\ i \in 1..n
        BY <2>2
      <3>3. l[i] < l[n]
        BY <2>2, <3>2, BucketList
      <3>4. \A s \in S : bucketOf(q, s.frame.ts) \in Int
        BY BucketPlace DEF Selected, Stores
      <3>5. l[i] \in Int /\ l[n] \in Int
        BY <2>2, <3>2, <3>4, BucketList
      <3>6. QED BY <3>2, <3>3, <3>5
    <2> DEFINE A == M(n)
               B == C(n - 1)
    <2>5. C(n) = A \cup B
      <3>1. \A s \in S : s \in C(n) <=> s \in A \/ s \in B
        <4>1. SUFFICES ASSUME NEW s \in S PROVE s \in C(n) <=> s \in A \/ s \in B
          OBVIOUS
        <4>2. /\ s \in C(n) <=> \E i \in 1..n : l[i] = bucketOf(q, s.frame.ts)
              /\ s \in B <=> \E i \in 1..n - 1 : l[i] = bucketOf(q, s.frame.ts)
              /\ s \in A <=> bucketOf(q, s.frame.ts) = l[n]
          BY DEF Covered, Members
        <4>3. n \in 1..n /\ \A i \in 1..n - 1 : i \in 1..n
          BY <2>2
        <4> HIDE DEF A, B, C, l, S
        <4>4. QED BY <2>3, <4>2, <4>3
      <3>2. C(n) \subseteq S /\ A \subseteq S /\ B \subseteq S
        BY DEF Covered, Members
      <3> HIDE DEF C, A, B, S
      <3>3. QED BY <3>1, <3>2
    <2>6. A \cap B = {}
      <3>1. SUFFICES ASSUME NEW s \in A, s \in B PROVE FALSE
        OBVIOUS
      <3>2. bucketOf(q, s.frame.ts) = l[n]
        BY DEF Members
      <3>3. PICK i \in 1..n - 1 : l[i] = bucketOf(q, s.frame.ts)
        BY <3>1 DEF Covered
      <3> HIDE DEF l
      <3>4. l[i] < l[n] /\ l[i] \in Int /\ l[n] \in Int
        BY <2>4
      <3>5. QED BY <3>2, <3>3, <3>4
    <2>7. IsFiniteSet(A)
      <3>1. A \in SUBSET S
        BY DEF Members
      <3> HIDE DEF A, S
      <3>2. QED BY <1>1, <3>1, FS_Subset
    <2>8. IsFiniteSet(B) /\ Cardinality(B) \in Nat
      BY <1>2, <2>2
    <2> HIDE DEF A, B
    <2>9. Cardinality(A) \in Nat
      BY <2>7, FS_CardinalityType
    <2>10. Cardinality(A \cup B) = Cardinality(A) + Cardinality(B) - Cardinality(A \cap B)
      BY <2>7, <2>8, FS_Union
    <2>11. Cardinality(A \cap B) = 0
      BY <2>6, FS_EmptySet
    <2>12. Cardinality(C(n)) = Cardinality(A) + Cardinality(B)
      <3>1. Cardinality(C(n)) = Cardinality(A \cup B)
        BY <2>5
      <3> HIDE DEF C
      <3>2. QED BY <2>8, <2>9, <2>10, <2>11, <3>1
    <2>13. QED BY <2>9, <2>12 DEF A, B
  <1>5. QED BY <1>2, <1>3, <1>4

(* The number of samples in a list of points, as Conserves counts it. *)
Tally(points) ==
  LET counted[n \in 0..Len(points)] == IF n = 0 THEN 0 ELSE points[n].sampleCount + counted[n - 1]
  IN  counted[Len(points)]

(* The counts of a series add up to the samples in its buckets. *)
LEMMA Tallied ==
  ASSUME NEW samples, NEW q, Stores(samples), Sensible(q)
  PROVE  Tally(queryHistory(samples, q)) = Cardinality(Covered(samples, q, Limit(samples, q)))
  <1> DEFINE points == queryHistory(samples, q)
             m == Limit(samples, q)
             c(n) == Cardinality(Covered(samples, q, n))
             size(n) == Cardinality(Members(samples, q, Buckets(samples, q)[n]))
             Counts(f) == f = [n \in 0..Len(points) |->
                                 IF n = 0 THEN 0 ELSE points[n].sampleCount + f[n - 1]]
             f == CHOOSE counted : Counts(counted)
             g == [n \in 0..m |-> c(n)]
  <1>1. m \in Nat
    BY CutIsWithin
  <1>2. Len(points) = m /\ \A n \in 1..m : points[n].sampleCount = size(n)
    BY <1>1, SeriesIs
  <1>3. /\ \A n \in 0..m : c(n) \in Nat
        /\ c(0) = 0
        /\ \A n \in 1..m : size(n) \in Nat /\ c(n) = size(n) + c(n - 1)
    BY CoveredGrows
  <1>4. Tally(points) = f[m]
    BY <1>2 DEF Tally
  <1> HIDE DEF points, m, c, size
  <1>5. Counts(g)
    <2>1. ASSUME NEW n \in 0..m
          PROVE  c(n) = IF n = 0 THEN 0 ELSE points[n].sampleCount + g[n - 1]
      <3>1. CASE n = 0
        BY <1>3, <3>1
      <3>2. CASE n # 0
        <4>1. n \in 1..m /\ n - 1 \in 0..m
          BY <1>1, <3>2
        <4>2. g[n - 1] = c(n - 1) /\ points[n].sampleCount = size(n)
          BY <1>2, <4>1
        <4>3. QED BY <1>3, <3>2, <4>1, <4>2
      <3>3. QED BY <3>1, <3>2
    <2>2. QED BY <1>2, <2>1
  <1>6. Counts(f)
    <2> HIDE DEF Counts, g
    <2>1. QED BY <1>5
  <1> HIDE DEF f, g
  <1>7. /\ f[0] = 0
        /\ \A n \in 1..m : f[n] = size(n) + f[n - 1]
    <2>1. \A n \in 0..m : f[n] = IF n = 0 THEN 0 ELSE points[n].sampleCount + f[n - 1]
      BY <1>2, <1>6
    <2>2. \A n \in 1..m : n \in 0..m /\ n # 0
      BY <1>1
    <2>3. 0 \in 0..m
      BY <1>1
    <2>4. QED BY <1>2, <2>1, <2>2, <2>3
  <1> DEFINE T == {n \in 0..m : f[n] # c(n)}
  <1>8. T = {}
    <2>1. SUFFICES ASSUME T # {} PROVE FALSE
      OBVIOUS
    <2>2. PICK n \in T : \A x \in T : n <= x
      <3>1. T \subseteq Nat
        BY <1>1
      <3> HIDE DEF T
      <3>2. QED BY <2>1, <3>1, LeastMember
    <2>3. n \in 0..m /\ f[n] # c(n)
      OBVIOUS
    <2>4. n # 0
      BY <1>3, <1>7, <2>3
    <2>5. n \in 1..m /\ n - 1 \in 0..m /\ ~(n <= n - 1)
      BY <1>1, <2>3, <2>4
    <2>6. f[n - 1] = c(n - 1)
      BY <2>2, <2>5
    <2>7. QED BY <1>3, <1>7, <2>3, <2>5, <2>6
  <1>9. f[m] = c(m)
    BY <1>1, <1>8
  <1>10. QED BY <1>4, <1>9 DEF points, m, c

-----------------------------------------------------------------------------
(* What a series promises. *)

(* Those the range holds for certain, and those near it. *)
Sure(samples, q) ==
  {s \in samples : s.drone = q.droneId /\ q.from + granule(q) <= s.frame.ts /\ s.frame.ts < q.to}

Near(samples, q) ==
  {s \in samples : s.drone = q.droneId /\ q.from <= s.frame.ts /\ s.frame.ts <= q.to + granule(q)}

(* Conserves, in these terms. *)
LEMMA PromiseIs ==
  ASSUME NEW samples, NEW q, NEW points,
         Len(points) <= resolveBuckets(q.buckets),
         \A i \in 1..Len(points) : /\ q.from <= points[i].ts /\ points[i].ts <= q.to
                                   /\ i > 1 => points[i - 1].ts < points[i].ts,
         Cardinality(Sure(samples, q)) <= Tally(points),
         Tally(points) <= Cardinality(Near(samples, q)),
         \A s \in Sure(samples, q) : \E i \in 1..Len(points) :
           points[i].minAltitude <= s.frame.altitude /\ s.frame.altitude <= points[i].maxAltitude
  PROVE  Conserves(samples, q, points)
  <1> DEFINE own == {s \in samples : s.drone = q.droneId}
             sure == {s \in own : q.from + granule(q) <= s.frame.ts /\ s.frame.ts < q.to}
             near == {s \in own : q.from <= s.frame.ts /\ s.frame.ts <= q.to + granule(q)}
  <1>1. sure = Sure(samples, q)
    BY DEF Sure
  <1>2. near = Near(samples, q)
    BY DEF Near
  <1> DEFINE counted[n \in 0..Len(points)] ==
               IF n = 0 THEN 0 ELSE points[n].sampleCount + counted[n - 1]
  <1>3. Tally(points) = counted[Len(points)]
    BY Zenon DEF Tally
  <1> HIDE DEF sure, near, counted
  <1>4. /\ Len(points) <= resolveBuckets(q.buckets)
        /\ \A i \in 1..Len(points) :
             /\ q.from <= points[i].ts /\ points[i].ts <= q.to
             /\ i > 1 => points[i - 1].ts < points[i].ts
        /\ Cardinality(sure) <= counted[Len(points)]
        /\ counted[Len(points)] <= Cardinality(near)
        /\ \A s \in sure : \E i \in 1..Len(points) :
             points[i].minAltitude <= s.frame.altitude /\ s.frame.altitude <= points[i].maxAltitude
    BY <1>1, <1>2, <1>3, Zenon
  <1>5. QED BY <1>4, Zenon DEF Conserves, sure, near, counted

(* Those the range holds for certain are in a bucket the cut leaves; and    *)
(* those in a bucket are near the range.                                    *)
LEMMA SureCoveredNear ==
  ASSUME NEW samples, NEW q, Stores(samples), Sensible(q)
  PROVE  /\ Sure(samples, q) \subseteq Covered(samples, q, Limit(samples, q))
         /\ Covered(samples, q, Limit(samples, q)) \subseteq Near(samples, q)
         /\ IsFiniteSet(Sure(samples, q)) /\ IsFiniteSet(Near(samples, q))
  <1>1. q.from \in Int /\ q.to \in Int
    BY DEF Sensible
  <1>2. ASSUME NEW s \in Sure(samples, q)
        PROVE  s \in Covered(samples, q, Limit(samples, q))
    <2>1. /\ s \in samples /\ s.drone = q.droneId /\ s.frame.ts \in Nat
          /\ q.from + granule(q) <= s.frame.ts /\ s.frame.ts < q.to
      BY DEF Sure, Stores
    <2>2. /\ rowTime(q, s.frame.ts) \in Int /\ rowTime(q, s.frame.ts) <= s.frame.ts
          /\ q.from <= rowTime(q, s.frame.ts)
      BY <1>1, <2>1, Granules
    <2>3. rowTime(q, s.frame.ts) < q.to /\ rowTime(q, s.frame.ts) \in q.from..q.to
      BY <1>1, <2>1, <2>2
    <2>4. s \in Selected(samples, q)
      BY <2>1, <2>3 DEF Selected
    <2>5. \E i \in 1..Limit(samples, q) : Buckets(samples, q)[i] = bucketOf(q, s.frame.ts)
      BY <2>3, <2>4, KeptByCut
    <2>6. QED BY <2>4, <2>5 DEF Covered
  <1>3. ASSUME NEW s \in Covered(samples, q, Limit(samples, q))
        PROVE  s \in Near(samples, q)
    <2>1. /\ s \in samples /\ s.drone = q.droneId /\ s.frame.ts \in Nat
          /\ rowTime(q, s.frame.ts) \in q.from..q.to
      BY DEF Covered, Selected, Stores
    <2>2. /\ granule(q) \in Nat /\ rowTime(q, s.frame.ts) \in Int
          /\ rowTime(q, s.frame.ts) <= s.frame.ts
          /\ s.frame.ts <= rowTime(q, s.frame.ts) + granule(q)
      BY <2>1, Granules
    <2>3. q.from <= s.frame.ts /\ s.frame.ts <= q.to + granule(q)
      BY <1>1, <2>1, <2>2
    <2>4. QED BY <2>1, <2>3 DEF Near
  <1>4. Sure(samples, q) \in SUBSET samples /\ Near(samples, q) \in SUBSET samples
    BY DEF Sure, Near
  <1>5. IsFiniteSet(Sure(samples, q)) /\ IsFiniteSet(Near(samples, q))
    BY <1>4, FS_Subset DEF Stores
  <1>6. QED BY <1>2, <1>3, <1>5

(* The low and the high point of a bucket enclose its samples. *)
LEMMA Encloses ==
  ASSUME NEW samples, NEW q, Stores(samples), Sensible(q), NEW b,
         NEW s \in Members(samples, q, b)
  PROVE  /\ Min(Altitudes(samples, q, b)) <= s.frame.altitude
         /\ s.frame.altitude <= Max(Altitudes(samples, q, b))
  <1> DEFINE A == Altitudes(samples, q, b)
             M == Members(samples, q, b)
             f == [x \in M |-> x.frame.altitude]
  <1>1. IsFiniteSet(M)
    <2>1. M \in SUBSET Selected(samples, q)
      BY DEF Members
    <2>2. IsFiniteSet(Selected(samples, q))
      BY BucketList
    <2> HIDE DEF M
    <2>3. QED BY <2>1, <2>2, FS_Subset
  <1>2. A = {f[x] : x \in M} /\ DOMAIN f = M
    BY DEF Altitudes
  <1>3. \A x \in A : x \in Int
    BY DEF Altitudes, Members, Selected, Stores
  <1>4. s.frame.altitude \in A
    BY DEF Altitudes
  <1> HIDE DEF f, M, A
  <1>5. IsFiniteSet(A)
    BY <1>1, <1>2, FiniteImage
  <1>6. A # {}
    BY <1>4
  <1>7. /\ \A w \in A : Min(A) <= w
        /\ \A w \in A : w <= Max(A)
    BY <1>3, <1>5, <1>6, Extremes
  <1>8. QED BY <1>4, <1>7 DEF A

(* A sensible request is answered with a series that keeps the promise. *)
LEMMA SeriesConserves ==
  ASSUME NEW samples, NEW q, Stores(samples), Sensible(q)
  PROVE  Conserves(samples, q, queryHistory(samples, q))
  <1> DEFINE points == queryHistory(samples, q)
             m == Limit(samples, q)
             l == Buckets(samples, q)
  <1>1. m \in Nat /\ m <= Len(l) /\ m <= resolveBuckets(q.buckets) /\ Len(l) \in Nat
    BY CutIsWithin, BucketList
  <1>2. /\ Len(points) = m
        /\ \A i \in 1..m : /\ points[i].ts = l[i]
                           /\ points[i].minAltitude = Min(Altitudes(samples, q, l[i]))
                           /\ points[i].maxAltitude = Max(Altitudes(samples, q, l[i]))
    BY <1>1, SeriesIs
  <1>3. ASSUME NEW i \in 1..m
        PROVE  /\ q.from <= points[i].ts /\ points[i].ts <= q.to
               /\ i > 1 => points[i - 1].ts < points[i].ts
    <2>1. i \in 1..Len(l)
      BY <1>1
    <2>2. PICK s \in Selected(samples, q) : l[i] = bucketOf(q, s.frame.ts)
      BY <2>1, BucketList
    <2>3. s.frame.ts \in Nat /\ rowTime(q, s.frame.ts) \in q.from..q.to
      BY DEF Selected, Stores
    <2>4. q.from <= l[i] /\ l[i] <= q.to
      BY <2>2, <2>3, BucketPlace
    <2>5. ASSUME i > 1 PROVE l[i - 1] < l[i] /\ i - 1 \in 1..m
      <3>1. i - 1 \in 1..Len(l) /\ i - 1 \in 1..m /\ i - 1 < i
        BY <1>1, <2>5
      <3>2. QED BY <2>1, <3>1, BucketList
    <2> HIDE DEF points, m, l
    <2>6. QED BY <1>2, <2>4, <2>5
  <1>4. Tally(points) = Cardinality(Covered(samples, q, m))
    BY Tallied
  <1>5. /\ Cardinality(Sure(samples, q)) <= Tally(points)
        /\ Tally(points) <= Cardinality(Near(samples, q))
    <2>1. IsFiniteSet(Covered(samples, q, m))
      BY <1>1, CoveredGrows
    <2> DEFINE A == Sure(samples, q)
               B == Covered(samples, q, m)
               C == Near(samples, q)
    <2>2. A \in SUBSET B /\ B \in SUBSET C /\ IsFiniteSet(C)
      BY SureCoveredNear
    <2> HIDE DEF A, B, C
    <2>3. Cardinality(A) <= Cardinality(B) /\ Cardinality(B) <= Cardinality(C)
      BY <2>1, <2>2, FS_Subset DEF B
    <2> HIDE DEF points
    <2>4. QED BY <1>4, <2>3 DEF A, B, C
  <1>6. ASSUME NEW s \in Sure(samples, q)
        PROVE  \E i \in 1..m : /\ points[i].minAltitude <= s.frame.altitude
                               /\ s.frame.altitude <= points[i].maxAltitude
    <2>1. s \in Covered(samples, q, m)
      BY SureCoveredNear
    <2>2. PICK i \in 1..m : l[i] = bucketOf(q, s.frame.ts)
      BY <2>1 DEF Covered
    <2>3. s \in Members(samples, q, l[i])
      BY <2>1, <2>2 DEF Covered, Members
    <2>4. /\ Min(Altitudes(samples, q, l[i])) <= s.frame.altitude
          /\ s.frame.altitude <= Max(Altitudes(samples, q, l[i]))
      BY <2>3, Encloses
    <2> HIDE DEF points, m, l
    <2>5. QED BY <1>2, <2>4
  <1> HIDE DEF points, m, l
  <1>7. QED BY <1>1, <1>2, <1>3, <1>5, <1>6, PromiseIs, Zenon DEF points

(* And whatever else is asked gets a 400 and no points. *)
LEMMA AnsweredWell ==
  ASSUME NEW samples, Stores(samples), NEW q \in Queries
  PROVE  AnswersWell(samples, q)
  <1>1. /\ q.from \in Int \cup {Blank} /\ q.to \in Int \cup {Blank}
        /\ q.buckets \in Nat \cup {Blank}
    BY TelemetryAssumption
  <1>2. CASE validQuery(q)
    <2>1. Sensible(q)
      BY <1>1, <1>2 DEF validQuery, Sensible
    <2>2. handleHistory(samples, q) = [status |-> 200, points |-> queryHistory(samples, q)]
      BY <1>2 DEF handleHistory
    <2>3. Conserves(samples, q, queryHistory(samples, q))
      BY <2>1, SeriesConserves
    <2>4. QED BY <2>2, <2>3 DEF AnswersWell
  <1>3. CASE ~validQuery(q)
    <2>1. handleHistory(samples, q) = [status |-> 400, points |-> <<>>]
      BY <1>3 DEF handleHistory
    <2>2. Blank \in {q.droneId, q.from, q.to} \/ q.from > q.to \/ q.buckets = 0
      BY <1>1, <1>3 DEF validQuery
    <2>3. QED BY <2>1, <2>2 DEF AnswersWell
  <1>4. QED BY <1>2, <1>3

-----------------------------------------------------------------------------
(* The hypertable holds the seeded rows and finitely many others. *)

Kept == Seeded \subseteq rows /\ IsFiniteSet(rows)

(* A batch adds finitely many rows. *)
LEMMA InsertedFinite ==
  ASSUME TypeOK, Kept
  PROVE  rows \subseteq inserted(writing) /\ IsFiniteSet(inserted(writing))
  <1> DEFINE fresh == {j \in 1..Len(writing) :
               \A r \in rows : r.drone = writing[j].drone =>
                               r.frame.ts # writing[j].frame.ts}
             f == [i \in fresh |-> writing[i]]
             new == {f[i] : i \in fresh}
  <1>1. Len(writing) \in Nat
    BY Lengths
  <1>2. IsFiniteSet(1..Len(writing)) /\ fresh \in SUBSET (1..Len(writing))
    BY <1>1, FS_Interval
  <1>3. inserted(writing) = rows \cup new
    BY DEF inserted
  <1>4. DOMAIN f = fresh
    OBVIOUS
  <1> HIDE DEF fresh, f
  <1>5. IsFiniteSet(fresh)
    BY <1>2, FS_Subset
  <1>6. IsFiniteSet(new)
    BY <1>4, <1>5, FiniteImage
  <1> HIDE DEF new
  <1>7. IsFiniteSet(rows \cup new)
    BY <1>6, FS_Union DEF Kept
  <1>8. QED BY <1>3, <1>7

(* No step takes rows away. *)
LEMMA KeptStep == TypeOK /\ Kept /\ [Next]_vars => Kept'
  <1> SUFFICES ASSUME TypeOK, Kept, [Next]_vars PROVE Kept'
    OBVIOUS
  <1>1. rows' = rows \/ rows' = inserted(writing)
    <2>1. CASE Drain
      BY <2>1 DEF Drain, DrainEmpty, DrainStart, InsertOk, InsertFail
    <2>2. CASE Input
      BY <2>2 DEF Input, Connect, Disconnect, MalformedFrame, HandleFrame
    <2>3. CASE Shutdown \/ Closed \/ Crash \/ Start
      BY <2>3 DEF Shutdown, Closed, Crash, Exit, Start
    <2>4. CASE UNCHANGED vars
      BY <2>4 DEF vars
    <2>5. QED BY <2>1, <2>2, <2>3, <2>4 DEF Next
  <1>2. QED BY <1>1, InsertedFinite DEF Kept

(***************************************************************************)
(* Whatever is stored when a history request is answered, whatever its     *)
(* range and the number of buckets it asks for: the buckets ascend within  *)
(* the range and are no more than asked for, every sample a granule inside *)
(* the range is counted once and none a granule outside, and no low or     *)
(* high point is lost; a request that makes no sense gets a 400.           *)
(***************************************************************************)
THEOREM HistoryStaysConserved == Spec => []HistoryConserves
  <1>1. Init => Kept
    BY TelemetryAssumption DEF Init, Kept
  <1>2. IInv /\ Kept /\ [Next]_vars => Kept'
    BY KeptStep DEF IInv
  <1>3. IInv /\ Kept => HistoryConserves
    <2> SUFFICES ASSUME IInv, Kept PROVE rows \in Conserved
      BY DEF HistoryConserves
    <2> DEFINE new == {r \in rows : r \notin Seeded}
               bounded == {s \in Sample : isWithinBounds(s.frame)}
    <2>1. \A r \in rows : r \in Sample \/ r \in Seeded
      BY DEF IInv, TypeOK
    <2>2. \A r \in rows : r \notin Seeded => isWithinBounds(r.frame)
      BY DEF IInv, Stored, Sound
    <2>3. new \in SUBSET bounded
      BY <2>1, <2>2
    <2>4. new \cup Seeded = rows
      BY DEF Kept
    <2>5. \A s \in Sample : s.frame.ts \in Nat /\ s.frame.altitude \in Int
      BY TelemetryAssumption DEF Sample
    <2>6. Stores(rows)
      BY <2>1, <2>5, TelemetryAssumption DEF Stores, Kept
    <2>7. \A q \in Queries : AnswersWell(rows, q)
      BY <2>6, AnsweredWell
    <2> HIDE DEF new, bounded
    <2>8. QED BY <2>3, <2>4, <2>7 DEF Conserved, bounded
  <1>4. QED BY <1>1, <1>2, <1>3, Inductive, PTL DEF Spec
=============================================================================
