----------------------------- MODULE Detections -----------------------------
(***************************************************************************)
(* The detection store of the Vision AI service: POST /detections          *)
(* (app/routers/detections.py, app/services/ingest.py) and the query of    *)
(* GET /detections (app/services/query.py).  A handler runs in a thread of *)
(* its own with a session of its own: it looks the idempotency key up in   *)
(* the ledger and commits later, while other handlers run.  Who sends a    *)
(* batch, and sends it again when no answer came, is outside src/: any     *)
(* batch may be sent at any time.                                          *)
(***************************************************************************)
EXTENDS Integers, Sequences, FiniteSets, SequencesExt, Selections

CONSTANTS
  Batches,     \* what is sent: [key, detections]
  MaxRequests, \* bound: the number of requests
  NoId,        \* a detection without an id, a filter that is not set
  Queries      \* the queries: [from, to, cls, minConf, zone]

Detection ==
  [id : Int \cup {NoId}, ts : Int, cls : STRING, conf : Int,
   obb : [cx : Int, cy : Int, w : Int, h : Int]]

(* A key names its batch: who sends the key again sends the same batch. *)
ASSUME BatchesAssumption ==
  /\ \A b \in Batches : b.detections \in Seq(Detection)
  /\ \A b, c \in Batches : b.key = c.key => b = c

VARIABLES
  requests,  \* the requests received: [batch, phase, ids, status, result]
  ledger,    \* ingest_batches: the results, each with its key
  rows       \* detections

storeVars == <<requests, ledger, rows>>

NoResult == [key |-> NoId, ids |-> <<>>]
ledgerKeys == {e.key : e \in ledger}

-----------------------------------------------------------------------------
(* app/schemas.py; anything else is answered 422 *)

validDetection(d) == d.conf \in 0..100 /\ d.ts >= 0 /\ d.obb.w > 0 /\ d.obb.h > 0

valid(batch) == \A i \in DOMAIN batch.detections : validDetection(batch.detections[i])

(* uuid4: an id nothing else has. *)
freshId(r, i) == 10 * r + i

detectionIds(r, batch) ==
  [i \in DOMAIN batch.detections |->
     IF batch.detections[i].id = NoId THEN freshId(r, i) ELSE batch.detections[i].id]

rowsOf(batch, ids) ==
  {[batch.detections[i] EXCEPT !.id = ids[i]] : i \in DOMAIN batch.detections}

(* The primary keys of the two tables. *)
conflict(batch, ids) ==
  \/ batch.key \in ledgerKeys
  \/ ToSet(ids) \cap {d.id : d \in rows} # {}
  \/ ~IsInjective(ids)

-----------------------------------------------------------------------------
(* app/services/query.py *)

centroid_in_zone(obb, zone) == <<obb.cx, obb.cy>> \in zone

detection_matches(d, q) ==
  /\ q.from = NoId \/ d.ts >= q.from
  /\ q.to = NoId \/ d.ts <= q.to
  /\ q.cls = NoId \/ d.cls = q.cls
  /\ q.minConf = NoId \/ d.conf >= q.minConf
  /\ q.zone = NoId \/ centroid_in_zone(d.obb, q.zone)

(* Mutant: the upper bound of the range is exclusive. *)
applyScalarFiltersHalfOpen(table, q) ==
  {d \in table : detection_matches(d, [q EXCEPT !.zone = NoId]) /\ d.ts # q.to}

(* The filters the database applies.                                         *)
applyScalarFilters(table, q) ==
  LET since  == IF q.from = NoId THEN table ELSE {d \in table : d.ts >= q.from}
      until  == IF q.to = NoId THEN since ELSE {d \in since : d.ts <= q.to}
      ofCls  == IF q.cls = NoId THEN until ELSE {d \in until : d.cls = q.cls}
  IN  IF q.minConf = NoId THEN ofCls ELSE {d \in ofCls : d.conf >= q.minConf}

rowOrder(a, b) == a.ts < b.ts \/ (a.ts = b.ts /\ a.id < b.id)

query_detections(q) ==
  LET found  == applyScalarFilters(rows, q)
      sorted == inOrder(found, {p \in found \X found : rowOrder(p[1], p[2])})
  IN  IF q.zone = NoId THEN sorted
      ELSE kept(sorted, {i \in DOMAIN sorted : centroid_in_zone(sorted[i].obb, q.zone)})

-----------------------------------------------------------------------------
StoreInit == requests = <<>> /\ ledger = {} /\ rows = {}

answer(r, status, result) ==
  requests' = [requests EXCEPT ![r].phase = "answered", ![r].status = status,
                               ![r].result = result]

(* A batch arrives; one that is not valid is refused by the schema. *)
Post(batch) ==
  /\ Len(requests) < MaxRequests
  /\ requests' = Append(requests,
       [batch |-> batch, ids |-> <<>>, result |-> NoResult,
        phase |-> IF valid(batch) THEN "received" ELSE "answered",
        status |-> IF valid(batch) THEN 0 ELSE 422])
  /\ UNCHANGED <<ledger, rows>>

(* ingest_detections up to the commit: a key of the ledger replays its       *)
(* result, another one gets its ids.                                         *)
LookUp(r) ==
  /\ requests[r].phase = "received"
  /\ LET batch == requests[r].batch
         known == {e \in ledger : e.key = batch.key}
     IN  IF known # {}
         THEN answer(r, 200, CHOOSE e \in known : TRUE)
         ELSE requests' = [requests EXCEPT ![r].phase = "adding",
                                           ![r].ids = detectionIds(r, batch)]
  /\ UNCHANGED <<ledger, rows>>

(* Mutant: the ledger's key is written without its constraint.               *)
CommitKeepingBoth(r) ==
  /\ requests[r].phase = "adding"
  /\ LET batch == requests[r].batch
         ids   == requests[r].ids
         entry == [key |-> batch.key, ids |-> ids]
     IN  IF ToSet(ids) \cap {d.id : d \in rows} # {} \/ ~IsInjective(ids)
         THEN answer(r, 500, NoResult) /\ UNCHANGED <<ledger, rows>>
         ELSE /\ rows' = rows \cup rowsOf(batch, ids)
              /\ ledger' = ledger \cup {entry}
              /\ answer(r, 201, entry)

(* session.commit(): the rows and the ledger's entry together, or neither.   *)
Commit(r) ==
  /\ requests[r].phase = "adding"
  /\ LET batch == requests[r].batch
         ids   == requests[r].ids
         entry == [key |-> batch.key, ids |-> ids]
     IN  IF conflict(batch, ids)
         THEN answer(r, 500, NoResult) /\ UNCHANGED <<ledger, rows>>
         ELSE /\ rows' = rows \cup rowsOf(batch, ids)
              /\ ledger' = ledger \cup {entry}
              /\ answer(r, 201, entry)

(* The process stops, or the database goes: the session is closed and what   *)
(* it added is rolled back.                                                  *)
Abandon(r) ==
  /\ requests[r].phase \in {"received", "adding"}
  /\ answer(r, 500, NoResult)
  /\ UNCHANGED <<ledger, rows>>

StoreNext ==
  \/ \E batch \in Batches : Post(batch)
  \/ \E r \in DOMAIN requests : LookUp(r) \/ Commit(r) \/ Abandon(r)

-----------------------------------------------------------------------------
(* However often and however concurrently a batch is sent, its detections    *)
(* are stored once or not at all: every row stands in exactly one result of  *)
(* the ledger, no key has two results, one request at most was told 201 for  *)
(* a key, and whoever was told 200 or 201 holds the result of the ledger,    *)
(* with every detection it sent stored under the id it was given.            *)
IngestOnce ==
  LET told(r) == requests[r].status \in {200, 201}
  IN  /\ \A e, f \in ledger :
           /\ e.key = f.key => e = f
           /\ \A i \in DOMAIN e.ids, j \in DOMAIN f.ids :
                e.ids[i] = f.ids[j] => e = f /\ i = j
      /\ {d.id : d \in rows} = UNION {ToSet(e.ids) : e \in ledger}
      /\ \A d, x \in rows : d.id = x.id => d = x
      /\ \A r \in DOMAIN requests : told(r) =>
           /\ requests[r].result \in ledger
           /\ requests[r].result.key = requests[r].batch.key
           /\ rowsOf(requests[r].batch, requests[r].result.ids) \subseteq rows
      /\ \A r, s \in DOMAIN requests :
           requests[r].status = 201 /\ requests[s].status = 201 /\ r # s
             => requests[r].batch.key # requests[s].batch.key

(* A query returns the stored detections that meet every filter set, each    *)
(* once, oldest first: what the database selects and what the zone filter    *)
(* keeps of it agree with detection_matches on every query.                  *)
QueryExact ==
  \A q \in Queries :
    LET found == query_detections(q)
    IN  /\ ToSet(found) = {d \in rows : detection_matches(d, q)}
        /\ Len(found) = Cardinality(ToSet(found))
        /\ \A i \in 1..Len(found) - 1 : rowOrder(found[i], found[i + 1])
=============================================================================
