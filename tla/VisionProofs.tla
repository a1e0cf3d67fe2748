---------------------------- MODULE VisionProofs ----------------------------
(***************************************************************************)
(* Theorems about Vision, for every set of batches, queries and sightings  *)
(* and any number of requests.                                             *)
(***************************************************************************)
EXTENDS Vision, FunctionTheorems, FiniteSetTheorems, SequenceTheorems,
        WellFoundedInduction, TLAPS

-----------------------------------------------------------------------------
(* The ledger and the rows. *)

Row ==
  [id : Int, ts : Int, cls : STRING, conf : Int,
   obb : [cx : Int, cy : Int, w : Int, h : Int]]

Entry == [key : {b.key : b \in Batches} \cup {NoId}, ids : Seq(Int)]

Request ==
  [batch : Batches, ids : Seq(Int), result : Entry,
   phase : {"received", "adding", "answered"}, status : {0, 200, 201, 422, 500}]

Told(r) == requests[r].status \in {200, 201}

(* Where a ledger's entry comes from: a batch that has its key, whose       *)
(* detections are stored under its ids.                                     *)
StoredIn(table, e) ==
  \E b \in Batches : /\ e.key = b.key /\ Len(e.ids) = Len(b.detections)
                     /\ rowsOf(b, e.ids) \subseteq table

LedgerOK ==
  /\ \A e \in ledger : StoredIn(rows, e)
  /\ \A e, f \in ledger : e.key = f.key => e = f
  /\ \A e, f \in ledger : \A i \in 1..Len(e.ids), j \in 1..Len(f.ids) :
       e.ids[i] = f.ids[j] => e = f /\ i = j

RowsOK ==
  /\ \A d \in rows : \E e \in ledger : \E i \in 1..Len(e.ids) : d.id = e.ids[i]
  /\ \A e \in ledger : \A i \in 1..Len(e.ids) : \E d \in rows : d.id = e.ids[i]
  /\ \A d, x \in rows : d.id = x.id => d = x

RequestsOK ==
  /\ \A r \in DOMAIN requests :
       /\ requests[r].phase = "adding" =>
            Len(requests[r].ids) = Len(requests[r].batch.detections)
       /\ Told(r) => /\ requests[r].result \in ledger
                     /\ requests[r].result.key = requests[r].batch.key
  /\ \A r, s \in DOMAIN requests :
       requests[r].status = 201 /\ requests[s].status = 201 /\ r # s
         => requests[r].batch.key # requests[s].batch.key

StoreTypes == requests \in Seq(Request) /\ ledger \subseteq Entry /\ rows \subseteq Row

StoreIInv == StoreTypes /\ LedgerOK /\ RowsOK /\ RequestsOK

(* The batches are lists of detections, told apart by their keys. *)
LEMMA BatchFields ==
  ASSUME NEW b \in Batches
  PROVE  /\ b.detections \in Seq(Detection) /\ DOMAIN b.detections = 1..Len(b.detections)
         /\ Len(b.detections) \in Nat
         /\ \A i \in 1..Len(b.detections) : b.detections[i] \in Detection
  <1>1. b.detections \in Seq(Detection)
    BY BatchesAssumption
  <1>2. QED BY <1>1

(* The ids a batch is stored under. *)
LEMMA IdsType ==
  ASSUME NEW b \in Batches, NEW r \in Nat
  PROVE  detectionIds(r, b) \in Seq(Int) /\ Len(detectionIds(r, b)) = Len(b.detections)
  <1> DEFINE n == Len(b.detections)
  <1>1. /\ n \in Nat /\ DOMAIN b.detections = 1..n
        /\ \A i \in 1..n : b.detections[i] \in Detection
    BY BatchFields
  <1>2. ASSUME NEW i \in 1..n
        PROVE  (IF b.detections[i].id = NoId THEN freshId(r, i) ELSE b.detections[i].id) \in Int
    <2>1. b.detections[i].id \in Int \cup {NoId}
      BY <1>1 DEF Detection
    <2>2. freshId(r, i) \in Int
      BY <1>1 DEF freshId
    <2>3. QED BY <2>1, <2>2
  <1> HIDE DEF n
  <1>3. detectionIds(r, b) = [i \in 1..n |-> IF b.detections[i].id = NoId THEN freshId(r, i)
                                             ELSE b.detections[i].id]
    BY <1>1 DEF detectionIds
  <1>4. detectionIds(r, b) \in Seq(Int) /\ Len(detectionIds(r, b)) = n
    BY <1>1, <1>2, <1>3
  <1>5. QED BY <1>4 DEF n

(* The rows of a batch: one for each of its ids. *)
LEMMA RowsType ==
  ASSUME NEW b \in Batches, NEW ids \in Seq(Int), Len(ids) = Len(b.detections)
  PROVE  /\ rowsOf(b, ids) \subseteq Row
         /\ \A d \in rowsOf(b, ids) : \E i \in 1..Len(ids) :
              d = [b.detections[i] EXCEPT !.id = ids[i]] /\ d.id = ids[i]
         /\ \A i \in 1..Len(ids) : \E d \in rowsOf(b, ids) : d.id = ids[i]
  <1> DEFINE n == Len(b.detections)
             row(i) == [b.detections[i] EXCEPT !.id = ids[i]]
  <1>1. /\ n \in Nat /\ DOMAIN b.detections = 1..n
        /\ \A i \in 1..n : b.detections[i] \in Detection
    BY BatchFields
  <1>2. ASSUME NEW i \in 1..n PROVE row(i) \in Row /\ row(i).id = ids[i]
    <2>1. ids[i] \in Int /\ b.detections[i] \in Detection
      BY <1>1
    <2>2. QED BY <2>1 DEF Detection, Row
  <1>3. rowsOf(b, ids) = {row(i) : i \in 1..n}
    BY <1>1 DEF rowsOf
  <1> HIDE DEF row
  <1>4. rowsOf(b, ids) \subseteq Row
    BY <1>2, <1>3
  <1>5. \A d \in rowsOf(b, ids) : \E i \in 1..Len(ids) : d = row(i) /\ d.id = ids[i]
    BY <1>2, <1>3
  <1>6. \A i \in 1..Len(ids) : \E d \in rowsOf(b, ids) : d.id = ids[i]
    BY <1>2, <1>3
  <1>7. QED BY <1>4, <1>5, <1>6 DEF row

(* What an answer makes of the requests. *)
LEMMA AnswerFields ==
  ASSUME requests \in Seq(Request), NEW r \in DOMAIN requests,
         NEW status \in {0, 200, 201, 422, 500}, NEW result \in Entry,
         answer(r, status, result)
  PROVE  /\ requests' \in Seq(Request) /\ DOMAIN requests' = DOMAIN requests
         /\ requests'[r].batch = requests[r].batch /\ requests'[r].phase = "answered"
         /\ requests'[r].status = status /\ requests'[r].result = result
         /\ \A s \in DOMAIN requests : s # r => requests'[s] = requests[s]
  <1>1. requests[r] \in Request
    OBVIOUS
  <1> DEFINE q == [requests[r] EXCEPT !.phase = "answered", !.status = status,
                                      !.result = result]
  <1>2. requests' = [requests EXCEPT ![r] = q]
    BY DEF answer
  <1>3. /\ q.batch = requests[r].batch /\ q.phase = "answered"
        /\ q.status = status /\ q.result = result
    BY <1>1 DEF Request
  <1>3a. q \in Request
    <2>1. q \in [batch : {requests[r].batch}, ids : {requests[r].ids}, result : {result},
                 phase : {"answered"}, status : {status}]
      BY <1>1, ZenonT(60) DEF Request
    <2>2. /\ requests[r].batch \in Batches /\ requests[r].ids \in Seq(Int)
          /\ result \in Entry /\ status \in {0, 200, 201, 422, 500}
      BY <1>1 DEF Request
    <2> HIDE DEF q
    <2>3. QED BY <2>1, <2>2 DEF Request
  <1> HIDE DEF q
  <1>4. QED BY <1>2, <1>3, <1>3a

(* An answer that grants nothing keeps the invariant. *)
LEMMA Refusal ==
  ASSUME StoreIInv, NEW r \in DOMAIN requests, answer(r, 500, NoResult),
         ledger' = ledger, rows' = rows
  PROVE  StoreIInv'
  <1>1. NoResult \in Entry
    BY DEF NoResult, Entry
  <1>2. requests \in Seq(Request)
    BY DEF StoreIInv, StoreTypes
  <1>3. /\ requests' \in Seq(Request) /\ DOMAIN requests' = DOMAIN requests
        /\ requests'[r].phase = "answered" /\ requests'[r].status = 500
        /\ \A s \in DOMAIN requests : s # r => requests'[s] = requests[s]
    BY <1>1, <1>2, AnswerFields
  <1>4. StoreTypes' /\ LedgerOK' /\ RowsOK'
    BY <1>3 DEF StoreIInv, StoreTypes, LedgerOK, RowsOK, StoredIn
  <1>5. \A s \in DOMAIN requests : requests'[s].status \in {200, 201} => s # r
    BY <1>3
  <1>6. RequestsOK'
    BY <1>3, <1>5 DEF StoreIInv, RequestsOK, Told
  <1>7. QED BY <1>4, <1>6 DEF StoreIInv

(* POST /detections arrives. *)
LEMMA PostStep ==
  ASSUME StoreIInv, NEW batch \in Batches, Post(batch)
  PROVE  StoreIInv'
  <1> DEFINE q == [batch |-> batch, ids |-> <<>>, result |-> NoResult,
                   phase |-> IF valid(batch) THEN "received" ELSE "answered",
                   status |-> IF valid(batch) THEN 0 ELSE 422]
  <1>1. requests' = Append(requests, q) /\ ledger' = ledger /\ rows' = rows
    BY DEF Post
  <1>2. NoResult \in Entry
    BY DEF NoResult, Entry
  <1>3. q \in Request /\ q.phase # "adding" /\ q.status \notin {200, 201}
    BY <1>2 DEF Request
  <1> HIDE DEF q
  <1>4. requests \in Seq(Request) /\ Len(requests) \in Nat
    BY DEF StoreIInv, StoreTypes
  <1>5. /\ requests' \in Seq(Request) /\ DOMAIN requests' = 1..Len(requests) + 1
        /\ requests'[Len(requests) + 1] = q
        /\ \A s \in 1..Len(requests) : requests'[s] = requests[s]
    BY <1>1, <1>3, <1>4
  <1>6. StoreTypes' /\ LedgerOK' /\ RowsOK'
    BY <1>1, <1>5 DEF StoreIInv, StoreTypes, LedgerOK, RowsOK, StoredIn
  <1>7. ASSUME NEW s \in 1..Len(requests) + 1, requests'[s] # q
        PROVE  s \in DOMAIN requests /\ requests'[s] = requests[s]
    BY <1>4, <1>5, <1>7
  <1>8. RequestsOK'
    <2>1. ASSUME NEW s \in 1..Len(requests) + 1
          PROVE  /\ requests'[s].phase = "adding" =>
                      Len(requests'[s].ids) = Len(requests'[s].batch.detections)
                 /\ Told(s)' => /\ requests'[s].result \in ledger'
                                /\ requests'[s].result.key = requests'[s].batch.key
      <3>1. CASE requests'[s] = q
        BY <1>3, <3>1 DEF Told
      <3>2. CASE requests'[s] # q
        BY <1>1, <1>7, <3>2 DEF StoreIInv, RequestsOK, Told
      <3>3. QED BY <3>1, <3>2
    <2>2. ASSUME NEW s \in 1..Len(requests) + 1, NEW t \in 1..Len(requests) + 1,
                 requests'[s].status = 201, requests'[t].status = 201, s # t
          PROVE  requests'[s].batch.key # requests'[t].batch.key
      <3>1. requests'[s] # q /\ requests'[t] # q
        BY <1>3, <2>2
      <3>2. QED BY <1>7, <2>2, <3>1 DEF StoreIInv, RequestsOK
    <2>3. QED BY <1>5, <2>1, <2>2 DEF RequestsOK
  <1>9. QED BY <1>6, <1>8 DEF StoreIInv

(* The key is looked up in the ledger. *)
LEMMA LookUpStep ==
  ASSUME StoreIInv, NEW r \in DOMAIN requests, LookUp(r)
  PROVE  StoreIInv'
  <1> DEFINE batch == requests[r].batch
             known == {e \in ledger : e.key = batch.key}
             e == CHOOSE x \in known : TRUE
  <1>1. /\ requests[r].phase = "received" /\ ledger' = ledger /\ rows' = rows
        /\ IF known # {} THEN answer(r, 200, e)
           ELSE requests' = [requests EXCEPT ![r].phase = "adding",
                                             ![r].ids = detectionIds(r, batch)]
    BY DEF LookUp
  <1>2. requests \in Seq(Request) /\ requests[r] \in Request /\ r \in Nat
    BY DEF StoreIInv, StoreTypes
  <1>3. CASE known # {}
    <2>1. e \in known
      BY <1>3
    <2>2. e \in ledger /\ e.key = batch.key
      BY <2>1
    <2>3. e \in Entry
      BY <2>2 DEF StoreIInv, StoreTypes
    <2> HIDE DEF e, known
    <2>4. answer(r, 200, e)
      BY <1>1, <1>3
    <2>5. /\ requests' \in Seq(Request) /\ DOMAIN requests' = DOMAIN requests
          /\ requests'[r].batch = batch /\ requests'[r].phase = "answered"
          /\ requests'[r].status = 200 /\ requests'[r].result = e
          /\ \A s \in DOMAIN requests : s # r => requests'[s] = requests[s]
      BY <1>2, <2>3, <2>4, AnswerFields
    <2>6. StoreTypes' /\ LedgerOK' /\ RowsOK'
      <3>1. StoreTypes'
        BY <1>1, <2>5 DEF StoreIInv, StoreTypes
      <3>2. LedgerOK' /\ RowsOK'
        BY <1>1 DEF StoreIInv, LedgerOK, RowsOK, StoredIn
      <3>3. QED BY <3>1, <3>2
    <2>7. \A s \in DOMAIN requests : requests'[s].status = 201 => s # r
      BY <2>5
    <2>8. ASSUME NEW s \in DOMAIN requests
          PROVE  /\ requests'[s].phase = "adding" =>
                      Len(requests'[s].ids) = Len(requests'[s].batch.detections)
                 /\ Told(s)' => /\ requests'[s].result \in ledger'
                                /\ requests'[s].result.key = requests'[s].batch.key
      <3>1. CASE s = r
        BY <1>1, <2>2, <2>5, <3>1
      <3>2. CASE s # r
        BY <1>1, <2>5, <3>2 DEF StoreIInv, RequestsOK, Told
      <3>3. QED BY <3>1, <3>2
    <2>9. RequestsOK'
      BY <2>5, <2>7, <2>8 DEF StoreIInv, RequestsOK
    <2>10. QED BY <2>6, <2>9 DEF StoreIInv
  <1>4. CASE known = {}
    <2> DEFINE ids == detectionIds(r, batch)
               q == [requests[r] EXCEPT !.phase = "adding", !.ids = ids]
    <2>1. ids \in Seq(Int) /\ Len(ids) = Len(batch.detections)
      BY <1>2, IdsType DEF Request
    <2> HIDE DEF ids
    <2>2. /\ q \in Request /\ q.phase = "adding" /\ q.ids = ids /\ q.batch = batch
          /\ q.status = requests[r].status /\ q.result = requests[r].result
      BY <1>2, <2>1, ZenonT(60) DEF Request
    <2>3. requests' = [requests EXCEPT ![r] = q]
      BY <1>1, <1>4 DEF ids
    <2> HIDE DEF q
    <2>4. /\ requests' \in Seq(Request) /\ DOMAIN requests' = DOMAIN requests
          /\ requests'[r] = q
          /\ \A s \in DOMAIN requests : s # r => requests'[s] = requests[s]
      BY <1>2, <2>2, <2>3
    <2>5. StoreTypes' /\ LedgerOK' /\ RowsOK'
      BY <1>1, <2>4 DEF StoreIInv, StoreTypes, LedgerOK, RowsOK, StoredIn
    <2>6. ASSUME NEW s \in DOMAIN requests
          PROVE  /\ requests'[s].status = requests[s].status
                 /\ requests'[s].result = requests[s].result
                 /\ requests'[s].batch = requests[s].batch
                 /\ requests'[s].phase = "adding" =>
                      Len(requests'[s].ids) = Len(requests'[s].batch.detections)
      <3>1. CASE s = r
        BY <2>1, <2>2, <2>4, <3>1
      <3>2. CASE s # r
        BY <2>4, <3>2 DEF StoreIInv, RequestsOK
      <3>3. QED BY <3>1, <3>2
    <2>7. RequestsOK'
      <3>1. RequestsOK
        BY DEF StoreIInv
      <3>2. \A s \in DOMAIN requests :
              /\ requests'[s].phase = "adding" =>
                   Len(requests'[s].ids) = Len(requests'[s].batch.detections)
              /\ Told(s)' => /\ requests'[s].result \in ledger'
                             /\ requests'[s].result.key = requests'[s].batch.key
        BY <1>1, <2>6, <3>1 DEF RequestsOK, Told
      <3>3. \A s, t \in DOMAIN requests :
              requests'[s].status = 201 /\ requests'[t].status = 201 /\ s # t
                => requests'[s].batch.key # requests'[t].batch.key
        BY <2>6, <3>1 DEF RequestsOK
      <3>4. QED BY <2>4, <3>2, <3>3 DEF RequestsOK
    <2>8. QED BY <2>5, <2>7 DEF StoreIInv
  <1>5. QED BY <1>3, <1>4

(* The rows and the ledger's entry are committed together. *)
LEMMA CommitStep ==
  ASSUME StoreIInv, NEW r \in DOMAIN requests, Commit(r)
  PROVE  StoreIInv'
  <1> DEFINE batch == requests[r].batch
             ids == requests[r].ids
             entry == [key |-> batch.key, ids |-> ids]
  <1>1. CASE conflict(batch, ids)
    <2>1. answer(r, 500, NoResult) /\ ledger' = ledger /\ rows' = rows
      BY <1>1 DEF Commit
    <2>2. QED BY <2>1, Refusal
  <1>2. CASE ~conflict(batch, ids)
    <2>1. /\ rows' = rows \cup rowsOf(batch, ids) /\ ledger' = ledger \cup {entry}
          /\ answer(r, 201, entry) /\ requests[r].phase = "adding"
      BY <1>2 DEF Commit
    <2>2. requests \in Seq(Request) /\ requests[r] \in Request
      BY DEF StoreIInv, StoreTypes
    <2>3. batch \in Batches /\ ids \in Seq(Int) /\ Len(ids) = Len(batch.detections)
      <3>1. batch \in Batches /\ ids \in Seq(Int)
        BY <2>2 DEF Request
      <3>2. Len(ids) = Len(batch.detections)
        BY <2>1 DEF StoreIInv, RequestsOK
      <3>3. QED BY <3>1, <3>2
    <2>4. entry \in Entry /\ entry.key = batch.key /\ entry.ids = ids
      BY <2>3 DEF Entry
    <2>5. /\ rowsOf(batch, ids) \subseteq Row
          /\ \A d \in rowsOf(batch, ids) : \E i \in 1..Len(ids) :
               d = [batch.detections[i] EXCEPT !.id = ids[i]] /\ d.id = ids[i]
          /\ \A i \in 1..Len(ids) : \E d \in rowsOf(batch, ids) : d.id = ids[i]
      <3> HIDE DEF batch, ids
      <3>1. QED BY <2>3, RowsType
    <2>6. /\ \A e \in ledger : e.key # batch.key
          /\ \A d \in rows : \A i \in 1..Len(ids) : d.id # ids[i]
          /\ \A i, j \in 1..Len(ids) : ids[i] = ids[j] => i = j
      <3>1. DOMAIN ids = 1..Len(ids)
        BY <2>3
      <3>2. batch.key \notin ledgerKeys /\ ToSet(ids) \cap {d.id : d \in rows} = {} /\ IsInjective(ids)
        BY <1>2 DEF conflict
      <3> HIDE DEF ids, batch
      <3>3. \A e \in ledger : e.key # batch.key
        BY <3>2 DEF ledgerKeys
      <3>4. \A i, j \in 1..Len(ids) : ids[i] = ids[j] => i = j
        BY <3>1, <3>2 DEF IsInjective
      <3>5. \A i \in 1..Len(ids) : ids[i] \in ToSet(ids)
        BY <3>1 DEF ToSet
      <3>6. \A d \in rows : \A i \in 1..Len(ids) : d.id # ids[i]
        BY <3>2, <3>5
      <3>7. QED BY <3>3, <3>4, <3>6
    <2>7. /\ requests' \in Seq(Request) /\ DOMAIN requests' = DOMAIN requests
          /\ requests'[r].batch = batch /\ requests'[r].phase = "answered"
          /\ requests'[r].status = 201 /\ requests'[r].result = entry
          /\ \A s \in DOMAIN requests : s # r => requests'[s] = requests[s]
      <3> HIDE DEF entry
      <3>1. QED BY <2>1, <2>2, <2>4, AnswerFields
    <2> HIDE DEF entry, batch, ids
    <2>8. StoreTypes'
      BY <2>1, <2>4, <2>5, <2>7 DEF StoreIInv, StoreTypes
    <2>9. \A e \in ledger : \A i \in 1..Len(e.ids) : \E d \in rows : d.id = e.ids[i]
      BY DEF StoreIInv, RowsOK
    <2>10. LedgerOK'
      <3>1. \A e \in ledger : StoredIn(rows', e)
        BY <2>1 DEF StoreIInv, LedgerOK, StoredIn
      <3>2. StoredIn(rows', entry)
        <4>1. rowsOf(batch, entry.ids) \subseteq rows'
          BY <2>1, <2>4
        <4>2. entry.key = batch.key /\ Len(entry.ids) = Len(batch.detections)
          BY <2>3, <2>4
        <4>3. QED BY <2>3, <4>1, <4>2, Zenon DEF StoredIn
      <3>3. \A e, f \in ledger' : e.key = f.key => e = f
        BY <2>1, <2>4, <2>6 DEF StoreIInv, LedgerOK
      <3>4. ASSUME NEW e \in ledger', NEW f \in ledger',
                   NEW i \in 1..Len(e.ids), NEW j \in 1..Len(f.ids), e.ids[i] = f.ids[j]
            PROVE  e = f /\ i = j
        <4>1. CASE e \in ledger /\ f \in ledger
          BY <3>4, <4>1 DEF StoreIInv, LedgerOK
        <4>2. CASE e \in ledger /\ f = entry
          BY <2>4, <2>6, <2>9, <3>4, <4>2
        <4>3. CASE e = entry /\ f \in ledger
          BY <2>4, <2>6, <2>9, <3>4, <4>3
        <4>4. CASE e = entry /\ f = entry
          BY <2>4, <2>6, <3>4, <4>4
        <4>5. QED BY <2>1, <4>1, <4>2, <4>3, <4>4
      <3>5. \A e \in ledger' : StoredIn(rows', e)
        BY <2>1, <3>1, <3>2
      <3>6. QED BY <3>3, <3>4, <3>5, Zenon DEF LedgerOK
    <2>11. RowsOK'
      <3>1. ASSUME NEW d \in rows'
            PROVE  \E e \in ledger' : \E i \in 1..Len(e.ids) : d.id = e.ids[i]
        <4>1. CASE d \in rows
          BY <2>1, <4>1 DEF StoreIInv, RowsOK
        <4>2. CASE d \in rowsOf(batch, ids)
          BY <2>1, <2>4, <2>5, <4>2
        <4>3. QED BY <2>1, <4>1, <4>2
      <3>2. ASSUME NEW e \in ledger', NEW i \in 1..Len(e.ids)
            PROVE  \E d \in rows' : d.id = e.ids[i]
        <4>1. CASE e \in ledger
          BY <2>1, <2>9, <4>1
        <4>2. CASE e = entry
          BY <2>1, <2>4, <2>5, <4>2
        <4>3. QED BY <2>1, <4>1, <4>2
      <3>3. ASSUME NEW d \in rows', NEW x \in rows', d.id = x.id PROVE d = x
        <4>1. CASE d \in rows /\ x \in rows
          BY <3>3, <4>1 DEF StoreIInv, RowsOK
        <4>2. CASE d \in rowsOf(batch, ids) /\ x \in rowsOf(batch, ids)
          BY <2>5, <2>6, <3>3, <4>2
        <4>3. CASE \/ d \in rows /\ x \in rowsOf(batch, ids)
                   \/ d \in rowsOf(batch, ids) /\ x \in rows
          BY <2>5, <2>6, <3>3, <4>3
        <4>4. QED BY <2>1, <4>1, <4>2, <4>3
      <3>4. QED BY <3>1, <3>2, <3>3 DEF RowsOK
    <2>12. RequestsOK'
      <3>1. ASSUME NEW s \in DOMAIN requests
            PROVE  /\ requests'[s].phase = "adding" =>
                        Len(requests'[s].ids) = Len(requests'[s].batch.detections)
                   /\ Told(s)' => /\ requests'[s].result \in ledger'
                                  /\ requests'[s].result.key = requests'[s].batch.key
        <4>1. CASE s = r
          BY <2>1, <2>4, <2>7, <4>1
        <4>2. CASE s # r
          BY <2>1, <2>7, <4>2 DEF StoreIInv, RequestsOK, Told
        <4>3. QED BY <4>1, <4>2
      <3>2. ASSUME NEW s \in DOMAIN requests, s # r, requests'[s].status = 201
            PROVE  requests'[s].batch.key # batch.key
        <4>1. requests[s].status = 201 /\ requests'[s] = requests[s]
          BY <2>7, <3>2
        <4>2. requests[s].result \in ledger /\ requests[s].result.key = requests[s].batch.key
          BY <4>1 DEF StoreIInv, RequestsOK, Told
        <4>3. QED BY <2>6, <4>1, <4>2
      <3>3. ASSUME NEW s \in DOMAIN requests, NEW t \in DOMAIN requests, s # t,
                   requests'[s].status = 201, requests'[t].status = 201
            PROVE  requests'[s].batch.key # requests'[t].batch.key
        <4>1. CASE s = r
          BY <2>7, <3>2, <3>3, <4>1
        <4>2. CASE t = r
          BY <2>7, <3>2, <3>3, <4>2
        <4>3. CASE s # r /\ t # r
          BY <2>7, <3>3, <4>3 DEF StoreIInv, RequestsOK
        <4>4. QED BY <4>1, <4>2, <4>3
      <3>4. QED BY <2>7, <3>1, <3>3 DEF RequestsOK
    <2>13. QED BY <2>8, <2>10, <2>11, <2>12 DEF StoreIInv
  <1>3. QED BY <1>1, <1>2

(* The invariant of the store. *)
LEMMA StoreInductive == Spec => []StoreIInv
  <1>1. Init => StoreIInv
    <2> SUFFICES ASSUME Init PROVE StoreIInv
      OBVIOUS
    <2>1. requests = <<>> /\ ledger = {} /\ rows = {}
      BY DEF Init, StoreInit
    <2>2. StoreTypes /\ LedgerOK /\ RowsOK /\ RequestsOK
      BY <2>1 DEF StoreTypes, LedgerOK, RowsOK, RequestsOK
    <2>3. QED BY <2>2 DEF StoreIInv
  <1>2. StoreIInv /\ [Next]_vars => StoreIInv'
    <2> SUFFICES ASSUME StoreIInv, [Next]_vars PROVE StoreIInv'
      OBVIOUS
    <2>1. CASE UNCHANGED storeVars
      BY <2>1 DEF storeVars, StoreIInv, StoreTypes, LedgerOK, RowsOK, RequestsOK, StoredIn, Told
    <2>2. CASE StoreNext
      <3>1. ASSUME NEW r \in DOMAIN requests, Abandon(r) PROVE StoreIInv'
        BY <3>1, Refusal DEF Abandon
      <3>2. QED BY <2>2, <3>1, PostStep, LookUpStep, CommitStep DEF StoreNext
    <2>3. QED BY <2>1, <2>2 DEF Next, vars
  <1>3. QED BY <1>1, <1>2, PTL DEF Spec

(* However often and concurrently a batch is posted, it is stored once or   *)
(* not at all, and whoever is told 200 or 201 holds the ledger's one result *)
(* for its key, with every detection it sent stored under the id it got.    *)
THEOREM IngestedOnce == Spec => []IngestOnce
  <1>1. StoreIInv => IngestOnce
    <2> SUFFICES ASSUME StoreIInv PROVE IngestOnce
      OBVIOUS
    <2>1. \A e \in ledger : e.ids \in Seq(Int) /\ DOMAIN e.ids = 1..Len(e.ids)
      BY DEF StoreIInv, StoreTypes, Entry
    <2>2. \A e, f \in ledger :
            /\ e.key = f.key => e = f
            /\ \A i \in DOMAIN e.ids, j \in DOMAIN f.ids :
                 e.ids[i] = f.ids[j] => e = f /\ i = j
      <3>1. LedgerOK
        BY DEF StoreIInv
      <3>2. ASSUME NEW e \in ledger, NEW f \in ledger
            PROVE  /\ e.key = f.key => e = f
                   /\ \A i \in 1..Len(e.ids), j \in 1..Len(f.ids) :
                        e.ids[i] = f.ids[j] => e = f /\ i = j
        BY <3>1, Zenon DEF LedgerOK
      <3>3. ASSUME NEW e \in ledger, NEW f \in ledger,
                   NEW i \in DOMAIN e.ids, NEW j \in DOMAIN f.ids, e.ids[i] = f.ids[j]
            PROVE  e = f /\ i = j
        <4>1. i \in 1..Len(e.ids) /\ j \in 1..Len(f.ids)
          BY <2>1
        <4>2. QED BY <3>2, <3>3, <4>1
      <3>4. QED BY <3>2, <3>3, Zenon
    <2>3. {d.id : d \in rows} = UNION {ToSet(e.ids) : e \in ledger}
      <3>1. \A e \in ledger : \A x : x \in ToSet(e.ids) <=> \E i \in 1..Len(e.ids) : x = e.ids[i]
        BY <2>1 DEF ToSet
      <3>2. ASSUME NEW x
            PROVE  x \in {d.id : d \in rows} <=> x \in UNION {ToSet(e.ids) : e \in ledger}
        <4>1. ASSUME NEW d \in rows, x = d.id PROVE \E e \in ledger : x \in ToSet(e.ids)
          BY <3>1, <4>1 DEF StoreIInv, RowsOK
        <4>2. ASSUME NEW e \in ledger, x \in ToSet(e.ids) PROVE \E d \in rows : x = d.id
          <5>1. PICK i \in 1..Len(e.ids) : x = e.ids[i]
            BY <3>1, <4>2
          <5>2. PICK d \in rows : d.id = e.ids[i]
            BY DEF StoreIInv, RowsOK
          <5>3. QED BY <5>1, <5>2
        <4>3. QED BY <4>1, <4>2
      <3>3. QED BY <3>2
    <2>4. \A d, x \in rows : d.id = x.id => d = x
      BY DEF StoreIInv, RowsOK
    <2>5. ASSUME NEW r \in DOMAIN requests, requests[r].status \in {200, 201}
          PROVE  /\ requests[r].result \in ledger
                 /\ requests[r].result.key = requests[r].batch.key
                 /\ rowsOf(requests[r].batch, requests[r].result.ids) \subseteq rows
      <3>1. requests[r].result \in ledger /\ requests[r].result.key = requests[r].batch.key
        BY <2>5 DEF StoreIInv, RequestsOK, Told
      <3>2. PICK b \in Batches : /\ requests[r].result.key = b.key
                                 /\ rowsOf(b, requests[r].result.ids) \subseteq rows
        BY <3>1 DEF StoreIInv, LedgerOK, StoredIn
      <3>3. requests[r].batch \in Batches
        <4>1. requests \in Seq(Request)
          BY DEF StoreIInv, StoreTypes
        <4>2. requests[r] \in Request
          BY <4>1
        <4>3. QED BY <4>2 DEF Request
      <3>4. b = requests[r].batch
        BY <3>1, <3>2, <3>3, BatchesAssumption
      <3>5. QED BY <3>1, <3>2, <3>4
    <2>6. QED BY <2>2, <2>3, <2>4, <2>5 DEF IngestOnce, StoreIInv, RequestsOK
  <1>2. QED BY <1>1, StoreInductive, PTL

-----------------------------------------------------------------------------
(* What a query finds.  A sort and a filter are both given by the place of  *)
(* each member in a finite set that a strict order arranges.                *)

(* The members of S up to d. *)
UpTo(S, before, d) == {e \in S : e = d \/ <<e, d>> \in before}

StrictOrder(S, before) ==
  /\ \A a \in S : <<a, a>> \notin before
  /\ \A a, b \in S : a = b \/ <<a, b>> \in before \/ <<b, a>> \in before
  /\ \A a, b, c \in S : <<a, b>> \in before /\ <<b, c>> \in before => <<a, c>> \in before

(* Each member of S has a place of its own, earlier ones the smaller places,*)
(* and every place is taken.                                                *)
LEMMA PlacesInOrder ==
  ASSUME NEW S, IsFiniteSet(S), NEW before, StrictOrder(S, before)
  PROVE  /\ Cardinality(S) \in Nat
         /\ \A d \in S : Cardinality(UpTo(S, before, d)) \in 1..Cardinality(S)
         /\ \A d, e \in S : <<d, e>> \in before =>
              Cardinality(UpTo(S, before, d)) < Cardinality(UpTo(S, before, e))
         /\ \A k \in 1..Cardinality(S) : \E d \in S : Cardinality(UpTo(S, before, d)) = k
  <1> DEFINE place(d) == Cardinality(UpTo(S, before, d))
             n == Cardinality(S)
  <1>1. n \in Nat
    BY FS_CardinalityType
  <1>2. ASSUME NEW d \in S
        PROVE  IsFiniteSet(UpTo(S, before, d)) /\ place(d) \in 1..n
    <2> DEFINE T == UpTo(S, before, d)
    <2>1. T \in SUBSET S /\ d \in T
      BY DEF UpTo
    <2> HIDE DEF T
    <2>2. IsFiniteSet(T) /\ Cardinality(T) <= n
      BY <2>1, FS_Subset
    <2>3. Cardinality(T) \in Nat /\ Cardinality(T) # 0
      BY <2>1, <2>2, FS_CardinalityType, FS_EmptySet
    <2>4. Cardinality(T) \in 1..n
      BY <1>1, <2>2, <2>3
    <2>5. QED BY <2>2, <2>4 DEF T
  <1>3. ASSUME NEW d \in S, NEW e \in S, <<d, e>> \in before PROVE place(d) < place(e)
    <2> DEFINE T == UpTo(S, before, d)
               U == UpTo(S, before, e)
    <2>1. \A x \in T : x \in U
      BY <1>3 DEF UpTo, StrictOrder
    <2>2. e \in U /\ e \notin T
      BY <1>3 DEF UpTo, StrictOrder
    <2>3. IsFiniteSet(U) /\ IsFiniteSet(T) /\ Cardinality(T) \in Nat /\ Cardinality(U) \in Nat
      BY <1>2, FS_CardinalityType
    <2> HIDE DEF T, U
    <2>4. Cardinality(T) <= Cardinality(U) /\ Cardinality(T) # Cardinality(U)
      BY <2>1, <2>2, <2>3, FS_Subset
    <2>5. Cardinality(T) < Cardinality(U)
      BY <2>3, <2>4
    <2>6. QED BY <2>5 DEF T, U
  <1>4. ASSUME NEW k \in 1..n PROVE \E d \in S : place(d) = k
    <2> DEFINE f == [d \in S |-> place(d)]
               K == 1..n
    <2> HIDE DEF n
    <2>1. f \in [S -> K]
      BY <1>2
    <2>2. ASSUME NEW d \in S, NEW e \in S, f[d] = f[e] PROVE d = e
      <3>1. place(d) = place(e) /\ place(d) \in Int /\ place(e) \in Int
        BY <1>2, <2>2
      <3>2. d = e \/ <<d, e>> \in before \/ <<e, d>> \in before
        BY DEF StrictOrder
      <3>3. QED BY <1>3, <3>1, <3>2
    <2>3. f \in Injection(S, K)
      BY <2>1, <2>2 DEF Injection, IsInjective
    <2>4. IsFiniteSet(K) /\ Cardinality(K) = n
      BY <1>1, FS_Interval
    <2>5. f \in Surjection(S, K)
      <3>1. Cardinality(K) = Cardinality(S)
        BY <2>4 DEF n
      <3> HIDE DEF f, K
      <3>2. QED BY <2>3, <2>4, <3>1, FS_Injection
    <2>6. \E d \in S : f[d] = k
      BY <2>5 DEF Surjection
    <2>7. QED BY <2>6
  <1>5. QED BY <1>1, <1>2, <1>3, <1>4

(* A sort lists the members of the set, each once, in their order. *)
LEMMA Sorted ==
  ASSUME NEW S, IsFiniteSet(S), NEW before, StrictOrder(S, before)
  PROVE  /\ inOrder(S, before) \in Seq(S) /\ Cardinality(S) \in Nat
         /\ Len(inOrder(S, before)) = Cardinality(S)
         /\ \A d \in S : \E k \in 1..Cardinality(S) : inOrder(S, before)[k] = d
         /\ \A j, k \in 1..Cardinality(S) : j < k =>
              <<inOrder(S, before)[j], inOrder(S, before)[k]>> \in before
  <1> DEFINE place(d) == Cardinality(UpTo(S, before, d))
             n == Cardinality(S)
             s == inOrder(S, before)
             at(k) == CHOOSE d \in S : place(d) = k
  <1>1. /\ n \in Nat /\ \A d \in S : place(d) \in 1..n
        /\ \A d, e \in S : <<d, e>> \in before => place(d) < place(e)
        /\ \A k \in 1..n : \E d \in S : place(d) = k
    BY PlacesInOrder
  <1>2. s = [k \in 1..n |-> at(k)]
    BY DEF inOrder, UpTo
  <1>3. \A k \in 1..n : at(k) \in S /\ place(at(k)) = k
    BY <1>1
  <1> HIDE DEF at, place, n, s
  <1>4. s \in Seq(S) /\ Len(s) = n /\ \A k \in 1..n : s[k] \in S /\ place(s[k]) = k
    BY <1>1, <1>2, <1>3
  <1>5. ASSUME NEW j \in 1..n, NEW k \in 1..n, j < k PROVE <<s[j], s[k]>> \in before
    <2>1. s[j] = s[k] \/ <<s[j], s[k]>> \in before \/ <<s[k], s[j]>> \in before
      BY <1>4 DEF StrictOrder
    <2>2. ~(<<s[k], s[j]>> \in before) /\ s[j] # s[k]
      BY <1>1, <1>4, <1>5
    <2>3. QED BY <2>1, <2>2
  <1>6. ASSUME NEW d \in S PROVE s[place(d)] = d /\ place(d) \in 1..n
    <2>1. place(d) \in 1..n
      BY <1>1
    <2>2. s[place(d)] \in S /\ place(s[place(d)]) = place(d)
      BY <1>4, <2>1
    <2>3. d = s[place(d)] \/ <<d, s[place(d)]>> \in before \/ <<s[place(d)], d>> \in before
      BY <2>2 DEF StrictOrder
    <2>4. QED BY <1>1, <2>1, <2>2, <2>3
  <1>7. QED BY <1>1, <1>4, <1>5, <1>6 DEF n, s

(* A filter keeps the entries of its places, each once, in their order. *)
LEMMA Filtered ==
  ASSUME NEW S, NEW s \in Seq(S), NEW places \in SUBSET (1..Len(s))
  PROVE  LET t == kept(s, places)
         IN  /\ t \in Seq(S) /\ Len(t) = Cardinality(places) /\ Len(t) \in Nat
             /\ \A p \in places : \E k \in 1..Len(t) : t[k] = s[p]
             /\ \A k \in 1..Len(t) : \E p \in places : t[k] = s[p]
             /\ \A j, k \in 1..Len(t) : j < k =>
                  \E p, q \in places : p < q /\ t[j] = s[p] /\ t[k] = s[q]
  <1> DEFINE before == {x \in places \X places : x[1] < x[2]}
             f == inOrder(places, before)
             n == Cardinality(places)
  <1>1. \A p \in places : p \in Int
    OBVIOUS
  <1>2. \A p, q \in places : <<p, q>> \in before <=> p < q
    OBVIOUS
  <1> HIDE DEF before
  <1>3. StrictOrder(places, before)
    BY <1>1, <1>2 DEF StrictOrder
  <1>4. IsFiniteSet(places)
    <2>1. IsFiniteSet(1..Len(s))
      <3>1. Len(s) \in Int /\ 1 \in Int
        OBVIOUS
      <3>2. QED BY <3>1, FS_Interval
    <2>2. QED BY <2>1, FS_Subset
  <1>5. /\ f \in Seq(places) /\ n \in Nat /\ Len(f) = n
        /\ \A p \in places : \E k \in 1..n : f[k] = p
        /\ \A j, k \in 1..n : j < k => <<f[j], f[k]>> \in before
    BY <1>3, <1>4, Sorted
  <1>6. \A p, q \in places : q = p \/ <<q, p>> \in before <=> q <= p
    BY <1>1, <1>2
  <1>7. kept(s, places) = [k \in 1..n |-> s[f[k]]]
    <2> DEFINE at(k) == CHOOSE p \in places : Cardinality({q \in places : q <= p}) = k
    <2>1. \A p \in places : {q \in places : q <= p}
                              = {q \in places : q = p \/ <<q, p>> \in before}
      BY <1>6
    <2>2. \A k : at(k) = CHOOSE p \in places :
                   Cardinality({q \in places : q = p \/ <<q, p>> \in before}) = k
      BY <2>1
    <2>3. \A k \in 1..n : f[k] = at(k)
      BY <2>2 DEF inOrder
    <2>4. kept(s, places) = [k \in 1..n |-> s[at(k)]]
      BY DEF kept
    <2> HIDE DEF at, f, n
    <2>5. QED BY <2>3, <2>4
  <1> HIDE DEF f, n
  <1>8. f \in [1..n -> places]
    BY <1>5
  <1>9. \A k \in 1..n : s[f[k]] \in S
    <2>1. \A p \in places : s[p] \in S
      OBVIOUS
    <2>2. QED BY <1>8, <2>1
  <1>10. kept(s, places) \in Seq(S) /\ Len(kept(s, places)) = n
    BY <1>5, <1>7, <1>9
  <1>11. \A j, k \in 1..n : j < k => f[j] < f[k]
    BY <1>2, <1>5, <1>8
  <1>12. \A k \in 1..n : kept(s, places)[k] = s[f[k]] /\ f[k] \in places
    BY <1>7, <1>8
  <1>13. \A p \in places : \E k \in 1..n : kept(s, places)[k] = s[p]
    BY <1>5, <1>12
  <1>14. \A j, k \in 1..n : j < k =>
           \E p, q \in places : p < q /\ kept(s, places)[j] = s[p] /\ kept(s, places)[k] = s[q]
    BY <1>11, <1>12
  <1> DEFINE t == kept(s, places)
  <1>15. t \in Seq(S) /\ Len(t) = n /\ n \in Nat
    BY <1>5, <1>10
  <1>16. \A k \in 1..n : \E p \in places : t[k] = s[p]
    BY <1>12
  <1> HIDE DEF t
  <1>17. /\ t \in Seq(S) /\ Len(t) = n /\ Len(t) \in Nat
         /\ \A p \in places : \E k \in 1..Len(t) : t[k] = s[p]
         /\ \A k \in 1..Len(t) : \E p \in places : t[k] = s[p]
         /\ \A j, k \in 1..Len(t) : j < k =>
              \E p, q \in places : p < q /\ t[j] = s[p] /\ t[k] = s[q]
    <2>1. \A p \in places : \E k \in 1..n : t[k] = s[p]
      BY <1>13 DEF t
    <2>2. \A j, k \in 1..n : j < k =>
              \E p, q \in places : p < q /\ t[j] = s[p] /\ t[k] = s[q]
      BY <1>14 DEF t
    <2>3. QED BY <1>15, <1>16, <2>1, <2>2, Zenon
  <1>18. QED BY <1>17, Zenon DEF t, n

(* The members of a list that has none twice are as many as its entries. *)
LEMMA ListedOnce ==
  ASSUME NEW S, NEW s \in Seq(S), \A j, k \in 1..Len(s) : j < k => s[j] # s[k]
  PROVE  IsFiniteSet(ToSet(s)) /\ Cardinality(ToSet(s)) = Len(s)
  <1> DEFINE n == Len(s)
             K == 1..n
             T == ToSet(s)
  <1>1. n \in Nat /\ DOMAIN s = K /\ s \in [K -> S]
    OBVIOUS
  <1>2. IsFiniteSet(K) /\ Cardinality(K) = n
    <2> HIDE DEF n
    <2>1. QED BY <1>1, FS_Interval
  <1>3. T = {s[k] : k \in K}
    BY <1>1 DEF ToSet
  <1>4. s \in [K -> T] /\ \A x \in T : \E k \in K : s[k] = x
    BY <1>1, <1>3
  <1>5. s \in Surjection(K, T)
    <2> HIDE DEF K, T
    <2>1. QED BY <1>4 DEF Surjection
  <1>6. \A j, k \in K : s[j] = s[k] => j = k
    <2>1. \A j, k \in K : j < k \/ k < j \/ j = k
      BY <1>1
    <2>2. QED BY <2>1
  <1>7. s \in Injection(K, T)
    <2> HIDE DEF K, T
    <2>1. DOMAIN s = K
      BY <1>1
    <2>2. IsInjective(s)
      BY <1>6, <2>1 DEF IsInjective
    <2>3. QED BY <1>4, <2>2 DEF Injection
  <1> HIDE DEF K, T
  <1>8. IsFiniteSet(T) /\ Cardinality(T) = Cardinality(K)
    BY <1>2, <1>5, <1>7, FS_Surjection
  <1>9. QED BY <1>2, <1>8 DEF T

(* At any time the table has finitely many rows. *)
FiniteTable == IsFiniteSet(rows)

LEMMA RowsFinite == Spec => []FiniteTable
  <1>1. Init => FiniteTable
    BY FS_EmptySet DEF Init, StoreInit, FiniteTable
  <1>2. ASSUME NEW b \in Batches, NEW ids PROVE IsFiniteSet(rowsOf(b, ids))
    <2> DEFINE n == Len(b.detections)
               row(i) == [b.detections[i] EXCEPT !.id = ids[i]]
               f == [i \in 1..n |-> row(i)]
               R == rowsOf(b, ids)
    <2>1. n \in Nat /\ DOMAIN b.detections = 1..n
      BY BatchFields
    <2>2. R = {row(i) : i \in 1..n}
      BY <2>1 DEF rowsOf
    <2> HIDE DEF row, R, n
    <2>3. f \in Surjection(1..n, R)
      BY <2>2 DEF Surjection
    <2>4. IsFiniteSet(1..n)
      BY <2>1, FS_Interval
    <2> HIDE DEF f
    <2>5. IsFiniteSet(R)
      BY <2>3, <2>4, FS_Surjection
    <2>6. QED BY <2>5 DEF R
  <1>3. StoreIInv /\ FiniteTable /\ [Next]_vars => FiniteTable'
    <2> SUFFICES ASSUME StoreIInv, IsFiniteSet(rows), [Next]_vars PROVE IsFiniteSet(rows')
      BY DEF FiniteTable
    <2>1. CASE rows' = rows
      BY <2>1
    <2>2. CASE rows' # rows
      <3>1. PICK r \in DOMAIN requests : Commit(r)
        BY <2>2 DEF Next, vars, storeVars, StoreNext, Post, LookUp, Abandon
      <3>2. rows' = rows \cup rowsOf(requests[r].batch, requests[r].ids)
        BY <2>2, <3>1 DEF Commit
      <3>3. requests[r].batch \in Batches
        <4>1. requests[r] \in Request
          BY DEF StoreIInv, StoreTypes
        <4>2. QED BY <4>1 DEF Request
      <3>4. IsFiniteSet(rowsOf(requests[r].batch, requests[r].ids))
        BY <1>2, <3>3
      <3>5. QED BY <3>2, <3>4, FS_Union
    <2>3. QED BY <2>1, <2>2
  <1>4. QED BY <1>1, <1>3, StoreInductive, PTL DEF Spec

(* What the database selects of the filters. *)
Scalars(d, q) ==
  /\ q.from = NoId \/ d.ts >= q.from
  /\ q.to = NoId \/ d.ts <= q.to
  /\ q.cls = NoId \/ d.cls = q.cls
  /\ q.minConf = NoId \/ d.conf >= q.minConf

(* The database applies each filter that is set, and no other. *)
LEMMA ScalarFilters ==
  ASSUME NEW table, NEW q
  PROVE  applyScalarFilters(table, q) = {d \in table : Scalars(d, q)}
  <1> DEFINE since == IF q.from = NoId THEN table ELSE {d \in table : d.ts >= q.from}
             until == IF q.to = NoId THEN since ELSE {d \in since : d.ts <= q.to}
             ofCls == IF q.cls = NoId THEN until ELSE {d \in until : d.cls = q.cls}
             found == IF q.minConf = NoId THEN ofCls ELSE {d \in ofCls : d.conf >= q.minConf}
  <1>1. applyScalarFilters(table, q) = found
    BY DEF applyScalarFilters
  <1>2. \A d : d \in since <=> d \in table /\ (q.from = NoId \/ d.ts >= q.from)
    OBVIOUS
  <1>3. \A d : d \in until <=> d \in since /\ (q.to = NoId \/ d.ts <= q.to)
    <2> HIDE DEF since
    <2>1. QED OBVIOUS
  <1>4. \A d : d \in ofCls <=> d \in until /\ (q.cls = NoId \/ d.cls = q.cls)
    <2> HIDE DEF until
    <2>1. QED OBVIOUS
  <1>5. \A d : d \in found <=> d \in ofCls /\ (q.minConf = NoId \/ d.conf >= q.minConf)
    <2> HIDE DEF ofCls
    <2>1. QED OBVIOUS
  <1> HIDE DEF since, until, ofCls, found
  <1>6. \A d : d \in found <=> d \in table /\ Scalars(d, q)
    BY <1>2, <1>3, <1>4, <1>5 DEF Scalars
  <1>7. found = {d \in table : Scalars(d, q)}
    BY <1>6
  <1>8. QED BY <1>1, <1>7

(* By time stamp, and by id when that is the same: the rows have one order. *)
LEMMA RowsOrdered ==
  ASSUME NEW S, S \subseteq Row, \A d, x \in S : d.id = x.id => d = x
  PROVE  /\ StrictOrder(S, {p \in S \X S : rowOrder(p[1], p[2])})
         /\ \A a, b \in S : <<a, b>> \in {p \in S \X S : rowOrder(p[1], p[2])}
              <=> rowOrder(a, b)
  <1> DEFINE before == {p \in S \X S : rowOrder(p[1], p[2])}
  <1>1. \A a, b \in S : <<a, b>> \in before <=> rowOrder(a, b)
    OBVIOUS
  <1>2. \A a \in S : a.id \in Int /\ a.ts \in Int
    BY DEF Row
  <1> HIDE DEF before
  <1>3. \A a \in S : <<a, a>> \notin before
    BY <1>1, <1>2 DEF rowOrder
  <1>4. \A a, b \in S : a = b \/ <<a, b>> \in before \/ <<b, a>> \in before
    <2> SUFFICES ASSUME NEW a \in S, NEW b \in S
                 PROVE  a = b \/ <<a, b>> \in before \/ <<b, a>> \in before
      OBVIOUS
    <2>1. a.ts < b.ts \/ b.ts < a.ts \/ a.ts = b.ts
      BY <1>2
    <2>2. a.id < b.id \/ b.id < a.id \/ a.id = b.id
      BY <1>2
    <2>3. QED BY <1>1, <2>1, <2>2 DEF rowOrder
  <1>5. \A a, b, c \in S : <<a, b>> \in before /\ <<b, c>> \in before => <<a, c>> \in before
    <2> SUFFICES ASSUME NEW a \in S, NEW b \in S, NEW c \in S,
                        rowOrder(a, b), rowOrder(b, c)
                 PROVE  rowOrder(a, c)
      BY <1>1
    <2>1. /\ a.ts \in Int /\ b.ts \in Int /\ c.ts \in Int
          /\ a.id \in Int /\ b.id \in Int /\ c.id \in Int
      BY <1>2
    <2>2. QED BY <2>1 DEF rowOrder
  <1>6. StrictOrder(S, before)
    BY <1>3, <1>4, <1>5 DEF StrictOrder
  <1>7. QED BY <1>1, <1>6 DEF before

(* A query returns the stored detections that meet every filter that is    *)
(* set, each once, oldest first.                                           *)
THEOREM QueriesExact == Spec => []QueryExact
  <1>1. ASSUME StoreIInv, IsFiniteSet(rows), NEW q
        PROVE  LET found == query_detections(q)
               IN  /\ ToSet(found) = {d \in rows : detection_matches(d, q)}
                   /\ Len(found) = Cardinality(ToSet(found))
                   /\ \A i \in 1..Len(found) - 1 : rowOrder(found[i], found[i + 1])
    <2> DEFINE S == applyScalarFilters(rows, q)
               before == {p \in S \X S : rowOrder(p[1], p[2])}
               sorted == inOrder(S, before)
               n == Cardinality(S)
               found == query_detections(q)
    <2>1. S = {d \in rows : Scalars(d, q)}
      BY ScalarFilters
    <2>2. S \subseteq Row /\ (\A d, x \in S : d.id = x.id => d = x) /\ IsFiniteSet(S)
      <3>1. S \in SUBSET rows
        BY <2>1
      <3>2. IsFiniteSet(S)
        <4> HIDE DEF S
        <4>1. QED BY <1>1, <3>1, FS_Subset
      <3>3. rows \subseteq Row /\ \A d, x \in rows : d.id = x.id => d = x
        BY <1>1 DEF StoreIInv, StoreTypes, RowsOK
      <3> HIDE DEF S
      <3>4. QED BY <3>1, <3>2, <3>3
    <2>2a. found = IF q.zone = NoId THEN sorted
                   ELSE kept(sorted, {i \in DOMAIN sorted :
                                        centroid_in_zone(sorted[i].obb, q.zone)})
      BY DEF query_detections
    <2> HIDE DEF S, found
    <2>3. /\ StrictOrder(S, before)
          /\ \A a, b \in S : <<a, b>> \in before <=> rowOrder(a, b)
      BY <2>2, RowsOrdered
    <2> HIDE DEF before
    <2>4. /\ sorted \in Seq(S) /\ n \in Nat /\ Len(sorted) = n
          /\ \A d \in S : \E k \in 1..n : sorted[k] = d
          /\ \A j, k \in 1..n : j < k => <<sorted[j], sorted[k]>> \in before
      BY <2>2, <2>3, Sorted
    <2> HIDE DEF sorted, n
    <2>5. /\ found \in Seq(S) /\ Len(found) \in Nat
          /\ \A d \in S : (q.zone = NoId \/ centroid_in_zone(d.obb, q.zone))
               <=> \E k \in 1..Len(found) : found[k] = d
          /\ \A j, k \in 1..Len(found) : j < k => <<found[j], found[k]>> \in before
      <3>1. CASE q.zone = NoId
        BY <2>2a, <2>4, <3>1
      <3>2. CASE q.zone # NoId
        <4> DEFINE places == {i \in DOMAIN sorted : centroid_in_zone(sorted[i].obb, q.zone)}
        <4>1. found = kept(sorted, places)
          BY <2>2a, <3>2
        <4>2. places \in SUBSET (1..Len(sorted)) /\ DOMAIN sorted = 1..n
          BY <2>4
        <4>3. \A p \in 1..n : p \in places <=> centroid_in_zone(sorted[p].obb, q.zone)
          BY <4>2
        <4> HIDE DEF places
        <4>4. /\ found \in Seq(S) /\ Len(found) \in Nat
              /\ \A p \in places : \E k \in 1..Len(found) : found[k] = sorted[p]
              /\ \A k \in 1..Len(found) : \E p \in places : found[k] = sorted[p]
              /\ \A j, k \in 1..Len(found) : j < k =>
                   \E p, x \in places : p < x /\ found[j] = sorted[p] /\ found[k] = sorted[x]
          <5> DEFINE t == kept(sorted, places)
          <5>1. /\ t \in Seq(S) /\ Len(t) = Cardinality(places) /\ Len(t) \in Nat
                /\ \A p \in places : \E k \in 1..Len(t) : t[k] = sorted[p]
                /\ \A k \in 1..Len(t) : \E p \in places : t[k] = sorted[p]
                /\ \A j, k \in 1..Len(t) : j < k =>
                     \E p, x \in places : p < x /\ t[j] = sorted[p] /\ t[k] = sorted[x]
            BY <2>4, <4>2, Filtered, ZenonT(60)
          <5>2. found = t
            BY <4>1
          <5> HIDE DEF t
          <5> HIDE DEF places
          <5>3. found \in Seq(S) /\ Len(found) \in Nat
            BY <5>1, <5>2
          <5>4. \A p \in places : \E k \in 1..Len(found) : found[k] = sorted[p]
            BY <5>1, <5>2
          <5>5. \A k \in 1..Len(found) : \E p \in places : found[k] = sorted[p]
            BY <5>1, <5>2
          <5>6. \A j, k \in 1..Len(found) : j < k =>
                  \E p, x \in places : p < x /\ found[j] = sorted[p] /\ found[k] = sorted[x]
            <6>1. \A j, k \in 1..Len(t) : j < k =>
                    \E p, x \in places : p < x /\ t[j] = sorted[p] /\ t[k] = sorted[x]
              BY <5>1, Zenon
            <6> SUFFICES ASSUME NEW j \in 1..Len(found), NEW k \in 1..Len(found), j < k
                         PROVE  \E p, x \in places :
                                  p < x /\ found[j] = sorted[p] /\ found[k] = sorted[x]
              OBVIOUS
            <6>2. PICK p \in places, x \in places :
                    p < x /\ t[j] = sorted[p] /\ t[k] = sorted[x]
              BY <5>2, <6>1
            <6>3. QED BY <5>2, <6>2
          <5>7. QED BY <5>3, <5>4, <5>5, <5>6, Zenon
        <4>5. \A j, k \in 1..Len(found) : j < k => <<found[j], found[k]>> \in before
          <5> SUFFICES ASSUME NEW j \in 1..Len(found), NEW k \in 1..Len(found), j < k
                       PROVE  <<found[j], found[k]>> \in before
            OBVIOUS
          <5>1. PICK p \in places, x \in places :
                  p < x /\ found[j] = sorted[p] /\ found[k] = sorted[x]
            BY <4>4, Zenon
          <5>2. p \in 1..n /\ x \in 1..n
            BY <4>2, <2>4
          <5>3. <<sorted[p], sorted[x]>> \in before
            BY <2>4, <5>1, <5>2
          <5>4. QED BY <5>1, <5>3
        <4>6. ASSUME NEW d \in S
              PROVE  centroid_in_zone(d.obb, q.zone) <=> \E k \in 1..Len(found) : found[k] = d
          <5>1. PICK p \in 1..n : sorted[p] = d
            BY <2>4
          <5>2. ASSUME centroid_in_zone(d.obb, q.zone)
                PROVE  \E k \in 1..Len(found) : found[k] = d
            BY <4>3, <4>4, <5>1, <5>2
          <5>3. ASSUME NEW k \in 1..Len(found), found[k] = d
                PROVE  centroid_in_zone(d.obb, q.zone)
            <6>1. PICK y \in places : found[k] = sorted[y]
              BY <4>4, Zenon
            <6>2. y \in 1..n
              BY <4>2, <2>4
            <6>3. QED BY <4>3, <5>3, <6>1, <6>2
          <5>4. QED BY <5>2, <5>3
        <4>7. QED BY <3>2, <4>4, <4>5, <4>6
      <3>3. QED BY <3>1, <3>2
    <2>6. \A k \in 1..Len(found) : found[k] \in S
      BY <2>5
    <2>7. \A d : d \in ToSet(found) <=> \E k \in 1..Len(found) : found[k] = d
      <3>1. DOMAIN found = 1..Len(found)
        BY <2>5
      <3>2. QED BY <3>1 DEF ToSet
    <2>8. ASSUME NEW d
          PROVE  d \in ToSet(found) <=> d \in {x \in rows : detection_matches(x, q)}
      <3>1. d \in {x \in rows : detection_matches(x, q)}
              <=> d \in S /\ (q.zone = NoId \/ centroid_in_zone(d.obb, q.zone))
        BY <2>1 DEF detection_matches, Scalars
      <3>2. QED BY <2>5, <2>6, <2>7, <3>1
    <2>9. Len(found) = Cardinality(ToSet(found))
      <3>1. \A j, k \in 1..Len(found) : j < k => found[j] # found[k]
        BY <2>3, <2>5, <2>6 DEF StrictOrder
      <3>2. QED BY <2>5, <3>1, ListedOnce
    <2>10. \A i \in 1..Len(found) - 1 : rowOrder(found[i], found[i + 1])
      <3> SUFFICES ASSUME NEW i \in 1..Len(found) - 1 PROVE rowOrder(found[i], found[i + 1])
        OBVIOUS
      <3>1. i \in 1..Len(found) /\ i + 1 \in 1..Len(found) /\ i < i + 1
        BY <2>5
      <3>2. QED BY <2>3, <2>5, <2>6, <3>1
    <2>11. QED BY <2>8, <2>9, <2>10 DEF found
  <1>2. StoreIInv /\ FiniteTable => QueryExact
    BY <1>1 DEF QueryExact, FiniteTable
  <1>3. QED BY <1>2, StoreInductive, RowsFinite, PTL

-----------------------------------------------------------------------------
(* Loops.  A LET function is a choice among the functions its equation      *)
(* holds of; that there is one, and what it computes, is an argument by     *)
(* least counterexample.                                                    *)

(* Every nonempty set of naturals has a least member. *)
LEMMA LeastMember ==
  ASSUME NEW T, T \subseteq Nat, T # {}
  PROVE  \E n \in T : \A m \in T : n <= m
  <1>1. PICK n \in T : \A m \in T : ~(<<m, n>> \in OpToRel(<, Nat))
    BY WFMin, NatLessThanWellFounded, Zenon
  <1>2. \A m \in T : ~(m < n)
    <2> SUFFICES ASSUME NEW m \in T PROVE ~(m < n)
      OBVIOUS
    <2>1. <<m, n>> \in Nat \X Nat /\ <<m, n>>[1] = m /\ <<m, n>>[2] = n
      OBVIOUS
    <2>2. QED BY <1>1, <2>1, Zenon DEF OpToRel
  <1>3. QED BY <1>2

(* Recursion over the numbers up to k. *)
Unfolds(f, V, base, k, step) ==
  /\ f \in [0..k -> V]
  /\ f[0] = base /\ \A n \in 1..k : f[n] = step[<<n, f[n - 1]>>]

(* A function that the equations describe exists: a set of numbers up to    *)
(* which there is none would have a least member.                           *)
LEMMA Recursion ==
  ASSUME NEW V, NEW base \in V, NEW k \in Nat, NEW step \in [(1..k) \X V -> V]
  PROVE  \E f : Unfolds(f, V, base, k, step)
  <1> DEFINE Upto(f, m) == f[0] = base /\ \A n \in 1..m : f[n] = step[<<n, f[n - 1]>>]
             T == {m \in 0..k : ~\E f \in [0..m -> V] : Upto(f, m)}
  <1>1. SUFFICES ASSUME T # {} PROVE FALSE
    <2>0. T = {}
      BY <1>1, Zenon
    <2>1. k \in 0..k
      OBVIOUS
    <2>1a. k \notin T
      BY <2>0, Zenon
    <2>2. PICK f \in [0..k -> V] : Upto(f, k)
      BY <2>1, <2>1a
    <2>3. Unfolds(f, V, base, k, step)
      BY <2>2 DEF Unfolds
    <2>4. QED BY <2>3
  <1>2. PICK m \in T : \A x \in T : m <= x
    <2>1. T \subseteq Nat
      OBVIOUS
    <2> HIDE DEF T
    <2>2. QED BY <1>1, <2>1, LeastMember
  <1>3. CASE m = 0
    <2>1. Upto([n \in 0..0 |-> base], 0)
      OBVIOUS
    <2>2. [n \in 0..0 |-> base] \in [0..0 -> V]
      OBVIOUS
    <2>3. QED BY <1>3, <2>1, <2>2
  <1>4. CASE m # 0
    <2>1. m \in 1..k /\ m - 1 \in 0..k /\ m - 1 \notin T
      BY <1>2, <1>4
    <2>2. PICK f \in [0..m - 1 -> V] : Upto(f, m - 1)
      BY <2>1
    <2> DEFINE g == [n \in 0..m |-> IF n = m THEN step[<<m, f[m - 1]>>] ELSE f[n]]
    <2>3. f[m - 1] \in V
      BY <2>1
    <2>4. step[<<m, f[m - 1]>>] \in V
      BY <2>1, <2>3
    <2>5. g \in [0..m -> V]
      BY <2>1, <2>4
    <2>6. Upto(g, m)
      <3>1. g[0] = base
        BY <1>4, <2>1, <2>2
      <3>2. ASSUME NEW n \in 1..m PROVE g[n] = step[<<n, g[n - 1]>>]
        <4>1. g[n - 1] = f[n - 1]
          BY <2>1
        <4>2. CASE n = m
          <5>1. g[m] = step[<<m, f[m - 1]>>] /\ f[n - 1] = f[m - 1]
            BY <2>1, <4>2
          <5>2. QED BY <4>1, <4>2, <5>1
        <4>3. CASE n # m
          <5>1. n \in 1..m - 1 /\ g[n] = f[n]
            BY <2>1, <4>3
          <5>2. QED BY <2>2, <4>1, <5>1
        <4>4. QED BY <4>2, <4>3
      <3>3. QED BY <3>1, <3>2
    <2> HIDE DEF g
    <2>7. QED BY <1>2, <2>5, <2>6
  <1>5. QED BY <1>3, <1>4

-----------------------------------------------------------------------------
(* Stitching: the types. *)

Box == [cx : Int, cy : Int, w : Int, h : Int]

(* A detection of a frame. *)
Observation == [id : Nat, ts : Nat, cls : STRING, conf : Int, obb : Box]

Track == [id : Nat, cls : STRING, obb : Box, last : Nat, vx : Int, vy : Int]

Stitch == [assigned : Seq(Track), matched : SUBSET Nat, assignment : SUBSET (Nat \X Nat)]

(* The scan ends with a candidate or with none. *)
LEMMA BestIsCandidate ==
  ASSUME NEW act \in Seq(Track), NEW det, NEW dt, NEW matched
  PROVE  best(act, det, dt, matched) \in {0} \cup candidates(act, det, dt, matched)
  <1> DEFINE c == candidates(act, det, dt, matched)
             iou(i) == obb_iou(det.obb, predict(act[i], dt))
             k == Len(act)
             V == {0} \cup c
             takes(i, j) == i \in c /\ (j = 0 \/ greater(iou(i), iou(j)))
             body(f) == [i \in 0..k |->
                           IF i = 0 THEN 0
                           ELSE IF takes(i, f[i - 1]) THEN i ELSE f[i - 1]]
             scan == CHOOSE f : f = body(f)
             step == [p \in (1..k) \X V |-> IF takes(p[1], p[2]) THEN p[1] ELSE p[2]]
  <1>1. best(act, det, dt, matched) = scan[k]
    BY DEF best
  <1>2. k \in Nat
    OBVIOUS
  <1>3. \A i, j : takes(i, j) => i \in c
    OBVIOUS
  <1>4. V = {0} \cup c
    OBVIOUS
  <1> HIDE DEF c, takes, k, V
  <1>5. \E f : f = body(f)
    <2>1. step \in [(1..k) \X V -> V]
      <3>1. \A p \in (1..k) \X V : p[2] \in V
        OBVIOUS
      <3>2. QED BY <1>3, <1>4, <3>1
    <2> HIDE DEF step
    <2>2. PICK f : Unfolds(f, V, 0, k, step)
      <3>1. 0 \in V
        BY <1>4
      <3>2. QED BY <1>2, <2>1, <3>1, Recursion
    <2>3. ASSUME NEW n \in 0..k
          PROVE  f[n] = IF n = 0 THEN 0 ELSE IF takes(n, f[n - 1]) THEN n ELSE f[n - 1]
      <3>1. CASE n = 0
        BY <2>2, <3>1 DEF Unfolds
      <3>2. CASE n # 0
        <4>1. n \in 1..k /\ f[n - 1] \in V
          BY <1>2, <2>2, <3>2 DEF Unfolds
        <4>2. /\ <<n, f[n - 1]>> \in (1..k) \X V /\ <<n, f[n - 1]>>[1] = n
              /\ <<n, f[n - 1]>>[2] = f[n - 1]
          BY <4>1
        <4>3. step[<<n, f[n - 1]>>] = IF takes(n, f[n - 1]) THEN n ELSE f[n - 1]
          BY <4>2 DEF step
        <4>4. QED BY <2>2, <3>2, <4>1, <4>3 DEF Unfolds
      <3>3. QED BY <3>1, <3>2
    <2>4. f = body(f)
      BY <2>2, <2>3 DEF Unfolds
    <2>5. QED BY <2>4
  <1>6. scan = body(scan)
    BY <1>5
  <1> HIDE DEF scan
  <1>7. \A n \in 0..k : scan[n] = IF n = 0 THEN 0
                                  ELSE IF takes(n, scan[n - 1]) THEN n ELSE scan[n - 1]
    BY <1>6
  <1>8. scan[k] \in V
    <2> DEFINE T == {n \in 0..k : scan[n] \notin V}
    <2>1. SUFFICES ASSUME T # {} PROVE FALSE
      BY <1>2, <2>1
    <2>2. PICK m \in T : \A x \in T : m <= x
      <3>1. T \subseteq Nat
        OBVIOUS
      <3> HIDE DEF T
      <3>2. QED BY <2>1, <3>1, LeastMember
    <2>3. m # 0
      BY <1>4, <1>7, <2>2
    <2>4. m - 1 \in 0..k /\ scan[m - 1] \in V
      BY <1>2, <2>2, <2>3
    <2>5. scan[m] \in V
      BY <1>3, <1>4, <1>7, <2>2, <2>3, <2>4
    <2>6. QED BY <2>2, <2>5
  <1>9. QED BY <1>1, <1>4, <1>8 DEF c

(* What one detection's turn does with a track. *)
LEMMA TrackFields ==
  ASSUME NEW det \in Observation, NEW dt \in Nat
  PROVE  /\ newTrack(det) \in Track /\ newTrack(det).id = det.id
         /\ newTrack(det).cls = det.cls /\ newTrack(det).last = det.ts
         /\ \A t \in Track : /\ observed(t, det, dt) \in Track
                             /\ observed(t, det, dt).id = t.id
                             /\ observed(t, det, dt).cls = t.cls
                             /\ observed(t, det, dt).last = det.ts
  <1>1. /\ det.id \in Nat /\ det.ts \in Nat /\ det.cls \in STRING /\ det.obb \in Box
        /\ det.obb.cx \in Int /\ det.obb.cy \in Int
    BY DEF Observation, Box
  <1>2. newTrack(det) \in Track
    BY <1>1 DEF newTrack, Track
  <1>3. ASSUME NEW t \in Track
        PROVE  /\ observed(t, det, dt) \in Track
               /\ observed(t, det, dt).id = t.id
               /\ observed(t, det, dt).cls = t.cls
               /\ observed(t, det, dt).last = det.ts
    <2> DEFINE x == IF dt > 0 THEN (det.obb.cx - t.obb.cx) \div dt ELSE t.vx
               y == IF dt > 0 THEN (det.obb.cy - t.obb.cy) \div dt ELSE t.vy
    <2>1. /\ t.id \in Nat /\ t.cls \in STRING /\ t.vx \in Int /\ t.vy \in Int
          /\ t.obb.cx \in Int /\ t.obb.cy \in Int
      BY DEF Track, Box
    <2>2. x \in Int /\ y \in Int
      BY <1>1, <2>1
    <2>3. observed(t, det, dt) = [t EXCEPT !.obb = det.obb, !.last = det.ts, !.vx = x, !.vy = y]
      BY DEF observed
    <2> HIDE DEF x, y
    <2>4. QED BY <1>1, <2>1, <2>2, <2>3 DEF Track
  <1>4. QED BY <1>2, <1>3 DEF newTrack

-----------------------------------------------------------------------------
(* The detections' turns, one after the other: what holds when the first n  *)
(* of the order have had theirs.  The active tracks stay in place, those    *)
(* matched seen now, the others as they were; new ones follow, one for a    *)
(* detection; and no two detections have the same track.                    *)
Associated(act, order, at, n, acc) ==
  /\ acc \in Stitch /\ Len(acc.assigned) >= Len(act)
  /\ \A i \in 1..Len(act) :
       /\ acc.assigned[i].id = act[i].id /\ acc.assigned[i].cls = act[i].cls
       /\ act[i].id \in acc.matched => acc.assigned[i].last = at
       /\ act[i].id \notin acc.matched => acc.assigned[i] = act[i]
  /\ \A i \in Len(act) + 1..Len(acc.assigned) :
       acc.assigned[i].last = at /\ \E m \in 1..n : acc.assigned[i].id = order[m].id
  /\ \A i, j \in 1..Len(acc.assigned) : acc.assigned[i].id = acc.assigned[j].id => i = j
  /\ \A i \in 1..Len(acc.assigned) :
       i > Len(act) \/ acc.assigned[i].id \in acc.matched
         => \E a \in acc.assignment : a[2] = acc.assigned[i].id
  /\ \A a \in acc.assignment :
       \E m \in 1..n : \E i \in 1..Len(acc.assigned) :
         /\ a[1] = order[m].id /\ a[2] = acc.assigned[i].id
         /\ acc.assigned[i].cls = order[m].cls
         /\ i > Len(act) \/ a[2] \in acc.matched
  /\ \A a, b \in acc.assignment : a[2] = b[2] => a = b

(* A frame's detections in the order of their turns, and the active tracks. *)
FrameOK(act, order, at) ==
  /\ act \in Seq(Track) /\ order \in Seq(Observation)
  /\ \A i, j \in 1..Len(act) : act[i].id = act[j].id => i = j
  /\ \A j, k \in 1..Len(order) : order[j].id = order[k].id => j = k
  /\ \A i \in 1..Len(act), k \in 1..Len(order) : act[i].id # order[k].id
  /\ \A k \in 1..Len(order) : order[k].ts = at

(* A turn's effect: either track i is seen again, or a track is new. *)
Taken(act, acc, det, dt, after) ==
  /\ after \in Stitch
  /\ \/ \E i \in 1..Len(act) :
          /\ act[i].id \notin acc.matched /\ act[i].cls = det.cls
          /\ after.assigned = [acc.assigned EXCEPT ![i] = observed(@, det, dt)]
          /\ after.matched = acc.matched \cup {act[i].id}
          /\ after.assignment = acc.assignment \cup {<<det.id, act[i].id>>}
     \/ /\ after.assigned = Append(acc.assigned, newTrack(det))
        /\ after.matched = acc.matched
        /\ after.assignment = acc.assignment \cup {<<det.id, det.id>>}

(* That is what a turn does. *)
LEMMA Turn ==
  ASSUME NEW act \in Seq(Track), NEW acc \in Stitch, NEW det \in Observation, NEW dt \in Nat
  PROVE  Taken(act, acc, det, dt, associate(act, dt, acc, det))
  <1> DEFINE i == best(act, det, dt, acc.matched)
             after == associate(act, dt, acc, det)
  <1>1. /\ acc.assigned \in Seq(Track) /\ acc.matched \in SUBSET Nat
        /\ acc.assignment \in SUBSET (Nat \X Nat)
        /\ acc = [assigned |-> acc.assigned, matched |-> acc.matched,
                  assignment |-> acc.assignment]
    BY DEF Stitch
  <1>2. det.id \in Nat
    BY DEF Observation
  <1>3. i \in {0} \cup candidates(act, det, dt, acc.matched)
    BY BestIsCandidate
  <1>4. CASE i # 0
    <2>1. i \in 1..Len(act) /\ act[i].id \notin acc.matched /\ act[i].cls = det.cls
      BY <1>3, <1>4 DEF candidates
    <2>2. after = [assigned   |-> [acc.assigned EXCEPT ![i] = observed(@, det, dt)],
                   matched    |-> acc.matched \cup {act[i].id},
                   assignment |-> acc.assignment \cup {<<det.id, act[i].id>>}]
      BY <1>4 DEF associate
    <2> HIDE DEF i, after
    <2>3. [acc.assigned EXCEPT ![i] = observed(@, det, dt)] \in Seq(Track)
      <3> DEFINE s == acc.assigned
      <3>1. s \in Seq(Track)
        BY <1>1
      <3> HIDE DEF s
      <3>2. CASE i \in 1..Len(s)
        <4>1. observed(s[i], det, dt) \in Track
          BY <3>1, <3>2, TrackFields
        <4>2. QED BY <3>1, <3>2, <4>1 DEF s
      <3>3. CASE i \notin 1..Len(s)
        <4>1. [s EXCEPT ![i] = observed(@, det, dt)] = s
          BY <3>1, <3>3
        <4>2. QED BY <3>1, <4>1 DEF s
      <3>4. QED BY <3>2, <3>3
    <2>4. act[i].id \in Nat
      <3>1. act[i] \in Track
        BY <2>1
      <3>2. QED BY <3>1 DEF Track
    <2>5. /\ acc.matched \cup {act[i].id} \in SUBSET Nat
          /\ acc.assignment \cup {<<det.id, act[i].id>>} \in SUBSET (Nat \X Nat)
      BY <1>1, <1>2, <2>4
    <2>6. after \in Stitch
      BY <2>2, <2>3, <2>5 DEF Stitch
    <2>7. /\ after.assigned = [acc.assigned EXCEPT ![i] = observed(@, det, dt)]
          /\ after.matched = acc.matched \cup {act[i].id}
          /\ after.assignment = acc.assignment \cup {<<det.id, act[i].id>>}
      BY <2>2
    <2>8. QED BY <2>1, <2>6, <2>7, Zenon DEF after, Taken
  <1>5. CASE i = 0
    <2>1. after = [acc EXCEPT !.assigned = Append(@, newTrack(det)),
                              !.assignment = @ \cup {<<det.id, det.id>>}]
      BY <1>5 DEF associate
    <2> HIDE DEF i, after
    <2>2. /\ after.assigned = Append(acc.assigned, newTrack(det))
          /\ after.matched = acc.matched
          /\ after.assignment = acc.assignment \cup {<<det.id, det.id>>}
          /\ after = [assigned |-> after.assigned, matched |-> after.matched,
                      assignment |-> after.assignment]
      BY <1>1, <2>1
    <2>3. Append(acc.assigned, newTrack(det)) \in Seq(Track)
      BY <1>1, TrackFields
    <2>4. acc.assignment \cup {<<det.id, det.id>>} \in SUBSET (Nat \X Nat)
      BY <1>1, <1>2
    <2>5. after \in Stitch
      BY <1>1, <2>2, <2>3, <2>4 DEF Stitch
    <2>6. QED BY <2>2, <2>5, Zenon DEF after, Taken
  <1>6. QED BY <1>4, <1>5

(* A track matched: nothing moves, and the detection is the track's only    *)
(* one of this frame.                                                       *)
LEMMA TurnSeesAgain ==
  ASSUME NEW act, NEW order, NEW at, FrameOK(act, order, at), NEW dt \in Nat,
         NEW n \in 0..Len(order) - 1, NEW acc, Associated(act, order, at, n, acc),
         NEW after \in Stitch, NEW i \in 1..Len(act),
         act[i].id \notin acc.matched, act[i].cls = order[n + 1].cls,
         after.assigned = [acc.assigned EXCEPT ![i] = observed(@, order[n + 1], dt)],
         after.matched = acc.matched \cup {act[i].id},
         after.assignment = acc.assignment \cup {<<order[n + 1].id, act[i].id>>}
  PROVE  Associated(act, order, at, n + 1, after)
  <1> DEFINE det == order[n + 1]
             s == acc.assigned
             t == after.assigned
  <1>0. /\ act \in Seq(Track) /\ order \in Seq(Observation) /\ Len(act) \in Nat /\ Len(order) \in Nat
        /\ n \in Nat /\ n + 1 \in 1..Len(order) /\ n + 1 \in Nat
    BY DEF FrameOK
  <1>1. det \in Observation /\ det.ts = at
    BY <1>0 DEF FrameOK
  <1>2. s \in Seq(Track) /\ Len(s) \in Nat /\ Len(s) >= Len(act) /\ i \in 1..Len(s)
    BY <1>0 DEF Associated, Stitch
  <1>3. s[i] \in Track
    BY <1>2
  <1>4. /\ Len(t) = Len(s) /\ t[i] = observed(s[i], det, dt)
        /\ \A j \in 1..Len(s) : j # i => t[j] = s[j]
    <2>1. t = [s EXCEPT ![i] = observed(@, det, dt)]
      OBVIOUS
    <2> HIDE DEF s, t, det
    <2>2. QED BY <1>2, <2>1
  <1>5. t[i].id = s[i].id /\ t[i].cls = s[i].cls /\ t[i].last = at
    <2> HIDE DEF s, t, det
    <2>1. QED BY <1>1, <1>3, <1>4, TrackFields
  <1>6. \A j \in 1..Len(s) : t[j].id = s[j].id /\ t[j].cls = s[j].cls
    BY <1>4, <1>5
  <1>7. /\ \A j \in 1..Len(act) : /\ s[j].id = act[j].id /\ s[j].cls = act[j].cls
                                  /\ act[j].id \in acc.matched => s[j].last = at
                                  /\ act[j].id \notin acc.matched => s[j] = act[j]
        /\ \A j \in Len(act) + 1..Len(s) :
             s[j].last = at /\ \E m \in 1..n : s[j].id = order[m].id
        /\ \A j, k \in 1..Len(s) : s[j].id = s[k].id => j = k
        /\ \A j \in 1..Len(s) : j > Len(act) \/ s[j].id \in acc.matched
             => \E a \in acc.assignment : a[2] = s[j].id
        /\ \A a \in acc.assignment :
             \E m \in 1..n : \E j \in 1..Len(s) :
               /\ a[1] = order[m].id /\ a[2] = s[j].id /\ s[j].cls = order[m].cls
               /\ j > Len(act) \/ a[2] \in acc.matched
        /\ \A a, b \in acc.assignment : a[2] = b[2] => a = b
    BY DEF Associated
  <1>8. \A j \in 1..Len(act) : j \in 1..Len(s) /\ (act[j].id = act[i].id => j = i)
    BY <1>0, <1>2 DEF FrameOK
  <1>9. \A m \in 1..n : m \in 1..n + 1
    BY <1>0
  <1>10. after.matched = acc.matched \cup {act[i].id}
    OBVIOUS
  <1>11. after.assignment = acc.assignment \cup {<<det.id, act[i].id>>}
    OBVIOUS
  <1> HIDE DEF s, t
  <1>12. ASSUME NEW j \in 1..Len(act)
         PROVE  /\ t[j].id = act[j].id /\ t[j].cls = act[j].cls
                /\ act[j].id \in after.matched => t[j].last = at
                /\ act[j].id \notin after.matched => t[j] = act[j]
    <2>1. CASE j = i
      BY <1>5, <1>6, <1>7, <1>8, <1>10, <2>1
    <2>2. CASE j # i
      <3>1. t[j] = s[j] /\ act[j].id # act[i].id
        BY <1>4, <1>8, <2>2
      <3>2. QED BY <1>7, <1>10, <3>1
    <2>3. QED BY <2>1, <2>2
  <1>13. ASSUME NEW j \in Len(act) + 1..Len(t)
         PROVE  t[j].last = at /\ \E m \in 1..n + 1 : t[j].id = order[m].id
    <2>1. j \in Len(act) + 1..Len(s) /\ j \in 1..Len(s) /\ j # i
      BY <1>0, <1>2, <1>4
    <2>2. t[j] = s[j]
      BY <1>4, <2>1
    <2>3. QED BY <1>7, <1>9, <2>1, <2>2
  <1>14. \A j, k \in 1..Len(t) : t[j].id = t[k].id => j = k
    BY <1>4, <1>6, <1>7
  <1>15. ASSUME NEW j \in 1..Len(t), j > Len(act) \/ t[j].id \in after.matched
         PROVE  \E a \in after.assignment : a[2] = t[j].id
    <2>1. j \in 1..Len(s) /\ t[j].id = s[j].id
      BY <1>4, <1>6
    <2>2. CASE j > Len(act) \/ s[j].id \in acc.matched
      BY <1>7, <1>11, <2>1, <2>2
    <2>3. CASE s[j].id = act[i].id
      <3>1. <<det.id, act[i].id>>[2] = t[j].id
        BY <2>1, <2>3
      <3>2. QED BY <1>11, <3>1
    <2>4. QED BY <1>10, <1>15, <2>1, <2>2, <2>3
  <1>16. ASSUME NEW a \in after.assignment
         PROVE  \E m \in 1..n + 1 : \E j \in 1..Len(t) :
                  /\ a[1] = order[m].id /\ a[2] = t[j].id /\ t[j].cls = order[m].cls
                  /\ j > Len(act) \/ a[2] \in after.matched
    <2>1. CASE a \in acc.assignment
      <3>1. PICK m \in 1..n, j \in 1..Len(s) :
              /\ a[1] = order[m].id /\ a[2] = s[j].id /\ s[j].cls = order[m].cls
              /\ j > Len(act) \/ a[2] \in acc.matched
        BY <1>7, <2>1
      <3>2. m \in 1..n + 1 /\ j \in 1..Len(t)
        BY <1>4, <1>9
      <3>3. QED BY <1>6, <1>10, <3>1, <3>2
    <2>2. CASE a = <<det.id, act[i].id>>
      <3>1. a[1] = det.id /\ a[2] = act[i].id
        BY <2>2
      <3>2. a[2] = t[i].id /\ t[i].cls = det.cls /\ i \in 1..Len(t) /\ a[2] \in after.matched
        BY <1>2, <1>4, <1>5, <1>7, <1>10, <3>1
      <3>3. QED BY <1>0, <3>1, <3>2
    <2>3. QED BY <1>11, <2>1, <2>2
  <1>17. ASSUME NEW a \in acc.assignment, a[2] = act[i].id PROVE FALSE
    <2>1. PICK m \in 1..n, j \in 1..Len(s) :
            /\ a[2] = s[j].id /\ (j > Len(act) \/ a[2] \in acc.matched)
      BY <1>7
    <2>2. s[j].id = s[i].id
      BY <1>7, <1>17, <2>1
    <2>3. j = i
      BY <1>2, <1>7, <2>1, <2>2
    <2>4. ~(i > Len(act))
      BY <1>0
    <2>5. QED BY <1>17, <2>1, <2>3, <2>4
  <1>18. ASSUME NEW a \in after.assignment, NEW b \in after.assignment, a[2] = b[2]
         PROVE  a = b
    <2>1. <<det.id, act[i].id>>[2] = act[i].id
      OBVIOUS
    <2> DEFINE e == <<det.id, act[i].id>>
    <2>2. \A x \in after.assignment : x \in acc.assignment \/ x = e
      BY <1>11
    <2>3. e[2] = act[i].id
      OBVIOUS
    <2> HIDE DEF e
    <2>4. QED BY <1>7, <1>17, <1>18, <2>2, <2>3
  <1>19. after \in Stitch /\ Len(t) >= Len(act)
    BY <1>2, <1>4
  <1>20. t = after.assigned
    BY DEF t
  <1> HIDE DEF det
  <1>21. Associated(act, order, at, n + 1, after)
    BY <1>12, <1>13, <1>14, <1>15, <1>16, <1>18, <1>19, ZenonT(60) DEF Associated, t
  <1>22. QED BY <1>21

(* No track matched: the detection begins one, after all others. *)
LEMMA TurnBegins ==
  ASSUME NEW act, NEW order, NEW at, FrameOK(act, order, at), NEW dt \in Nat,
         NEW n \in 0..Len(order) - 1, NEW acc, Associated(act, order, at, n, acc),
         NEW after \in Stitch,
         after.assigned = Append(acc.assigned, newTrack(order[n + 1])),
         after.matched = acc.matched,
         after.assignment = acc.assignment \cup {<<order[n + 1].id, order[n + 1].id>>}
  PROVE  Associated(act, order, at, n + 1, after)
  <1> DEFINE det == order[n + 1]
             s == acc.assigned
             t == after.assigned
             k == Len(s) + 1
  <1>0. /\ act \in Seq(Track) /\ order \in Seq(Observation) /\ Len(act) \in Nat /\ Len(order) \in Nat
        /\ n \in Nat /\ n + 1 \in 1..Len(order) /\ n + 1 \in Nat
    BY DEF FrameOK
  <1>1. det \in Observation /\ det.ts = at
    BY <1>0 DEF FrameOK
  <1>2. s \in Seq(Track) /\ Len(s) \in Nat /\ Len(s) >= Len(act)
    BY <1>0 DEF Associated, Stitch
  <1>4. /\ Len(t) = k /\ k \in 1..k /\ t[k] = newTrack(det)
        /\ \A j \in 1..Len(s) : t[j] = s[j] /\ j \in 1..k
        /\ \A j \in 1..k : j \in 1..Len(s) \/ j = k
    <2>1. t = Append(s, newTrack(det))
      OBVIOUS
    <2> HIDE DEF s, t, det
    <2>2. QED BY <1>2, <2>1
  <1>5. t[k].id = det.id /\ t[k].cls = det.cls /\ t[k].last = at
    <2> HIDE DEF s, t, det
    <2>1. QED BY <1>1, <1>4, TrackFields
  <1>7. /\ \A j \in 1..Len(act) : /\ s[j].id = act[j].id /\ s[j].cls = act[j].cls
                                  /\ act[j].id \in acc.matched => s[j].last = at
                                  /\ act[j].id \notin acc.matched => s[j] = act[j]
        /\ \A j \in Len(act) + 1..Len(s) :
             s[j].last = at /\ \E m \in 1..n : s[j].id = order[m].id
        /\ \A j, l \in 1..Len(s) : s[j].id = s[l].id => j = l
        /\ \A j \in 1..Len(s) : j > Len(act) \/ s[j].id \in acc.matched
             => \E a \in acc.assignment : a[2] = s[j].id
        /\ \A a \in acc.assignment :
             \E m \in 1..n : \E j \in 1..Len(s) :
               /\ a[1] = order[m].id /\ a[2] = s[j].id /\ s[j].cls = order[m].cls
               /\ j > Len(act) \/ a[2] \in acc.matched
        /\ \A a, b \in acc.assignment : a[2] = b[2] => a = b
    BY DEF Associated
  <1>7a. ASSUME NEW a \in acc.assignment PROVE \E j \in 1..Len(s) : a[2] = s[j].id
    <2>1. \E m \in 1..n : \E j \in 1..Len(s) :
            /\ a[1] = order[m].id /\ a[2] = s[j].id /\ s[j].cls = order[m].cls
            /\ j > Len(act) \/ a[2] \in acc.matched
      BY <1>7
    <2>2. QED BY <2>1
  <1>9. \A m \in 1..n : m \in 1..n + 1
    BY <1>0
  <1>10. after.matched = acc.matched
    OBVIOUS
  <1>11. after.assignment = acc.assignment \cup {<<det.id, det.id>>}
    OBVIOUS
  <1>8. ASSUME NEW j \in 1..Len(s) PROVE s[j].id # det.id
    <2>1. CASE j \in 1..Len(act)
      BY <1>0, <1>7, <2>1 DEF FrameOK
    <2>2. CASE j \in Len(act) + 1..Len(s)
      <3>1. PICK m \in 1..n : s[j].id = order[m].id
        BY <1>7, <2>2
      <3>2. m \in 1..Len(order) /\ m # n + 1
        BY <1>0
      <3>3. QED BY <1>0, <3>1, <3>2 DEF FrameOK
    <2>3. j \in 1..Len(act) \/ j \in Len(act) + 1..Len(s)
      BY <1>0, <1>2
    <2>4. QED BY <2>1, <2>2, <2>3
  <1>6. k > Len(act) /\ \A j \in 1..Len(act) : j \in 1..Len(s)
    BY <1>0, <1>2
  <1> HIDE DEF s, t, k
  <1>12. ASSUME NEW j \in 1..Len(act)
         PROVE  /\ t[j].id = act[j].id /\ t[j].cls = act[j].cls
                /\ act[j].id \in after.matched => t[j].last = at
                /\ act[j].id \notin after.matched => t[j] = act[j]
    <2>1. t[j] = s[j]
      BY <1>4, <1>6
    <2>2. QED BY <1>7, <1>10, <2>1, Zenon
  <1>13. ASSUME NEW j \in Len(act) + 1..Len(t)
         PROVE  t[j].last = at /\ \E m \in 1..n + 1 : t[j].id = order[m].id
    <2>1. CASE j = k
      <3>1. t[j].last = at /\ t[j].id = order[n + 1].id
        BY <1>5, <2>1
      <3>2. n + 1 \in 1..n + 1
        BY <1>0
      <3>3. QED BY <3>1, <3>2
    <2>2. CASE j # k
      <3>1. j \in Len(act) + 1..Len(s) /\ j \in 1..Len(s)
        BY <1>0, <1>2, <1>4, <2>2 DEF k
      <3>2. t[j] = s[j]
        BY <1>4, <3>1
      <3>3. s[j].last = at
        BY <1>7, <3>1
      <3>4. PICK m \in 1..n : s[j].id = order[m].id
        BY <1>7, <3>1
      <3>5. QED BY <1>9, <3>2, <3>3, <3>4
    <2>3. QED BY <2>1, <2>2
  <1>14. ASSUME NEW j \in 1..Len(t), NEW l \in 1..Len(t), t[j].id = t[l].id PROVE j = l
    <2>1. (j \in 1..Len(s) /\ t[j] = s[j]) \/ j = k
      BY <1>4
    <2>2. (l \in 1..Len(s) /\ t[l] = s[l]) \/ l = k
      BY <1>4
    <2>3. CASE j = k /\ l # k
      BY <1>5, <1>8, <1>14, <2>2, <2>3
    <2>4. CASE j # k /\ l = k
      BY <1>5, <1>8, <1>14, <2>1, <2>4
    <2>5. CASE j # k /\ l # k
      BY <1>7, <1>14, <2>1, <2>2, <2>5
    <2>6. QED BY <2>3, <2>4, <2>5
  <1>15. ASSUME NEW j \in 1..Len(t), j > Len(act) \/ t[j].id \in after.matched
         PROVE  \E a \in after.assignment : a[2] = t[j].id
    <2>1. CASE j = k
      <3>1. <<det.id, det.id>>[2] = t[j].id
        BY <1>5, <2>1
      <3>2. QED BY <1>11, <3>1
    <2>2. CASE j # k
      <3>1. j \in 1..Len(s) /\ t[j] = s[j]
        BY <1>4, <2>2
      <3>2. j > Len(act) \/ s[j].id \in acc.matched
        BY <1>10, <1>15, <3>1
      <3>3. PICK a \in acc.assignment : a[2] = s[j].id
        BY <1>7, <3>1, <3>2
      <3>4. QED BY <1>11, <3>1, <3>3
    <2>3. QED BY <2>1, <2>2
  <1>16. ASSUME NEW a \in after.assignment
         PROVE  \E m \in 1..n + 1 : \E j \in 1..Len(t) :
                  /\ a[1] = order[m].id /\ a[2] = t[j].id /\ t[j].cls = order[m].cls
                  /\ j > Len(act) \/ a[2] \in after.matched
    <2>1. CASE a \in acc.assignment
      <3>1. PICK m \in 1..n, j \in 1..Len(s) :
              /\ a[1] = order[m].id /\ a[2] = s[j].id /\ s[j].cls = order[m].cls
              /\ j > Len(act) \/ a[2] \in acc.matched
        BY <1>7, <2>1
      <3>2. m \in 1..n + 1 /\ j \in 1..Len(t) /\ t[j] = s[j]
        BY <1>4, <1>9
      <3>3. QED BY <1>10, <3>1, <3>2
    <2>2. CASE a = <<det.id, det.id>>
      <3>1. a[1] = det.id /\ a[2] = det.id
        BY <2>2
      <3>2. QED BY <1>0, <1>4, <1>5, <1>6, <3>1
    <2>3. QED BY <1>11, <2>1, <2>2
  <1>17. ASSUME NEW a \in acc.assignment, a[2] = det.id PROVE FALSE
    <2>1. PICK j \in 1..Len(s) : a[2] = s[j].id
      BY <1>7a
    <2>2. QED BY <1>8, <1>17, <2>1
  <1>18. ASSUME NEW a \in after.assignment, NEW b \in after.assignment, a[2] = b[2]
         PROVE  a = b
    <2> DEFINE e == <<det.id, det.id>>
    <2>2. \A x \in after.assignment : x \in acc.assignment \/ x = e
      BY <1>11
    <2>3. e[2] = det.id
      OBVIOUS
    <2> HIDE DEF e
    <2>4. QED BY <1>7, <1>17, <1>18, <2>2, <2>3
  <1>19. after \in Stitch /\ Len(t) >= Len(act)
    BY <1>0, <1>2, <1>4 DEF k
  <1>20. t = after.assigned
    BY DEF t
  <1> HIDE DEF det
  <1>21. Associated(act, order, at, n + 1, after)
    BY <1>12, <1>13, <1>14, <1>15, <1>16, <1>18, <1>19, ZenonT(60) DEF Associated, t
  <1>22. QED BY <1>21

(* All turns of a frame, as stitch_tracks takes them. *)
turns(act, order, dt) ==
  LET after[n \in 0..Len(order)] ==
        IF n = 0 THEN [assigned |-> act, matched |-> {}, assignment |-> {}]
        ELSE associate(act, dt, after[n - 1], order[n])
  IN  after[Len(order)]

(* When all have had their turns, all that Associated says holds. *)
LEMMA Turns ==
  ASSUME NEW act, NEW order, NEW at, FrameOK(act, order, at), NEW dt \in Nat
  PROVE  Associated(act, order, at, Len(order), turns(act, order, dt))
  <1> DEFINE k == Len(order)
             base == [assigned |-> act, matched |-> {}, assignment |-> {}]
             body(f) == [n \in 0..k |->
                           IF n = 0 THEN base ELSE associate(act, dt, f[n - 1], order[n])]
             after == CHOOSE f : f = body(f)
             step == [p \in (1..k) \X Stitch |-> associate(act, dt, p[2], order[p[1]])]
  <1>1. turns(act, order, dt) = after[k]
    BY DEF turns
  <1>2. /\ act \in Seq(Track) /\ order \in Seq(Observation) /\ k \in Nat
        /\ \A n \in 1..k : order[n] \in Observation
    BY DEF FrameOK
  <1>3. base \in Stitch
    <2>1. {} \in SUBSET Nat /\ {} \in SUBSET (Nat \X Nat)
      OBVIOUS
    <2>2. QED BY <1>2, <2>1 DEF Stitch
  <1>4. \A n \in 1..k : \A acc \in Stitch : associate(act, dt, acc, order[n]) \in Stitch
    BY <1>2, Turn DEF Taken
  <1>5. Associated(act, order, at, 0, base)
    <2>1. /\ base.assigned = act /\ base.matched = {} /\ base.assignment = {}
      OBVIOUS
    <2>2. Len(act) \in Nat
      BY <1>2
    <2> HIDE DEF base
    <2>3. \A i \in Len(act) + 1..Len(act) : FALSE
      BY <2>2
    <2>4. \A i \in 1..Len(act) : ~(i > Len(act))
      BY <2>2
    <2>5. QED BY <1>3, <2>1, <2>2, <2>3, <2>4 DEF Associated, FrameOK
  <1> HIDE DEF k, base
  <1>6. \E f : f = body(f)
    <2>1. step \in [(1..k) \X Stitch -> Stitch]
      <3>1. \A p \in (1..k) \X Stitch : p[1] \in 1..k /\ p[2] \in Stitch
        OBVIOUS
      <3>2. QED BY <1>4, <3>1
    <2> HIDE DEF step
    <2>2. PICK f : Unfolds(f, Stitch, base, k, step)
      BY <1>2, <1>3, <2>1, Recursion
    <2>3. ASSUME NEW n \in 0..k
          PROVE  f[n] = IF n = 0 THEN base ELSE associate(act, dt, f[n - 1], order[n])
      <3>1. CASE n = 0
        BY <2>2, <3>1 DEF Unfolds
      <3>2. CASE n # 0
        <4>1. n \in 1..k /\ f[n - 1] \in Stitch
          BY <1>2, <2>2, <3>2 DEF Unfolds
        <4>2. /\ <<n, f[n - 1]>> \in (1..k) \X Stitch /\ <<n, f[n - 1]>>[1] = n
              /\ <<n, f[n - 1]>>[2] = f[n - 1]
          BY <4>1
        <4>3. step[<<n, f[n - 1]>>] = associate(act, dt, f[n - 1], order[n])
          BY <4>2 DEF step
        <4>4. QED BY <2>2, <3>2, <4>1, <4>3 DEF Unfolds
      <3>3. QED BY <3>1, <3>2
    <2>4. f = body(f)
      BY <2>2, <2>3 DEF Unfolds
    <2>5. QED BY <2>4
  <1>7. after = body(after)
    BY <1>6
  <1> HIDE DEF after
  <1>8. /\ after[0] = base
        /\ \A n \in 1..k : after[n] = associate(act, dt, after[n - 1], order[n])
    <2>1. \A n \in 0..k : after[n] = IF n = 0 THEN base
                                     ELSE associate(act, dt, after[n - 1], order[n])
      BY <1>7
    <2>2. 0 \in 0..k /\ \A n \in 1..k : n \in 0..k /\ n # 0
      BY <1>2
    <2>3. QED BY <2>1, <2>2
  <1>9. ASSUME NEW n \in 0..k - 1, Associated(act, order, at, n, after[n])
        PROVE  Associated(act, order, at, n + 1, after[n + 1])
    <2>1. n + 1 \in 1..k /\ n + 1 - 1 = n /\ n \in 0..Len(order) - 1
      BY <1>2 DEF k
    <2>2. after[n + 1] = associate(act, dt, after[n], order[n + 1])
      BY <1>8, <2>1
    <2>3. after[n] \in Stitch
      BY <1>9 DEF Associated
    <2> DEFINE acc == after[n]
               next == after[n + 1]
               det == order[n + 1]
               u == associate(act, dt, acc, det)
    <2>4. next = u /\ acc \in Stitch /\ det \in Observation
      BY <1>2, <2>1, <2>2, <2>3
    <2>5. Associated(act, order, at, n, acc)
      BY <1>9
    <2> HIDE DEF acc, next, det
    <2>9. Taken(act, acc, det, dt, u)
      BY <1>2, <2>4, Turn
    <2> HIDE DEF u
    <2>6. /\ next \in Stitch
          /\ \/ \E i \in 1..Len(act) :
                  /\ act[i].id \notin acc.matched /\ act[i].cls = det.cls
                  /\ next.assigned = [acc.assigned EXCEPT ![i] = observed(@, det, dt)]
                  /\ next.matched = acc.matched \cup {act[i].id}
                  /\ next.assignment = acc.assignment \cup {<<det.id, act[i].id>>}
             \/ /\ next.assigned = Append(acc.assigned, newTrack(det))
                /\ next.matched = acc.matched
                /\ next.assignment = acc.assignment \cup {<<det.id, det.id>>}
      BY <2>4, <2>9, Zenon DEF Taken
    <2>7. Associated(act, order, at, n + 1, next)
      <3>1. CASE \E i \in 1..Len(act) :
                  /\ act[i].id \notin acc.matched /\ act[i].cls = det.cls
                  /\ next.assigned = [acc.assigned EXCEPT ![i] = observed(@, det, dt)]
                  /\ next.matched = acc.matched \cup {act[i].id}
                  /\ next.assignment = acc.assignment \cup {<<det.id, act[i].id>>}
        BY <2>1, <2>5, <2>6, <3>1, TurnSeesAgain DEF det
      <3>2. CASE /\ next.assigned = Append(acc.assigned, newTrack(det))
                 /\ next.matched = acc.matched
                 /\ next.assignment = acc.assignment \cup {<<det.id, det.id>>}
        BY <2>1, <2>5, <2>6, <3>2, TurnBegins DEF det
      <3>3. QED BY <2>6, <3>1, <3>2
    <2>8. QED BY <2>7 DEF next
  <1>10. Associated(act, order, at, k, after[k])
    <2> DEFINE T == {n \in 0..k : ~Associated(act, order, at, n, after[n])}
    <2>1. SUFFICES ASSUME T # {} PROVE FALSE
      BY <1>2, <2>1
    <2>2. PICK m \in T : \A x \in T : m <= x
      <3>1. T \subseteq Nat
        OBVIOUS
      <3> HIDE DEF T
      <3>2. QED BY <2>1, <3>1, LeastMember
    <2>3. m # 0
      BY <1>5, <1>8, <2>2
    <2>4. m - 1 \in 0..k - 1 /\ m - 1 + 1 = m /\ m - 1 \notin T
      BY <1>2, <2>2, <2>3
    <2>5. Associated(act, order, at, m - 1, after[m - 1])
      BY <1>2, <2>4
    <2>6. Associated(act, order, at, m - 1 + 1, after[m - 1 + 1])
      BY <1>9, <2>4, <2>5
    <2>7. QED BY <2>2, <2>4, <2>6
  <1>11. QED BY <1>1, <1>10 DEF k

-----------------------------------------------------------------------------
(* One frame through the stitcher. *)

(* The detections of a frame: each with an id that no track has, all of one *)
(* instant.                                                                 *)
DetectionsOK(ds, act, at) ==
  /\ IsFiniteSet(ds) /\ ds \subseteq Observation
  /\ \A d, e \in ds : d.id = e.id => d = e
  /\ \A d \in ds : d.ts = at /\ \A i \in 1..Len(act) : act[i].id # d.id

(* The stitcher's answer: every detection on a track of its class and of no *)
(* other detection; the tracks seen now are those, the others unchanged and *)
(* not older than MaxAge.                                                   *)
StitchOK(ds, act, at, out) ==
  /\ out.active \in Seq(Track)
  /\ \A i \in 1..Len(out.active) : at - out.active[i].last <= MaxAge
  /\ \A i, j \in 1..Len(out.active) : out.active[i].id = out.active[j].id => i = j
  /\ \A i \in 1..Len(out.active) :
       \/ out.active[i].last = at /\ \E a \in out.assignment : a[2] = out.active[i].id
       \/ /\ \E j \in 1..Len(act) : out.active[i] = act[j]
          /\ \A a \in out.assignment : a[2] # out.active[i].id
  /\ \A j \in 1..Len(act) : at - act[j].last <= MaxAge =>
       \E i \in 1..Len(out.active) : out.active[i].id = act[j].id
  /\ \A a \in out.assignment : \E d \in ds :
       /\ a[1] = d.id
       /\ \E i \in 1..Len(out.active) :
            /\ out.active[i].id = a[2] /\ out.active[i].cls = d.cls /\ out.active[i].last = at
       /\ \/ \E j \in 1..Len(act) : act[j].id = a[2] /\ act[j].cls = d.cls
          \/ \E e \in ds : e.id = a[2]
  /\ \A a, b \in out.assignment : a[2] = b[2] => a = b

(* By confidence, and by id when that is the same. *)
LEMMA TurnsOrdered ==
  ASSUME NEW ds, ds \subseteq Observation, \A d, e \in ds : d.id = e.id => d = e
  PROVE  StrictOrder(ds, {p \in ds \X ds : detectionOrder(p[1], p[2])})
  <1> DEFINE before == {p \in ds \X ds : detectionOrder(p[1], p[2])}
  <1>1. \A a, b \in ds : <<a, b>> \in before <=> detectionOrder(a, b)
    OBVIOUS
  <1>2. \A a \in ds : a.id \in Int /\ a.conf \in Int
    BY DEF Observation
  <1> HIDE DEF before
  <1>3. \A a \in ds : <<a, a>> \notin before
    BY <1>1, <1>2 DEF detectionOrder
  <1>4. \A a, b \in ds : a = b \/ <<a, b>> \in before \/ <<b, a>> \in before
    <2> SUFFICES ASSUME NEW a \in ds, NEW b \in ds
                 PROVE  a = b \/ <<a, b>> \in before \/ <<b, a>> \in before
      OBVIOUS
    <2>1. a.conf < b.conf \/ b.conf < a.conf \/ a.conf = b.conf
      BY <1>2
    <2>2. a.id < b.id \/ b.id < a.id \/ a.id = b.id
      BY <1>2
    <2>3. a.conf > b.conf <=> b.conf < a.conf
      BY <1>2
    <2>4. b.conf > a.conf <=> a.conf < b.conf
      BY <1>2
    <2>5. QED BY <1>1, <2>1, <2>2, <2>3, <2>4 DEF detectionOrder
  <1>5. \A a, b, c \in ds : <<a, b>> \in before /\ <<b, c>> \in before => <<a, c>> \in before
    <2> SUFFICES ASSUME NEW a \in ds, NEW b \in ds, NEW c \in ds,
                        detectionOrder(a, b), detectionOrder(b, c)
                 PROVE  detectionOrder(a, c)
      BY <1>1
    <2>1. /\ a.conf \in Int /\ b.conf \in Int /\ c.conf \in Int
          /\ a.id \in Int /\ b.id \in Int /\ c.id \in Int
      BY <1>2
    <2>2. QED BY <2>1 DEF detectionOrder
  <1>6. QED BY <1>3, <1>4, <1>5 DEF StrictOrder, before

(* The stitcher keeps its promises. *)
LEMMA Stitched ==
  ASSUME NEW act \in Seq(Track), NEW ds, NEW at \in Nat, NEW dt \in Nat,
         \A i, j \in 1..Len(act) : act[i].id = act[j].id => i = j,
         DetectionsOK(ds, act, at)
  PROVE  StitchOK(ds, act, at, stitch_tracks(ds, act, dt, at))
  <1> DEFINE before == {p \in ds \X ds : detectionOrder(p[1], p[2])}
             order == inOrder(ds, before)
             done == turns(act, order, dt)
             s == done.assigned
             places == {i \in DOMAIN s : at - s[i].last <= MaxAge}
             out == stitch_tracks(ds, act, dt, at)
             t == out.active
  <1>1. out = [active |-> retire(done.assigned, at), assignment |-> done.assignment]
    BY DEF stitch_tracks, turns
  <1>2. t = kept(s, places) /\ out.assignment = done.assignment
    BY <1>1 DEF retire
  <1> HIDE DEF done, out, order, before
  <1>3. /\ IsFiniteSet(ds) /\ ds \subseteq Observation
        /\ \A d, e \in ds : d.id = e.id => d = e
        /\ \A d \in ds : d.ts = at /\ \A i \in 1..Len(act) : act[i].id # d.id
    BY DEF DetectionsOK
  <1>4. /\ order \in Seq(ds) /\ Len(order) \in Nat /\ Len(order) = Cardinality(ds)
        /\ \A j, k \in 1..Len(order) : j < k => <<order[j], order[k]>> \in before
        /\ StrictOrder(ds, before)
    <2>1. StrictOrder(ds, before)
      BY <1>3, TurnsOrdered DEF before
    <2>2. QED BY <1>3, <2>1, Sorted DEF order
  <1>5. \A k \in 1..Len(order) : order[k] \in ds
    BY <1>4
  <1>6. FrameOK(act, order, at)
    <2>1. order \in Seq(Observation)
      BY <1>3, <1>4
    <2>2. ASSUME NEW j \in 1..Len(order), NEW k \in 1..Len(order), order[j].id = order[k].id
          PROVE  j = k
      <3>1. order[j] = order[k]
        BY <1>3, <1>5, <2>2
      <3>2. ~(<<order[j], order[j]>> \in before)
        BY <1>4, <1>5 DEF StrictOrder
      <3>3. ~(j < k) /\ ~(k < j)
        BY <1>4, <3>1, <3>2
      <3>4. QED BY <1>4, <3>3
    <2>3. QED BY <1>3, <1>5, <2>1, <2>2 DEF FrameOK
  <1>7. Associated(act, order, at, Len(order), done)
    BY <1>6, Turns DEF done
  <1>8. /\ s \in Seq(Track) /\ Len(s) \in Nat /\ DOMAIN s = 1..Len(s) /\ Len(act) \in Nat
        /\ Len(s) >= Len(act)
    BY <1>7 DEF Associated, Stitch
  <1>9. /\ \A j \in 1..Len(act) : /\ s[j].id = act[j].id /\ s[j].cls = act[j].cls
                                  /\ act[j].id \in done.matched => s[j].last = at
                                  /\ act[j].id \notin done.matched => s[j] = act[j]
        /\ \A j \in Len(act) + 1..Len(s) :
             s[j].last = at /\ \E m \in 1..Len(order) : s[j].id = order[m].id
        /\ \A j, k \in 1..Len(s) : s[j].id = s[k].id => j = k
        /\ \A j \in 1..Len(s) : j > Len(act) \/ s[j].id \in done.matched
             => \E a \in done.assignment : a[2] = s[j].id
        /\ \A a \in done.assignment :
             \E m \in 1..Len(order) : \E j \in 1..Len(s) :
               /\ a[1] = order[m].id /\ a[2] = s[j].id /\ s[j].cls = order[m].cls
               /\ j > Len(act) \/ a[2] \in done.matched
        /\ \A a, b \in done.assignment : a[2] = b[2] => a = b
    BY <1>7 DEF Associated
  <1>10. places \in SUBSET (1..Len(s)) /\ \A j \in 1..Len(s) :
           j \in places <=> at - s[j].last <= MaxAge
    BY <1>8
  <1> HIDE DEF s, places, t
  <1>11. \A j \in 1..Len(s) : j \in 1..Len(act) \/ j \in Len(act) + 1..Len(s)
    BY <1>8
  <1>12. \A j \in 1..Len(act) : j \in 1..Len(s) /\ ~(j > Len(act))
    BY <1>8
  <1>13. at - at <= MaxAge
    BY TracksAssumption
  <1>14. /\ t \in Seq(Track) /\ Len(t) \in Nat
         /\ \A p \in places : \E k \in 1..Len(t) : t[k] = s[p]
         /\ \A k \in 1..Len(t) : \E p \in places : t[k] = s[p]
         /\ \A j, k \in 1..Len(t) : j < k =>
              \E p, q \in places : p < q /\ t[j] = s[p] /\ t[k] = s[q]
    <2> DEFINE u == kept(s, places)
    <2>1. /\ u \in Seq(Track) /\ Len(u) = Cardinality(places) /\ Len(u) \in Nat
          /\ \A p \in places : \E k \in 1..Len(u) : u[k] = s[p]
          /\ \A k \in 1..Len(u) : \E p \in places : u[k] = s[p]
          /\ \A j, k \in 1..Len(u) : j < k =>
               \E p, q \in places : p < q /\ u[j] = s[p] /\ u[k] = s[q]
      <3>1. s \in Seq(Track) /\ places \in SUBSET (1..Len(s))
        BY <1>8, <1>10
      <3>2. QED BY <3>1, Filtered, ZenonT(60)
    <2>2. t = u
      BY <1>2 DEF t
    <2> HIDE DEF u, t
    <2>3. /\ t \in Seq(Track) /\ Len(t) \in Nat
          /\ \A p \in places : \E k \in 1..Len(t) : t[k] = s[p]
          /\ \A k \in 1..Len(t) : \E p \in places : t[k] = s[p]
      BY <2>1, <2>2
    <2>4. \A j, k \in 1..Len(t) : j < k => \E p, q \in places : p < q /\ t[j] = s[p] /\ t[k] = s[q]
      <3> SUFFICES ASSUME NEW j \in 1..Len(t), NEW k \in 1..Len(t), j < k
                   PROVE  \E p, q \in places : p < q /\ t[j] = s[p] /\ t[k] = s[q]
        OBVIOUS
      <3>1. PICK p \in places, q \in places : p < q /\ u[j] = s[p] /\ u[k] = s[q]
        BY <2>1, <2>2
      <3>2. QED BY <2>2, <3>1
    <2>5. QED BY <2>3, <2>4
  <1>15. ASSUME NEW i \in 1..Len(t) PROVE at - t[i].last <= MaxAge
    <2>1. PICK p \in places : t[i] = s[p]
      BY <1>14
    <2>2. QED BY <1>10, <2>1
  <1>16. ASSUME NEW i \in 1..Len(t), NEW j \in 1..Len(t), t[i].id = t[j].id PROVE i = j
    <2>1. ASSUME NEW x \in 1..Len(t), NEW y \in 1..Len(t), x < y, t[x].id = t[y].id
          PROVE  FALSE
      <3>1. PICK p \in places, q \in places : p < q /\ t[x] = s[p] /\ t[y] = s[q]
        BY <1>14, <2>1
      <3>2. p \in 1..Len(s) /\ q \in 1..Len(s) /\ s[p].id = s[q].id
        BY <1>10, <2>1, <3>1
      <3>3. p = q
        BY <1>9, <3>2
      <3>4. QED BY <3>1, <3>2, <3>3
    <2>2. ~(i < j) /\ ~(j < i)
      BY <1>16, <2>1
    <2>3. QED BY <2>2
  <1>17. ASSUME NEW i \in 1..Len(t)
         PROVE  \/ t[i].last = at /\ \E a \in out.assignment : a[2] = t[i].id
                \/ /\ \E j \in 1..Len(act) : t[i] = act[j]
                   /\ \A a \in out.assignment : a[2] # t[i].id
    <2>1. PICK p \in 1..Len(s) : t[i] = s[p]
      BY <1>10, <1>14
    <2>2. CASE p > Len(act) \/ s[p].id \in done.matched
      <3>1. s[p].last = at
        BY <1>9, <1>11, <1>12, <2>2
      <3>2. QED BY <1>2, <1>9, <2>1, <2>2, <3>1
    <2>3. CASE ~(p > Len(act) \/ s[p].id \in done.matched)
      <3>1. p \in 1..Len(act) /\ s[p] = act[p]
        <4>1. p \in 1..Len(act)
          BY <1>8, <1>11, <2>3
        <4>2. QED BY <1>9, <2>3, <4>1
      <3>2. ASSUME NEW a \in done.assignment, a[2] = s[p].id PROVE FALSE
        <4>1. PICK j \in 1..Len(s) : a[2] = s[j].id /\ (j > Len(act) \/ a[2] \in done.matched)
          BY <1>9
        <4>2. j = p
          BY <1>9, <3>2, <4>1
        <4>3. QED BY <2>3, <3>2, <4>1, <4>2
      <3>3. QED BY <1>2, <2>1, <3>1, <3>2
    <2>4. QED BY <2>2, <2>3
  <1>18. ASSUME NEW j \in 1..Len(act), at - act[j].last <= MaxAge
         PROVE  \E i \in 1..Len(t) : t[i].id = act[j].id
    <2>1. j \in 1..Len(s) /\ s[j].id = act[j].id
      BY <1>9, <1>12
    <2>2. j \in places
      BY <1>9, <1>10, <1>13, <1>18, <2>1
    <2>3. PICK k \in 1..Len(t) : t[k] = s[j]
      BY <1>14, <2>2
    <2>4. QED BY <2>1, <2>3
  <1>19. ASSUME NEW a \in out.assignment
         PROVE  \E d \in ds :
                  /\ a[1] = d.id
                  /\ \E i \in 1..Len(t) : t[i].id = a[2] /\ t[i].cls = d.cls /\ t[i].last = at
                  /\ \/ \E j \in 1..Len(act) : act[j].id = a[2] /\ act[j].cls = d.cls
                     \/ \E e \in ds : e.id = a[2]
    <2>1. PICK m \in 1..Len(order), p \in 1..Len(s) :
            /\ a[1] = order[m].id /\ a[2] = s[p].id /\ s[p].cls = order[m].cls
            /\ p > Len(act) \/ a[2] \in done.matched
      BY <1>2, <1>9
    <2>2. order[m] \in ds
      BY <1>5
    <2>3. s[p].last = at
      BY <1>9, <1>11, <1>12, <2>1
    <2>4. p \in places
      BY <1>10, <1>13, <2>3
    <2>5. PICK i \in 1..Len(t) : t[i] = s[p]
      BY <1>14, <2>4
    <2>6. CASE p \in 1..Len(act)
      <3>1. act[p].id = a[2] /\ act[p].cls = order[m].cls
        BY <1>9, <2>1, <2>6
      <3>2. QED BY <2>1, <2>2, <2>3, <2>5, <2>6, <3>1, Zenon
    <2>7. CASE p \in Len(act) + 1..Len(s)
      <3>1. PICK l \in 1..Len(order) : s[p].id = order[l].id
        BY <1>9, <2>7
      <3>2. order[l] \in ds
        BY <1>5
      <3>3. QED BY <2>1, <2>2, <2>3, <2>5, <3>1, <3>2
    <2>8. QED BY <1>11, <2>6, <2>7
  <1>20. \A a, b \in out.assignment : a[2] = b[2] => a = b
    BY <1>2, <1>9
  <1>21. QED BY <1>14, <1>15, <1>16, <1>17, <1>18, <1>19, <1>20 DEF StitchOK, t, out

-----------------------------------------------------------------------------
(* The stitcher's state from frame to frame. *)

Point == [track : Nat, cls : STRING, frame : Nat, ts : Nat, x : Int, y : Int]

TracksTypes ==
  /\ frame \in Nat /\ now \in Nat /\ tracks \in Seq(Track) /\ history \subseteq Point

(* Ids are below those of the next frame, and no two tracks have the same.  *)
ActiveOK ==
  /\ \A i \in 1..Len(tracks) : now - tracks[i].last <= MaxAge /\ tracks[i].id < 10 * (frame + 1)
  /\ \A i, j \in 1..Len(tracks) : tracks[i].id = tracks[j].id => i = j

(* Frames follow one another in time. *)
InstantsOK ==
  /\ \A p \in history : /\ p.frame <= frame /\ p.ts <= now /\ p.track < 10 * (frame + 1)
                        /\ p.frame = frame => p.ts = now
  /\ \A p, q \in history : p.frame < q.frame => p.ts < q.ts

(* Of a track: one class, a point a frame, no long silence. *)
PathsOK ==
  \A p, q \in history : p.track = q.track =>
    /\ p.cls = q.cls
    /\ p.frame = q.frame => p = q
    /\ p.frame < q.frame =>
         \/ q.ts - p.ts <= MaxAge + Max(Intervals)
         \/ \E h \in history : h.track = p.track /\ h.frame > p.frame /\ h.frame < q.frame

(* h is the last point of its track. *)
Latest(h) ==
  h \in history /\ \A p \in history : p.track = h.track => p.frame <= h.frame /\ p.ts <= h.ts

(* A track is as it was last seen, and one seen lately is active. *)
SightOK ==
  /\ \A i \in 1..Len(tracks) : \E h \in history :
       /\ h.track = tracks[i].id /\ h.cls = tracks[i].cls /\ h.ts = tracks[i].last
       /\ Latest(h)
  /\ \A p \in history : now - p.ts <= MaxAge =>
       \E i \in 1..Len(tracks) : tracks[i].id = p.track

TracksIInv == TracksTypes /\ ActiveOK /\ InstantsOK /\ PathsOK /\ SightOK

(* The greatest interval is one of them. *)
LEMMA LongestInterval ==
  ASSUME NEW dt \in Intervals
  PROVE  Max(Intervals) \in Nat /\ dt <= Max(Intervals)
  <1> DEFINE before == {p \in Intervals \X Intervals : p[1] < p[2]}
             s == inOrder(Intervals, before)
             n == Cardinality(Intervals)
  <1>1. \A a \in Intervals : a \in Nat
    BY TracksAssumption
  <1>2. \A a, b \in Intervals : <<a, b>> \in before <=> a < b
    OBVIOUS
  <1> HIDE DEF before
  <1>3. StrictOrder(Intervals, before)
    BY <1>1, <1>2 DEF StrictOrder
  <1>4. /\ s \in Seq(Intervals) /\ n \in Nat /\ Len(s) = n
        /\ \A d \in Intervals : \E k \in 1..n : s[k] = d
        /\ \A j, k \in 1..n : j < k => <<s[j], s[k]>> \in before
    BY <1>3, TracksAssumption, Sorted
  <1> HIDE DEF s, n
  <1>5. n \in 1..n /\ s[n] \in Intervals
    BY <1>4
  <1>6. ASSUME NEW d \in Intervals PROVE d <= s[n]
    <2>1. PICK k \in 1..n : s[k] = d
      BY <1>4
    <2>2. CASE k = n
      BY <1>1, <1>5, <2>1, <2>2
    <2>3. CASE k < n
      <3>1. <<s[k], s[n]>> \in before /\ s[k] \in Intervals
        BY <1>4, <1>5, <2>1, <2>3
      <3>2. s[k] < s[n]
        BY <1>2, <1>5, <3>1
      <3>3. QED BY <1>1, <1>5, <2>1, <3>1, <3>2
    <2>4. QED BY <1>4, <2>2, <2>3
  <1>7. \E x \in Intervals : \A y \in Intervals : x >= y
    BY <1>1, <1>5, <1>6
  <1>8. Max(Intervals) \in Intervals /\ \A y \in Intervals : Max(Intervals) >= y
    BY <1>7 DEF Max
  <1>9. QED BY <1>1, <1>8

(* The detections of a frame have ids of their own. *)
LEMMA FramesDetections ==
  ASSUME frame \in Nat, NEW at \in Nat, NEW n \in 0..MaxPerFrame, NEW seen \in [1..n -> Sightings]
  PROVE  /\ IsFiniteSet(detectionsOf(seen, at)) /\ detectionsOf(seen, at) \subseteq Observation
         /\ \A d, e \in detectionsOf(seen, at) : d.id = e.id => d = e
         /\ \A d \in detectionsOf(seen, at) :
              d.ts = at /\ d.id >= 10 * (frame + 1) /\ d.id < 10 * (frame + 1 + 1)
  <1> DEFINE det(i) == [id |-> 10 * (frame + 1) + i, ts |-> at, cls |-> seen[i].cls,
                        conf |-> seen[i].conf, obb |-> seen[i].obb]
             ds == detectionsOf(seen, at)
             f == [i \in 1..n |-> det(i)]
  <1>1. n \in Nat /\ n <= 9
    BY TracksAssumption
  <1>2. ds = {det(i) : i \in 1..n}
    BY DEF detectionsOf
  <1>3. ASSUME NEW i \in 1..n
        PROVE  /\ det(i) \in Observation /\ det(i).ts = at /\ det(i).id = 10 * (frame + 1) + i
               /\ det(i).id >= 10 * (frame + 1) /\ det(i).id < 10 * (frame + 1 + 1)
    <2>1. seen[i] \in [cls : STRING, conf : Int, obb : Box]
      BY TracksAssumption DEF Box
    <2>2. 10 * (frame + 1) + i \in Nat /\ i >= 1 /\ i <= 9
      BY <1>1
    <2>3. QED BY <2>1, <2>2 DEF Observation
  <1>4. \A i, j \in 1..n : det(i).id = det(j).id => i = j
    BY <1>1, <1>3
  <1> HIDE DEF det, ds
  <1>5. IsFiniteSet(ds)
    <2>1. f \in Surjection(1..n, ds)
      BY <1>2 DEF Surjection
    <2>2. IsFiniteSet(1..n)
      BY <1>1, FS_Interval
    <2> HIDE DEF f
    <2>3. QED BY <2>1, <2>2, FS_Surjection
  <1>6. \A d, e \in ds : d.id = e.id => d = e
    BY <1>2, <1>4
  <1>7. QED BY <1>2, <1>3, <1>5, <1>6 DEF ds

(* What a frame adds to the histories: a point for each detection, on its   *)
(* track.                                                                   *)
FramePoints(new, at) ==
  /\ new \subseteq Point
  /\ \A p \in new : p.frame = frame + 1 /\ p.ts = at
  /\ \A p, q \in new : p.track = q.track => p = q
  /\ \A p \in new :
       /\ \E i \in 1..Len(tracks') :
            tracks'[i].id = p.track /\ tracks'[i].cls = p.cls /\ tracks'[i].last = at
       /\ \/ \E j \in 1..Len(tracks) : tracks[j].id = p.track /\ tracks[j].cls = p.cls
          \/ p.track >= 10 * (frame + 1) /\ p.track < 10 * (frame + 1 + 1)
  /\ tracks' \in Seq(Track)
  /\ \A i \in 1..Len(tracks') : at - tracks'[i].last <= MaxAge
  /\ \A i, j \in 1..Len(tracks') : tracks'[i].id = tracks'[j].id => i = j
  /\ \A i \in 1..Len(tracks') :
       \/ tracks'[i].last = at /\ \E p \in new : p.track = tracks'[i].id
       \/ /\ \E j \in 1..Len(tracks) : tracks'[i] = tracks[j]
          /\ \A p \in new : p.track # tracks'[i].id
  /\ \A j \in 1..Len(tracks) : at - tracks[j].last <= MaxAge =>
       \E i \in 1..Len(tracks') : tracks'[i].id = tracks[j].id

(* A frame adds such points. *)
LEMMA FrameAdds ==
  ASSUME TracksIInv, NEW n \in 0..MaxPerFrame, NEW seen \in [1..n -> Sightings],
         NEW dt \in Intervals, Frame(seen, dt)
  PROVE  \E new : history' = history \cup new /\ FramePoints(new, now + dt)
  <1> DEFINE at == now + dt
             ds == detectionsOf(seen, at)
             out == stitch_tracks(ds, tracks, dt, at)
             point(a, d) == [track |-> a[2], cls |-> d.cls, frame |-> frame + 1, ts |-> at,
                             x |-> d.obb.cx, y |-> d.obb.cy]
             new == UNION {{point(a, d) : a \in {a \in out.assignment : a[1] = d.id}} : d \in ds}
  <1>1. tracks' = out.active /\ history' = history \cup new
    BY DEF Frame
  <1>2. /\ frame \in Nat /\ now \in Nat /\ tracks \in Seq(Track)
        /\ \A i \in 1..Len(tracks) : tracks[i] \in Track /\ tracks[i].id < 10 * (frame + 1)
        /\ \A i, j \in 1..Len(tracks) : tracks[i].id = tracks[j].id => i = j
    BY DEF TracksIInv, TracksTypes, ActiveOK
  <1>3. dt \in Nat /\ at \in Nat
    BY <1>2, TracksAssumption
  <1> HIDE DEF at
  <1>4. /\ IsFiniteSet(ds) /\ ds \subseteq Observation
        /\ \A d, e \in ds : d.id = e.id => d = e
        /\ \A d \in ds : d.ts = at /\ d.id >= 10 * (frame + 1) /\ d.id < 10 * (frame + 1 + 1)
    BY <1>2, <1>3, FramesDetections
  <1> HIDE DEF ds
  <1>5. DetectionsOK(ds, tracks, at)
    <2>1. ASSUME NEW d \in ds, NEW i \in 1..Len(tracks) PROVE tracks[i].id # d.id
      <3>1. tracks[i].id \in Nat /\ d.id \in Nat
        BY <1>2, <1>4 DEF Track, Observation
      <3>2. tracks[i].id < 10 * (frame + 1) /\ d.id >= 10 * (frame + 1) /\ 10 * (frame + 1) \in Nat
        BY <1>2, <1>4
      <3>3. QED BY <3>1, <3>2
    <2>2. QED BY <1>4, <2>1 DEF DetectionsOK
  <1>6. StitchOK(ds, tracks, at, out)
    BY <1>2, <1>3, <1>5, Stitched
  <1> HIDE DEF out
  <1>7. /\ out.active \in Seq(Track)
        /\ \A i \in 1..Len(out.active) : at - out.active[i].last <= MaxAge
        /\ \A i, j \in 1..Len(out.active) : out.active[i].id = out.active[j].id => i = j
        /\ \A i \in 1..Len(out.active) :
             \/ out.active[i].last = at /\ \E a \in out.assignment : a[2] = out.active[i].id
             \/ /\ \E j \in 1..Len(tracks) : out.active[i] = tracks[j]
                /\ \A a \in out.assignment : a[2] # out.active[i].id
        /\ \A j \in 1..Len(tracks) : at - tracks[j].last <= MaxAge =>
             \E i \in 1..Len(out.active) : out.active[i].id = tracks[j].id
    BY <1>6, Zenon DEF StitchOK
  <1>8. /\ \A a \in out.assignment : \E d \in ds :
             /\ a[1] = d.id
             /\ \E i \in 1..Len(out.active) :
                  /\ out.active[i].id = a[2] /\ out.active[i].cls = d.cls
                  /\ out.active[i].last = at
             /\ \/ \E j \in 1..Len(tracks) : tracks[j].id = a[2] /\ tracks[j].cls = d.cls
                \/ \E e \in ds : e.id = a[2]
        /\ \A a, b \in out.assignment : a[2] = b[2] => a = b
    BY <1>6, Zenon DEF StitchOK
  <1>9. \A p : p \in new <=> \E d \in ds : \E a \in out.assignment : a[1] = d.id /\ p = point(a, d)
    OBVIOUS
  <1>10. \A a, d : /\ point(a, d).track = a[2] /\ point(a, d).cls = d.cls
                   /\ point(a, d).frame = frame + 1 /\ point(a, d).ts = at
    OBVIOUS
  <1>11. ASSUME NEW a \in out.assignment, NEW d \in ds, a[1] = d.id PROVE point(a, d) \in Point
    <2>1. PICK i \in 1..Len(out.active) : out.active[i].id = a[2]
      BY <1>8
    <2>2. out.active[i] \in Track
      BY <1>7
    <2>3. a[2] \in Nat
      BY <2>1, <2>2 DEF Track
    <2>4. d.cls \in STRING /\ d.obb.cx \in Int /\ d.obb.cy \in Int
      BY <1>4 DEF Observation, Box
    <2>5. QED BY <1>2, <1>3, <2>3, <2>4 DEF Point
  <1> HIDE DEF point, new
  <1>12. new \subseteq Point /\ \A p \in new : p.frame = frame + 1 /\ p.ts = at
    BY <1>9, <1>10, <1>11
  <1>13. ASSUME NEW p \in new, NEW q \in new, p.track = q.track PROVE p = q
    <2>1. PICK d \in ds, a \in out.assignment : a[1] = d.id /\ p = point(a, d)
      BY <1>9
    <2>2. PICK e \in ds, b \in out.assignment : b[1] = e.id /\ q = point(b, e)
      BY <1>9
    <2>3. a = b
      BY <1>8, <1>10, <1>13, <2>1, <2>2
    <2>4. d = e
      BY <1>4, <2>1, <2>2, <2>3
    <2>5. QED BY <2>1, <2>2, <2>3, <2>4
  <1>14. ASSUME NEW p \in new
         PROVE  /\ \E i \in 1..Len(out.active) :
                     /\ out.active[i].id = p.track /\ out.active[i].cls = p.cls
                     /\ out.active[i].last = at
                /\ \/ \E j \in 1..Len(tracks) : tracks[j].id = p.track /\ tracks[j].cls = p.cls
                   \/ p.track >= 10 * (frame + 1) /\ p.track < 10 * (frame + 1 + 1)
    <2>1. PICK d \in ds, a \in out.assignment : a[1] = d.id /\ p = point(a, d)
      BY <1>9
    <2>2. p.track = a[2] /\ p.cls = d.cls
      BY <1>10, <2>1
    <2>3. PICK e \in ds :
             /\ a[1] = e.id
             /\ \E i \in 1..Len(out.active) :
                  /\ out.active[i].id = a[2] /\ out.active[i].cls = e.cls
                  /\ out.active[i].last = at
             /\ \/ \E j \in 1..Len(tracks) : tracks[j].id = a[2] /\ tracks[j].cls = e.cls
                \/ \E x \in ds : x.id = a[2]
      BY <1>8
    <2>4. e = d
      BY <1>4, <2>1, <2>3
    <2>5. CASE \E x \in ds : x.id = a[2]
      <3>1. p.track >= 10 * (frame + 1) /\ p.track < 10 * (frame + 1 + 1)
        BY <1>4, <2>2, <2>5
      <3>2. QED BY <2>2, <2>3, <2>4, <3>1
    <2>6. CASE \E j \in 1..Len(tracks) : tracks[j].id = a[2] /\ tracks[j].cls = e.cls
      BY <2>2, <2>3, <2>4, <2>6
    <2>7. QED BY <2>3, <2>5, <2>6
  <1>15. \A a \in out.assignment : \E p \in new : p.track = a[2]
    BY <1>8, <1>9, <1>10
  <1>16. \A p \in new : \E a \in out.assignment : p.track = a[2]
    BY <1>9, <1>10
  <1>17. \A i \in 1..Len(out.active) :
           \/ out.active[i].last = at /\ \E p \in new : p.track = out.active[i].id
           \/ /\ \E j \in 1..Len(tracks) : out.active[i] = tracks[j]
              /\ \A p \in new : p.track # out.active[i].id
    BY <1>7, <1>15, <1>16
  <1>18. FramePoints(new, at)
    BY <1>1, <1>7, <1>12, <1>13, <1>14, <1>17 DEF FramePoints
  <1>19. QED BY <1>1, <1>18 DEF at

(* A frame keeps the invariant. *)
LEMMA FrameStep ==
  ASSUME TracksIInv, NEW n \in 0..MaxPerFrame, NEW seen \in [1..n -> Sightings],
         NEW dt \in Intervals, Frame(seen, dt)
  PROVE  TracksIInv'
  <1> DEFINE at == now + dt
  <1>1. frame' = frame + 1 /\ now' = at
    BY DEF Frame
  <1>2. PICK new : history' = history \cup new /\ FramePoints(new, at)
    BY FrameAdds
  <1>3. /\ frame \in Nat /\ now \in Nat /\ history \subseteq Point /\ tracks \in Seq(Track)
        /\ dt \in Nat \ {0} /\ at \in Nat /\ at > now /\ MaxAge \in Nat
        /\ Max(Intervals) \in Nat /\ dt <= Max(Intervals)
    BY LongestInterval, TracksAssumption DEF TracksIInv, TracksTypes
  <1>4. /\ \A i \in 1..Len(tracks) : now - tracks[i].last <= MaxAge /\ tracks[i].id < 10 * (frame + 1)
        /\ \A i, j \in 1..Len(tracks) : tracks[i].id = tracks[j].id => i = j
    BY DEF TracksIInv, ActiveOK
  <1>5. /\ \A p \in history : /\ p.frame <= frame /\ p.ts <= now /\ p.track < 10 * (frame + 1)
                              /\ p.frame = frame => p.ts = now
        /\ \A p, q \in history : p.frame < q.frame => p.ts < q.ts
    BY DEF TracksIInv, InstantsOK
  <1>6. /\ \A i \in 1..Len(tracks) : \E h \in history :
             /\ h.track = tracks[i].id /\ h.cls = tracks[i].cls /\ h.ts = tracks[i].last
             /\ Latest(h)
        /\ \A p \in history : now - p.ts <= MaxAge =>
             \E i \in 1..Len(tracks) : tracks[i].id = p.track
    BY DEF TracksIInv, SightOK
  <1>7. /\ new \subseteq Point
        /\ \A p \in new : p.frame = frame + 1 /\ p.ts = at
        /\ \A p, q \in new : p.track = q.track => p = q
        /\ \A p \in new :
             /\ \E i \in 1..Len(tracks') :
                  tracks'[i].id = p.track /\ tracks'[i].cls = p.cls /\ tracks'[i].last = at
             /\ \/ \E j \in 1..Len(tracks) : tracks[j].id = p.track /\ tracks[j].cls = p.cls
                \/ p.track >= 10 * (frame + 1) /\ p.track < 10 * (frame + 1 + 1)
    BY <1>2 DEF FramePoints
  <1>8. /\ tracks' \in Seq(Track)
        /\ \A i \in 1..Len(tracks') : at - tracks'[i].last <= MaxAge
        /\ \A i, j \in 1..Len(tracks') : tracks'[i].id = tracks'[j].id => i = j
        /\ \A i \in 1..Len(tracks') :
             \/ tracks'[i].last = at /\ \E p \in new : p.track = tracks'[i].id
             \/ /\ \E j \in 1..Len(tracks) : tracks'[i] = tracks[j]
                /\ \A p \in new : p.track # tracks'[i].id
        /\ \A j \in 1..Len(tracks) : at - tracks[j].last <= MaxAge =>
             \E i \in 1..Len(tracks') : tracks'[i].id = tracks[j].id
    BY <1>2, Zenon DEF FramePoints
  <1>9. \A p \in Point : p.frame \in Nat /\ p.ts \in Nat /\ p.track \in Nat
    BY DEF Point
  <1>10. \A t \in Track : t.id \in Nat /\ t.last \in Nat
    BY DEF Track
  <1>11. \A p : p \in history' <=> p \in history \/ p \in new
    BY <1>2
  <1> HIDE DEF at
  <1>12. TracksTypes'
    BY <1>1, <1>2, <1>3, <1>7, <1>8 DEF TracksTypes
  <1>13. \A p \in history' : p \in Point
    BY <1>3, <1>7, <1>11
  <1>14. ASSUME NEW p \in history'
         PROVE  p.frame <= frame + 1 /\ p.ts <= at /\ p.track < 10 * (frame + 1 + 1)
    <2>0. p \in Point /\ p.frame \in Nat /\ p.ts \in Nat /\ p.track \in Nat
      BY <1>9, <1>13
    <2>1. CASE p \in history
      <3>1. p.frame <= frame /\ p.ts <= now /\ p.track < 10 * (frame + 1)
        BY <1>5, <2>1
      <3>2. /\ p.frame <= frame + 1
            /\ p.track < 10 * (frame + 1 + 1)
        BY <1>3, <2>0, <3>1
      <3>3. p.ts <= at
        BY <1>3, <2>0, <3>1
      <3>4. QED BY <3>2, <3>3
    <2>2. CASE p \in new
      <3>1. p.frame = frame + 1 /\ p.ts = at
        BY <1>7, <2>2
      <3>2. p.track < 10 * (frame + 1 + 1)
        <4>1. CASE \E j \in 1..Len(tracks) : tracks[j].id = p.track
          <5>1. p.track < 10 * (frame + 1)
            BY <1>4, <4>1
          <5>2. QED BY <1>3, <2>0, <5>1
        <4>2. QED BY <1>7, <2>2, <4>1
      <3>3. QED BY <1>3, <3>1, <3>2
    <2>3. QED BY <1>11, <2>1, <2>2
  <1>15. ActiveOK'
    <2>1. ASSUME NEW i \in 1..Len(tracks') PROVE tracks'[i].id < 10 * (frame + 1 + 1)
      <3>1. tracks'[i] \in Track /\ tracks'[i].id \in Nat
        BY <1>8, <1>10
      <3>2. CASE \E p \in new : p.track = tracks'[i].id
        <4>1. PICK p \in new : p.track = tracks'[i].id
          BY <3>2
        <4>2. p \in history'
          BY <1>11, <4>1
        <4>3. QED BY <1>14, <4>1, <4>2
      <3>3. CASE \E j \in 1..Len(tracks) : tracks'[i] = tracks[j]
        <4>1. tracks'[i].id < 10 * (frame + 1)
          BY <1>4, <3>3
        <4>2. QED BY <1>3, <3>1, <4>1
      <3>4. QED BY <1>8, <3>2, <3>3
    <2>2. QED BY <1>1, <1>8, <2>1 DEF ActiveOK
  <1>16. InstantsOK'
    <2>1. ASSUME NEW p \in history', p.frame = frame + 1 PROVE p.ts = at
      <3>1. CASE p \in history
        <4>1. p.frame <= frame
          BY <1>5, <3>1
        <4>2. QED BY <1>3, <2>1, <4>1
      <3>2. QED BY <1>7, <1>11, <3>1
    <2>2. ASSUME NEW p \in history', NEW q \in history', p.frame < q.frame
          PROVE  p.ts < q.ts
      <3>0. /\ p.frame \in Nat /\ p.ts \in Nat /\ p.track \in Nat
            /\ q.frame \in Nat /\ q.ts \in Nat /\ q.track \in Nat
        BY <1>9, <1>13
      <3>1. p \in history
        <4>1. p \in new => p.frame = frame + 1
          BY <1>7
        <4>2. q.frame <= frame + 1
          BY <1>14
        <4>3. QED BY <1>3, <1>11, <2>2, <3>0, <4>1, <4>2
      <3>2. CASE q \in history
        BY <1>5, <2>2, <3>1, <3>2
      <3>3. CASE q \in new
        <4>1. q.ts = at /\ p.ts <= now
          BY <1>5, <1>7, <3>1, <3>3
        <4>2. QED BY <1>3, <3>0, <4>1
      <3>4. QED BY <1>11, <3>2, <3>3
    <2>3. \A p \in history' : p.frame <= frame' /\ p.ts <= now' /\ p.track < 10 * (frame' + 1)
      BY <1>1, <1>14
    <2>4. \A p \in history' : p.frame = frame' => p.ts = now'
      BY <1>1, <2>1
    <2>5. QED BY <2>2, <2>3, <2>4 DEF InstantsOK
  <1>17. ASSUME NEW q \in new, NEW p \in history, p.track = q.track
         PROVE  \E h \in history : /\ h.track = q.track /\ h.cls = q.cls /\ Latest(h)
                                   /\ at - h.ts <= MaxAge + Max(Intervals)
    <2>1. p.track < 10 * (frame + 1)
      BY <1>5
    <2>2. p.track \in Nat /\ 10 * (frame + 1) \in Nat
      BY <1>3, <1>9
    <2>3. PICK j \in 1..Len(tracks) : tracks[j].id = q.track /\ tracks[j].cls = q.cls
      BY <1>7, <1>17, <2>1, <2>2
    <2>4. PICK h \in history :
            /\ h.track = tracks[j].id /\ h.cls = tracks[j].cls /\ h.ts = tracks[j].last
            /\ Latest(h)
      BY <1>6
    <2>5. now - tracks[j].last <= MaxAge
      BY <1>4
    <2>6. at = now + dt
      BY DEF at
    <2>7. h.ts \in Nat
      BY <1>3, <1>9
    <2>8. at - h.ts <= MaxAge + Max(Intervals)
      BY <1>3, <2>4, <2>5, <2>6, <2>7
    <2>9. QED BY <2>3, <2>4, <2>8
  <1>18. \A p \in new, q \in history : p.frame # q.frame /\ ~(p.frame < q.frame)
    <2>1. ASSUME NEW p \in new, NEW q \in history
          PROVE  p.frame # q.frame /\ ~(p.frame < q.frame)
      <3>1. p.frame = frame + 1 /\ q.frame <= frame /\ q.frame \in Nat
        BY <1>3, <1>5, <1>7, <1>9
      <3>2. QED BY <1>3, <3>1
    <2>2. QED BY <2>1
  <1>19. PathsOK'
    <2>1. ASSUME NEW p \in history', NEW q \in history', p.track = q.track
          PROVE  /\ p.cls = q.cls
                 /\ p.frame = q.frame => p = q
                 /\ p.frame < q.frame =>
                      \/ q.ts - p.ts <= MaxAge + Max(Intervals)
                      \/ \E h \in history' : h.track = p.track /\ h.frame > p.frame
                                             /\ h.frame < q.frame
      <3>1. CASE p \in history /\ q \in history
        BY <1>11, <2>1, <3>1 DEF TracksIInv, PathsOK
      <3>2. CASE p \in new /\ q \in new
        <4>1. p = q
          BY <1>7, <2>1, <3>2
        <4>2. ~(p.frame < p.frame)
          BY <1>9, <1>13
        <4>3. QED BY <4>1, <4>2
      <3>3. CASE p \in history /\ q \in new
        <4>1. PICK h \in history :
                /\ h.track = q.track /\ h.cls = q.cls /\ Latest(h)
                /\ at - h.ts <= MaxAge + Max(Intervals)
          BY <1>17, <2>1, <3>3
        <4>2. p.cls = h.cls /\ (p.frame = h.frame => p = h)
          BY <2>1, <3>3, <4>1 DEF TracksIInv, PathsOK
        <4>3. p.frame <= h.frame
          BY <2>1, <3>3, <4>1 DEF Latest
        <4>4. q.frame = frame + 1 /\ q.ts = at /\ h.frame <= frame
          BY <1>5, <1>7, <3>3
        <4>5. p.frame \in Nat /\ h.frame \in Nat /\ h \in history'
          BY <1>3, <1>9, <1>11, <3>3
        <4>6. CASE p.frame = h.frame
          <5>1. q.ts - p.ts <= MaxAge + Max(Intervals)
            BY <4>1, <4>2, <4>4, <4>6
          <5>2. QED BY <1>18, <3>3, <4>1, <4>2, <5>1
        <4>7. CASE p.frame # h.frame
          <5>1. h.frame > p.frame /\ h.frame < q.frame
            BY <1>3, <4>3, <4>4, <4>5, <4>7
          <5>2. QED BY <1>18, <2>1, <3>3, <4>1, <4>2, <4>5, <5>1
        <4>8. QED BY <4>6, <4>7
      <3>4. CASE p \in new /\ q \in history
        <4>1. PICK h \in history : h.track = p.track /\ h.cls = p.cls
          BY <1>17, <2>1, <3>4
        <4>2. q.cls = h.cls
          BY <2>1, <3>4, <4>1 DEF TracksIInv, PathsOK
        <4>3. QED BY <1>18, <3>4, <4>1, <4>2
      <3>5. QED BY <1>11, <3>1, <3>2, <3>3, <3>4
    <2>2. QED BY <2>1 DEF PathsOK
  <1>20. ASSUME NEW i \in 1..Len(tracks')
         PROVE  \E h \in history' :
                  /\ h.track = tracks'[i].id /\ h.cls = tracks'[i].cls /\ h.ts = tracks'[i].last
                  /\ \A p \in history' : p.track = h.track => p.frame <= h.frame /\ p.ts <= h.ts
    <2>1. CASE tracks'[i].last = at /\ \E p \in new : p.track = tracks'[i].id
      <3>1. PICK h \in new : h.track = tracks'[i].id
        BY <2>1
      <3>2. PICK j \in 1..Len(tracks') : tracks'[j].id = h.track /\ tracks'[j].cls = h.cls
        BY <1>7
      <3>3. j = i
        BY <1>8, <3>1, <3>2
      <3>4. h.ts = at /\ h.frame = frame + 1 /\ h \in history'
        BY <1>7, <1>11
      <3>5. QED BY <1>14, <2>1, <3>1, <3>2, <3>3, <3>4
    <2>2. CASE /\ \E j \in 1..Len(tracks) : tracks'[i] = tracks[j]
               /\ \A p \in new : p.track # tracks'[i].id
      <3>1. PICK j \in 1..Len(tracks) : tracks'[i] = tracks[j]
        BY <2>2
      <3>2. PICK h \in history :
              /\ h.track = tracks[j].id /\ h.cls = tracks[j].cls /\ h.ts = tracks[j].last
              /\ Latest(h)
        BY <1>6
      <3>3. \A p \in history' : p.track = h.track => p \in history
        BY <1>11, <2>2, <3>1, <3>2
      <3>4. QED BY <1>11, <3>1, <3>2, <3>3 DEF Latest
    <2>3. QED BY <1>8, <2>1, <2>2
  <1>21. ASSUME NEW p \in history', at - p.ts <= MaxAge
         PROVE  \E i \in 1..Len(tracks') : tracks'[i].id = p.track
    <2>1. CASE p \in new
      BY <1>7, <2>1
    <2>2. CASE p \in history
      <3>1. p.ts \in Nat /\ now - p.ts <= MaxAge
        BY <1>3, <1>9, <1>21, <2>2
      <3>2. PICK j \in 1..Len(tracks) : tracks[j].id = p.track
        BY <1>6, <2>2, <3>1
      <3>3. PICK h \in history : h.track = tracks[j].id /\ h.ts = tracks[j].last /\ Latest(h)
        BY <1>6
      <3>4. p.ts <= h.ts /\ h.ts \in Nat
        BY <1>3, <1>9, <2>2, <3>2, <3>3 DEF Latest
      <3>5. at - tracks[j].last <= MaxAge
        <4>1. at \in Nat /\ MaxAge \in Nat /\ at - h.ts <= MaxAge
          BY <1>3, <1>21, <3>1, <3>4
        <4>2. QED BY <3>3, <4>1
      <3>6. QED BY <1>8, <3>2, <3>5
    <2>3. QED BY <1>11, <2>1, <2>2
  <1>22. SightOK'
    BY <1>1, <1>20, <1>21 DEF SightOK, Latest
  <1>23. QED BY <1>12, <1>15, <1>16, <1>19, <1>22 DEF TracksIInv

(* The invariant of the stitcher. *)
LEMMA TracksInductive == Spec => []TracksIInv
  <1>1. Init => TracksIInv
    <2> SUFFICES ASSUME TracksInit PROVE TracksIInv
      BY DEF Init
    <2>1. frame = 0 /\ now = 0 /\ tracks = <<>> /\ history = {}
      BY DEF TracksInit
    <2>2. tracks \in Seq(Track) /\ Len(tracks) = 0
      BY <2>1
    <2>3. QED BY <2>1, <2>2
            DEF TracksIInv, TracksTypes, ActiveOK, InstantsOK, PathsOK, SightOK
  <1>2. TracksIInv /\ [Next]_vars => TracksIInv'
    <2> SUFFICES ASSUME TracksIInv, [Next]_vars PROVE TracksIInv'
      OBVIOUS
    <2>1. CASE UNCHANGED trackVars
      BY <2>1 DEF trackVars, TracksIInv, TracksTypes, ActiveOK, InstantsOK, PathsOK, SightOK,
                  Latest
    <2>2. CASE TracksNext
      <3>1. PICK n \in 0..MaxPerFrame : \E seen \in [1..n -> Sightings], dt \in Intervals :
              Frame(seen, dt)
        BY <2>2 DEF TracksNext
      <3>2. QED BY <3>1, FrameStep
    <2>3. QED BY <2>1, <2>2 DEF Next, vars
  <1>3. QED BY <1>1, <1>2, PTL DEF Spec

(* A track has one class and one detection of a frame, survives no silence  *)
(* longer than MaxAge and a frame's interval, and what was seen lately is   *)
(* active.                                                                  *)
THEOREM TracksStaySound == Spec => []TracksSound
  <1>1. TracksIInv => TracksSound
    <2> SUFFICES ASSUME TracksIInv PROVE TracksSound
      OBVIOUS
    <2>1. DOMAIN tracks = 1..Len(tracks)
      BY DEF TracksIInv, TracksTypes
    <2>2. \A i \in DOMAIN tracks :
            /\ now - tracks[i].last <= MaxAge
            /\ \A j \in DOMAIN tracks : tracks[i].id = tracks[j].id => i = j
      BY <2>1 DEF TracksIInv, ActiveOK
    <2>3. \A p \in history : (now - p.ts <= MaxAge) => active(p.track)
      BY <2>1 DEF TracksIInv, SightOK, active
    <2>4. QED BY <2>2, <2>3 DEF TracksSound, TracksIInv, PathsOK
  <1>2. QED BY <1>1, TracksInductive, PTL

-----------------------------------------------------------------------------
(* Scene events. *)

(* The persons that the classifier counts in a zone. *)
occupants(z) ==
  {i \in DOMAIN tracks : /\ tracks[i].cls = "person"
                         /\ inside(z, Last(pointsOf(history, tracks[i].id)))}

(* What an event of each kind has to show. *)
Shown(e, z) ==
  /\ e.zone = z
  /\ \/ /\ e.kind = "person_entered_zone"
        /\ \E i \in DOMAIN tracks : /\ e.tracks = {tracks[i].id}
                                    /\ entered(tracks[i], z, pointsOf(history, tracks[i].id))
     \/ /\ e.kind = "vehicle_stopped"
        /\ \E i \in DOMAIN tracks : /\ e.tracks = {tracks[i].id}
                                    /\ stopped(tracks[i], z, pointsOf(history, tracks[i].id))
     \/ /\ e.kind = "group_gathering"
        /\ e.tracks = {tracks[i].id : i \in occupants(z)}
        /\ Cardinality(occupants(z)) > GroupThreshold

(* The classifier raises no other event, and every gathering. *)
LEMMA Classified ==
  /\ \A e \in classify_scene_events(tracks, history) : \E z \in Zones : Shown(e, z)
  /\ \A z \in Zones : Cardinality(occupants(z)) > GroupThreshold =>
       \E e \in classify_scene_events(tracks, history) : e.kind = "group_gathering" /\ e.zone = z
  <1> DEFINE pts == [i \in DOMAIN tracks |-> pointsOf(history, tracks[i].id)]
             event(kind, z, is) ==
               [kind |-> kind, zone |-> z, tracks |-> {tracks[i].id : i \in is},
                ts |-> Max({Last(pts[i]).ts : i \in is})]
             members(z) == {i \in DOMAIN tracks :
                              tracks[i].cls = "person" /\ inside(z, Last(pts[i]))}
             entries(z) == {i \in DOMAIN tracks : entered(tracks[i], z, pts[i])}
             stops(z) == {i \in DOMAIN tracks : stopped(tracks[i], z, pts[i])}
             gatherings(z) == IF Cardinality(members(z)) > GroupThreshold
                              THEN {event("group_gathering", z, members(z))} ELSE {}
             eventsIn(z) == {event("person_entered_zone", z, {i}) : i \in entries(z)}
                            \cup {event("vehicle_stopped", z, {i}) : i \in stops(z)}
                            \cup gatherings(z)
  <1>1. classify_scene_events(tracks, history) = UNION {eventsIn(z) : z \in Zones}
    BY DEF classify_scene_events
  <1>2. \A i \in DOMAIN tracks : pts[i] = pointsOf(history, tracks[i].id)
    OBVIOUS
  <1>3. \A kind, z, is : /\ event(kind, z, is).kind = kind /\ event(kind, z, is).zone = z
                         /\ event(kind, z, is).tracks = {tracks[i].id : i \in is}
    OBVIOUS
  <1> HIDE DEF pts, event
  <1>4. \A z : members(z) = occupants(z)
    BY <1>2 DEF occupants
  <1>5. \A z : \A i \in entries(z) :
          i \in DOMAIN tracks /\ entered(tracks[i], z, pointsOf(history, tracks[i].id))
    BY <1>2
  <1>6. \A z : \A i \in stops(z) :
          i \in DOMAIN tracks /\ stopped(tracks[i], z, pointsOf(history, tracks[i].id))
    BY <1>2
  <1> HIDE DEF members, entries, stops
  <1>7. \A i : {tracks[j].id : j \in {i}} = {tracks[i].id}
    OBVIOUS
  <1>8. ASSUME NEW z \in Zones, NEW e \in eventsIn(z) PROVE Shown(e, z)
    <2>1. CASE \E i \in entries(z) : e = event("person_entered_zone", z, {i})
      <3>1. PICK i \in entries(z) : e = event("person_entered_zone", z, {i})
        BY <2>1
      <3>2. e.kind = "person_entered_zone" /\ e.zone = z /\ e.tracks = {tracks[i].id}
        BY <1>3, <1>7, <3>1
      <3>3. QED BY <1>5, <3>2, Zenon DEF Shown
    <2>2. CASE \E i \in stops(z) : e = event("vehicle_stopped", z, {i})
      <3>1. PICK i \in stops(z) : e = event("vehicle_stopped", z, {i})
        BY <2>2
      <3>2. e.kind = "vehicle_stopped" /\ e.zone = z /\ e.tracks = {tracks[i].id}
        BY <1>3, <1>7, <3>1
      <3>3. QED BY <1>6, <3>2, Zenon DEF Shown
    <2>3. CASE e \in gatherings(z)
      <3>1. /\ Cardinality(members(z)) > GroupThreshold
            /\ e = event("group_gathering", z, members(z))
        BY <2>3
      <3>2. e.kind = "group_gathering" /\ e.zone = z
            /\ e.tracks = {tracks[i].id : i \in members(z)}
        BY <1>3, <3>1
      <3>3. QED BY <1>4, <3>1, <3>2 DEF Shown
    <2>4. QED BY <1>8, <2>1, <2>2, <2>3
  <1>9. ASSUME NEW z \in Zones, Cardinality(occupants(z)) > GroupThreshold
        PROVE  \E e \in eventsIn(z) : e.kind = "group_gathering" /\ e.zone = z
    <2> DEFINE e == event("group_gathering", z, members(z))
    <2>1. e \in gatherings(z)
      BY <1>4, <1>9
    <2>2. e.kind = "group_gathering" /\ e.zone = z
      BY <1>3
    <2> HIDE DEF e, gatherings
    <2>3. QED BY <2>1, <2>2
  <1> HIDE DEF eventsIn
  <1>10. QED BY <1>1, <1>8, <1>9

(* The points of a track: each a sighting, each sighting one, in time. *)
Trail(t, pts) ==
  /\ Len(pts) \in Nat /\ DOMAIN pts = 1..Len(pts)
  /\ \A k \in 1..Len(pts) : \E h \in history :
       h.track = t /\ pts[k].ts = h.ts /\ pts[k].x = h.x /\ pts[k].y = h.y
  /\ \A h \in history : h.track = t => \E k \in 1..Len(pts) :
       pts[k].ts = h.ts /\ pts[k].x = h.x /\ pts[k].y = h.y
  /\ \A j, k \in 1..Len(pts) : j < k => pts[j].ts < pts[k].ts

(* Two sightings of a track at the same time are one. *)
LEMMA OneAtATime ==
  ASSUME TracksIInv, NEW p \in history, NEW q \in history, p.track = q.track
  PROVE  /\ p.ts = q.ts => p = q
         /\ p.ts < q.ts => p.frame < q.frame
  <1>1. /\ p.frame \in Nat /\ q.frame \in Nat /\ p.ts \in Nat /\ q.ts \in Nat
    BY DEF TracksIInv, TracksTypes, Point
  <1>2. p.frame = q.frame => p = q
    BY DEF TracksIInv, PathsOK
  <1>3. (p.frame < q.frame => p.ts < q.ts) /\ (q.frame < p.frame => q.ts < p.ts)
    BY DEF TracksIInv, InstantsOK
  <1>4. QED BY <1>1, <1>2, <1>3

(* pointsOf gives the trail of a track. *)
LEMMA PointsTrail ==
  ASSUME TracksIInv, NEW t
  PROVE  Trail(t, pointsOf(history, t))
  <1> DEFINE pt(p) == [ts |-> p.ts, x |-> p.x, y |-> p.y]
             seen == {h \in history : h.track = t}
             P == {pt(p) : p \in seen}
             before == {p \in P \X P : pointOrder(p[1], p[2])}
             s == inOrder(P, before)
  <1>1. pointsOf(history, t) = s
    BY DEF pointsOf
  <1>2. \A p \in history : /\ p.ts \in Nat /\ p.x \in Int /\ p.y \in Int /\ p.ts <= now
    BY DEF TracksIInv, TracksTypes, InstantsOK, Point
  <1>3. \A p : pt(p).ts = p.ts /\ pt(p).x = p.x /\ pt(p).y = p.y
    OBVIOUS
  <1>4. \A a, b \in P : <<a, b>> \in before <=> pointOrder(a, b)
    OBVIOUS
  <1>5. \A a \in P : \E p \in history : p.track = t /\ a = pt(p)
    OBVIOUS
  <1>6. \A p \in history : p.track = t => pt(p) \in P
    OBVIOUS
  <1> HIDE DEF pt, before, P
  <1>7. \A a \in P : a.ts \in Nat /\ a.ts <= now /\ a.x \in Int /\ a.y \in Int
    BY <1>2, <1>3, <1>5
  <1>8. ASSUME NEW a \in P, NEW b \in P, a.ts = b.ts PROVE a = b
    <2>1. PICK p \in history : p.track = t /\ a = pt(p)
      BY <1>5
    <2>2. PICK q \in history : q.track = t /\ b = pt(q)
      BY <1>5
    <2>3. p.ts = q.ts
      BY <1>3, <1>8, <2>1, <2>2
    <2>4. p = q
      BY <2>1, <2>2, <2>3, OneAtATime
    <2>5. QED BY <2>1, <2>2, <2>4
  <1>9. \A a, b \in P : <<a, b>> \in before <=> a.ts < b.ts
    <2> SUFFICES ASSUME NEW a \in P, NEW b \in P PROVE pointOrder(a, b) <=> a.ts < b.ts
      BY <1>4
    <2>1. CASE a = b
      BY <1>7, <2>1 DEF pointOrder
    <2>2. CASE a.ts # b.ts
      BY <1>7, <2>2 DEF pointOrder
    <2>3. QED BY <1>8, <2>1, <2>2
  <1>10. StrictOrder(P, before)
    <2>1. \A a \in P : <<a, a>> \notin before
      BY <1>7, <1>9
    <2>2. \A a, b \in P : a = b \/ <<a, b>> \in before \/ <<b, a>> \in before
      <3> SUFFICES ASSUME NEW a \in P, NEW b \in P, a # b
                   PROVE  <<a, b>> \in before \/ <<b, a>> \in before
        OBVIOUS
      <3>1. a.ts \in Nat /\ b.ts \in Nat /\ a.ts # b.ts
        BY <1>7, <1>8
      <3>2. a.ts < b.ts \/ b.ts < a.ts
        BY <3>1
      <3>3. QED BY <1>9, <3>2
    <2>3. \A a, b, c \in P : <<a, b>> \in before /\ <<b, c>> \in before => <<a, c>> \in before
      BY <1>7, <1>9
    <2>4. QED BY <2>1, <2>2, <2>3 DEF StrictOrder
  <1>11. IsFiniteSet(P)
    <2> DEFINE f == [a \in P |-> a.ts]
               K == 0..now
    <2>1. f \in Injection(P, K)
      <3>1. f \in [P -> K]
        BY <1>7
      <3>2. \A a, b \in P : f[a] = f[b] => a = b
        BY <1>8
      <3> HIDE DEF f, K
      <3>3. QED BY <3>1, <3>2 DEF Injection, IsInjective
    <2>2. IsFiniteSet(K)
      BY FS_Interval DEF TracksIInv, TracksTypes
    <2> HIDE DEF f, K
    <2>3. QED BY <2>1, <2>2, FS_Injection
  <1>12. /\ s \in Seq(P) /\ Len(s) = Cardinality(P) /\ Cardinality(P) \in Nat
         /\ \A d \in P : \E k \in 1..Cardinality(P) : s[k] = d
         /\ \A j, k \in 1..Cardinality(P) : j < k => <<s[j], s[k]>> \in before
    BY <1>10, <1>11, Sorted
  <1> HIDE DEF s
  <1>13. Len(s) \in Nat /\ DOMAIN s = 1..Len(s) /\ \A k \in 1..Len(s) : s[k] \in P
    BY <1>12
  <1>14. ASSUME NEW k \in 1..Len(s)
         PROVE  \E h \in history : h.track = t /\ s[k].ts = h.ts /\ s[k].x = h.x /\ s[k].y = h.y
    BY <1>3, <1>5, <1>13
  <1>15. ASSUME NEW h \in history, h.track = t
         PROVE  \E k \in 1..Len(s) : s[k].ts = h.ts /\ s[k].x = h.x /\ s[k].y = h.y
    <2>1. PICK k \in 1..Len(s) : s[k] = pt(h)
      BY <1>6, <1>12, <1>15
    <2>2. QED BY <1>3, <2>1
  <1>16. \A j, k \in 1..Len(s) : j < k => s[j].ts < s[k].ts
    BY <1>9, <1>12, <1>13
  <1>17. QED BY <1>1, <1>13, <1>14, <1>15, <1>16 DEF Trail

(* The last point of an active track: not older than MaxAge. *)
LEMMA LastPoint ==
  ASSUME TracksIInv, NEW i \in DOMAIN tracks
  PROVE  LET pts == pointsOf(history, tracks[i].id)
         IN  /\ Trail(tracks[i].id, pts) /\ Len(pts) \in 1..Len(pts)
             /\ Last(pts) = pts[Len(pts)]
             /\ \E h \in history : /\ h.track = tracks[i].id /\ h.ts >= now - MaxAge
                                   /\ h.ts = Last(pts).ts
                                   /\ h.x = Last(pts).x /\ h.y = Last(pts).y
  <1> DEFINE t == tracks[i].id
             pts == pointsOf(history, t)
             n == Len(pts)
  <1>1. Trail(t, pts)
    BY PointsTrail
  <1>2. Last(pts) = pts[n]
    BY DEF Last
  <1>3. i \in 1..Len(tracks) /\ now \in Nat /\ tracks[i] \in Track
    BY DEF TracksIInv, TracksTypes
  <1>4. PICK g \in history : g.track = t /\ g.ts = tracks[i].last
    BY <1>3 DEF TracksIInv, SightOK
  <1>5. now - g.ts <= MaxAge
    BY <1>3, <1>4 DEF TracksIInv, ActiveOK
  <1> HIDE DEF pts, t
  <1>6. PICK k \in 1..n : pts[k].ts = g.ts
    BY <1>1, <1>4 DEF Trail
  <1>7. n \in Nat /\ n \in 1..n /\ (k = n \/ k < n)
    <2>1. n \in Nat
      BY <1>1 DEF Trail
    <2> HIDE DEF n
    <2>2. QED BY <2>1
  <1>8. PICK h \in history : h.track = t /\ pts[n].ts = h.ts /\ pts[n].x = h.x /\ pts[n].y = h.y
    BY <1>1, <1>7 DEF Trail
  <1>9. \A p \in history : p.ts \in Nat
    BY DEF TracksIInv, TracksTypes, Point
  <1>10. pts[k].ts <= pts[n].ts
    <2>1. CASE k = n
      BY <1>6, <1>9, <2>1
    <2>2. CASE k < n
      <3>1. pts[k].ts < pts[n].ts
        BY <1>1, <1>7, <2>2 DEF Trail
      <3>2. QED BY <1>6, <1>8, <1>9, <3>1
    <2>3. QED BY <1>7, <2>1, <2>2
  <1>11. h.ts >= now - MaxAge
    <2>1. g.ts \in Nat /\ h.ts \in Nat /\ g.ts <= h.ts
      BY <1>6, <1>8, <1>9, <1>10
    <2>2. now \in Nat /\ MaxAge \in Nat /\ now - g.ts <= MaxAge
      BY <1>3, <1>5, TracksAssumption
    <2>3. QED BY <2>1, <2>2
  <1>12. h.ts = Last(pts).ts /\ h.x = Last(pts).x /\ h.y = Last(pts).y
    BY <1>2, <1>8
  <1>13. QED BY <1>1, <1>2, <1>7, <1>8, <1>11, <1>12, Zenon DEF pts, t

(* As in EventsHaveEvidence. *)
seenIn(t, z, since) ==
  \E p \in history : p.track = t /\ inside(z, p) /\ p.ts >= since

(* A track whose last point is inside a zone was seen there lately. *)
LEMMA SeenInside ==
  ASSUME TracksIInv, NEW i \in DOMAIN tracks, NEW z,
         inside(z, Last(pointsOf(history, tracks[i].id)))
  PROVE  active(tracks[i].id) /\ seenIn(tracks[i].id, z, now - MaxAge)
  <1> DEFINE pts == pointsOf(history, tracks[i].id)
  <1>1. PICK h \in history : /\ h.track = tracks[i].id /\ h.ts >= now - MaxAge
                             /\ h.x = Last(pts).x /\ h.y = Last(pts).y
    BY LastPoint
  <1>2. inside(z, h)
    BY <1>1 DEF inside
  <1>3. QED BY <1>1, <1>2 DEF active, seenIn

(* An entry: one sighting outside and a later one inside. *)
LEMMA EntryShown ==
  ASSUME TracksIInv, NEW i \in DOMAIN tracks, NEW z,
         entered(tracks[i], z, pointsOf(history, tracks[i].id))
  PROVE  \E p, q \in {h \in history : h.track = tracks[i].id} :
           ~inside(z, p) /\ inside(z, q) /\ p.frame < q.frame
  <1> DEFINE t == tracks[i].id
             pts == pointsOf(history, t)
             n == Len(pts)
  <1>1. Trail(t, pts) /\ Last(pts) = pts[n]
    BY LastPoint
  <1>2. n >= 2 /\ inside(z, Last(pts)) /\ ~inside(z, pts[n - 1])
    BY DEF entered
  <1> HIDE DEF pts, t
  <1>3. n \in Nat /\ n \in 1..n /\ n - 1 \in 1..n /\ n - 1 < n
    BY <1>1, <1>2 DEF Trail
  <1>4. PICK p \in history : /\ p.track = t /\ pts[n - 1].ts = p.ts
                             /\ pts[n - 1].x = p.x /\ pts[n - 1].y = p.y
    BY <1>1, <1>3 DEF Trail
  <1>5. PICK q \in history : q.track = t /\ pts[n].ts = q.ts /\ pts[n].x = q.x /\ pts[n].y = q.y
    BY <1>1, <1>3 DEF Trail
  <1>6. pts[n - 1].ts < pts[n].ts
    BY <1>1, <1>3 DEF Trail
  <1>7. p.frame < q.frame
    BY <1>4, <1>5, <1>6, OneAtATime
  <1>8. ~inside(z, p) /\ inside(z, q)
    BY <1>1, <1>2, <1>4, <1>5 DEF inside
  <1>9. QED BY <1>4, <1>5, <1>7, <1>8 DEF t

(* Between two points of a trail that follow one another, no more time than *)
(* a track survives and a frame takes.                                      *)
LEMMA NoGap ==
  ASSUME TracksIInv, NEW t, NEW pts, Trail(t, pts), NEW k \in 1..Len(pts), k + 1 \in 1..Len(pts),
         NEW p \in history, NEW q \in history, p.track = t, q.track = t,
         p.ts = pts[k].ts, q.ts = pts[k + 1].ts
  PROVE  q.ts - p.ts <= MaxAge + Max(Intervals)
  <1>1. k < k + 1 /\ Len(pts) \in Nat
    BY DEF Trail
  <1>2. p.ts < q.ts
    BY <1>1 DEF Trail
  <1>3. p.frame < q.frame
    BY <1>2, OneAtATime
  <1>4. SUFFICES ASSUME NEW h \in history, h.track = t, h.frame > p.frame, h.frame < q.frame
                 PROVE  FALSE
    BY <1>3 DEF TracksIInv, PathsOK
  <1>5. p.frame \in Nat /\ q.frame \in Nat /\ h.frame \in Nat
    BY DEF TracksIInv, TracksTypes, Point
  <1>6. p.frame < h.frame
    BY <1>4, <1>5
  <1>7. p.ts < h.ts /\ h.ts < q.ts
    BY <1>4, <1>6 DEF TracksIInv, InstantsOK
  <1>8. PICK l \in 1..Len(pts) : pts[l].ts = h.ts
    BY <1>4 DEF Trail
  <1>9. h.ts \in Nat /\ p.ts \in Nat /\ q.ts \in Nat
    BY DEF TracksIInv, TracksTypes, Point
  <1>10. l \in Nat /\ k \in Nat /\ (l < k \/ l = k \/ l = k + 1 \/ k + 1 < l)
    BY <1>1
  <1>11. CASE l < k
    <2>1. pts[l].ts < pts[k].ts
      BY <1>11 DEF Trail
    <2>2. QED BY <1>7, <1>8, <1>9, <2>1
  <1>12. CASE k + 1 < l
    <2>1. pts[k + 1].ts < pts[l].ts
      BY <1>12 DEF Trail
    <2>2. QED BY <1>7, <1>8, <1>9, <2>1
  <1>13. CASE l = k \/ l = k + 1
    BY <1>7, <1>8, <1>9, <1>13
  <1>14. QED BY <1>10, <1>11, <1>12, <1>13

(* What a stop rests on. *)
AtRest(p, q) ==
  /\ q.ts - p.ts > StoppedSeconds
  /\ \A h \in history : h.track = p.track /\ h.ts >= p.ts /\ h.ts < q.ts =>
       \E k \in history : /\ k.track = p.track /\ k.ts > h.ts
                          /\ k.ts - h.ts <= MaxAge + Max(Intervals)
                          /\ nearby(h, k)

(* A stop: the trailing run of points near to one another. *)
LEMMA StopShown ==
  ASSUME TracksIInv, NEW i \in DOMAIN tracks, NEW z,
         stopped(tracks[i], z, pointsOf(history, tracks[i].id))
  PROVE  \E p, q \in {h \in history : h.track = tracks[i].id} : AtRest(p, q)
  <1> DEFINE t == tracks[i].id
             pts == pointsOf(history, t)
             n == Len(pts)
             still(j) == \A l \in j..n - 1 : nearby(pts[l], pts[l + 1])
             run == {j \in DOMAIN pts : still(j)}
             m == Min(run)
  <1>1. Trail(t, pts) /\ Last(pts) = pts[n] /\ n \in 1..n
    BY LastPoint
  <1>2. Last(pts).ts - pts[m].ts > StoppedSeconds
    BY DEF stopped, trailingStationarySpan
  <1> HIDE DEF pts, t
  <1>3. n \in Nat /\ DOMAIN pts = 1..n
    BY <1>1 DEF Trail
  <1>4. m \in 1..n /\ still(m)
    <2>1. run \subseteq Nat /\ n \in run
      BY <1>1, <1>3
    <2> HIDE DEF run
    <2>2. \E x \in run : \A y \in run : x <= y
      BY <2>1, LeastMember
    <2>3. m \in run
      BY <2>2 DEF Min
    <2>4. QED BY <1>3, <2>3 DEF run
  <1> HIDE DEF run, m
  <1>5. PICK p \in history : p.track = t /\ pts[m].ts = p.ts
    BY <1>1, <1>4 DEF Trail
  <1>6. PICK q \in history : q.track = t /\ pts[n].ts = q.ts
    BY <1>1 DEF Trail
  <1>7. q.ts - p.ts > StoppedSeconds
    BY <1>1, <1>2, <1>5, <1>6
  <1>8. \A h \in history : h.ts \in Nat
    BY DEF TracksIInv, TracksTypes, Point
  <1>9. ASSUME NEW h \in history, h.track = p.track, h.ts >= p.ts, h.ts < q.ts
        PROVE  \E k \in history : /\ k.track = p.track /\ k.ts > h.ts
                                  /\ k.ts - h.ts <= MaxAge + Max(Intervals)
                                  /\ nearby(h, k)
    <2>1. PICK j \in 1..n : pts[j].ts = h.ts /\ pts[j].x = h.x /\ pts[j].y = h.y
      BY <1>1, <1>5, <1>9 DEF Trail
    <2>2. ~(j < m)
      <3>1. j < m => pts[j].ts < pts[m].ts
        BY <1>1, <1>4 DEF Trail
      <3>2. QED BY <1>5, <1>8, <1>9, <2>1, <3>1
    <2>3. j # n
      BY <1>6, <1>8, <1>9, <2>1
    <2>4. j \in m..n - 1 /\ j + 1 \in 1..n /\ j < j + 1
      <3>1. j \in 1..n /\ m \in 1..n /\ n \in Nat
        BY <1>3, <1>4
      <3> HIDE DEF n
      <3>2. QED BY <2>2, <2>3, <3>1
    <2>5. nearby(pts[j], pts[j + 1])
      BY <1>4, <2>4
    <2>6. PICK k \in history : /\ k.track = t /\ pts[j + 1].ts = k.ts
                               /\ pts[j + 1].x = k.x /\ pts[j + 1].y = k.y
      BY <1>1, <2>4 DEF Trail
    <2>7. pts[j].ts < pts[j + 1].ts
      BY <1>1, <2>4 DEF Trail
    <2>8. k.ts > h.ts
      BY <1>8, <2>1, <2>6, <2>7
    <2>9. k.ts - h.ts <= MaxAge + Max(Intervals)
      BY <1>1, <1>5, <1>9, <2>1, <2>4, <2>6, NoGap
    <2>10. nearby(h, k)
      BY <2>1, <2>5, <2>6 DEF nearby
    <2>11. QED BY <1>5, <2>6, <2>8, <2>9, <2>10
  <1>10. AtRest(p, q)
    BY <1>7, <1>9 DEF AtRest
  <1>11. QED BY <1>5, <1>6, <1>10 DEF t

(* The tracks of a gathering are as many as the classifier counted. *)
LEMMA GatheringSize ==
  ASSUME TracksIInv, NEW z
  PROVE  /\ IsFiniteSet(occupants(z)) /\ Cardinality(occupants(z)) \in Nat
         /\ IsFiniteSet({tracks[i].id : i \in occupants(z)})
         /\ Cardinality({tracks[i].id : i \in occupants(z)}) = Cardinality(occupants(z))
  <1> DEFINE O == occupants(z)
             ids == {tracks[i].id : i \in O}
             f == [i \in O |-> tracks[i].id]
             K == 1..Len(tracks)
  <1>1. DOMAIN tracks = K /\ Len(tracks) \in Nat
    BY DEF TracksIInv, TracksTypes
  <1>2. O \in SUBSET K
    BY <1>1 DEF occupants
  <1>3. \A i, j \in K : tracks[i].id = tracks[j].id => i = j
    BY DEF TracksIInv, ActiveOK
  <1>4. IsFiniteSet(K)
    BY <1>1, FS_Interval
  <1> HIDE DEF O, K
  <1>5. IsFiniteSet(O) /\ Cardinality(O) \in Nat
    BY <1>2, <1>4, FS_Subset, FS_CardinalityType
  <1>6. f \in Surjection(O, ids)
    BY DEF Surjection
  <1>7. f \in Injection(O, ids)
    BY <1>2, <1>3 DEF Injection, IsInjective
  <1> HIDE DEF f, ids
  <1>8. IsFiniteSet(ids) /\ Cardinality(ids) = Cardinality(O)
    BY <1>5, <1>6, <1>7, FS_Surjection
  <1>9. QED BY <1>5, <1>8 DEF ids, O

(* Persons seen in this frame inside a zone. *)
seenNow(z) ==
  {p.track : p \in {h \in history : h.frame = frame /\ h.cls = "person" /\ inside(z, h)}}

(* The classifier counts every one of them. *)
LEMMA AllCounted ==
  ASSUME TracksIInv, NEW z
  PROVE  Cardinality(seenNow(z)) <= Cardinality(occupants(z)) /\ Cardinality(seenNow(z)) \in Nat
  <1>1. ASSUME NEW h \in history, h.frame = frame, h.cls = "person", inside(z, h)
        PROVE  \E i \in occupants(z) : tracks[i].id = h.track
    <2>1. /\ now \in Nat /\ DOMAIN tracks = 1..Len(tracks) /\ now - now <= MaxAge
          /\ \A p \in history : p.ts \in Nat /\ p.ts <= now
      BY TracksAssumption DEF TracksIInv, TracksTypes, InstantsOK, Point
    <2>2. h.ts = now
      BY <1>1 DEF TracksIInv, InstantsOK
    <2>3. PICK i \in 1..Len(tracks) : tracks[i].id = h.track
      BY <2>1, <2>2 DEF TracksIInv, SightOK
    <2>4. PICK g \in history : g.track = tracks[i].id /\ g.cls = tracks[i].cls
      BY DEF TracksIInv, SightOK
    <2>5. tracks[i].cls = "person"
      BY <1>1, <2>3, <2>4 DEF TracksIInv, PathsOK
    <2> DEFINE t == tracks[i].id
               pts == pointsOf(history, t)
               n == Len(pts)
    <2>6. Trail(t, pts) /\ Last(pts) = pts[n] /\ n \in 1..n
      BY <2>1, LastPoint
    <2>7. h.track = t
      BY <2>3
    <2> HIDE DEF pts, t
    <2>8. PICK k \in 1..n : pts[k].ts = h.ts /\ pts[k].x = h.x /\ pts[k].y = h.y
      BY <1>1, <2>6, <2>7 DEF Trail
    <2>9. k = n
      <3>1. SUFFICES ASSUME k < n PROVE FALSE
        <4>1. n \in Nat
          BY <2>6 DEF Trail
        <4> HIDE DEF n
        <4>2. QED BY <4>1
      <3>2. pts[k].ts < pts[n].ts
        BY <2>6, <3>1 DEF Trail
      <3>3. PICK p \in history : pts[n].ts = p.ts
        BY <2>6 DEF Trail
      <3>4. QED BY <2>1, <2>2, <2>8, <3>2, <3>3
    <2>10. inside(z, Last(pts))
      BY <1>1, <2>6, <2>8, <2>9 DEF inside
    <2>11. i \in occupants(z)
      BY <2>1, <2>5, <2>10 DEF occupants, pts, t
    <2>12. QED BY <2>3, <2>11
  <1>2. \A t \in seenNow(z) : t \in {tracks[i].id : i \in occupants(z)}
    BY <1>1 DEF seenNow
  <1> DEFINE S == seenNow(z)
             T == {tracks[i].id : i \in occupants(z)}
  <1>3. S \in SUBSET T
    BY <1>2
  <1>4. IsFiniteSet(T) /\ Cardinality(T) = Cardinality(occupants(z))
    BY GatheringSize
  <1> HIDE DEF S, T
  <1>5. Cardinality(S) <= Cardinality(T) /\ IsFiniteSet(S) /\ Cardinality(S) \in Nat
    BY <1>3, <1>4, FS_Subset, FS_CardinalityType
  <1>6. QED BY <1>4, <1>5 DEF S

(* The events are those of the tracks and histories as they are. *)
EventsOK == delivered \subseteq events /\ events = classify_scene_events(tracks, history)

(* What the classifier says has its evidence. *)
LEMMA EvidenceForAll ==
  ASSUME TracksIInv, EventsOK
  PROVE  EventsHaveEvidence
  <1>1. ASSUME NEW e \in events
        PROVE  /\ \A t \in e.tracks : active(t) /\ seenIn(t, e.zone, now - MaxAge)
               /\ e.kind = "group_gathering" => Cardinality(e.tracks) > GroupThreshold
               /\ e.kind = "vehicle_stopped" =>
                    \E p, q \in {h \in history : h.track \in e.tracks} : AtRest(p, q)
               /\ e.kind = "person_entered_zone" =>
                    \E p, q \in {h \in history : h.track \in e.tracks} :
                      ~inside(e.zone, p) /\ inside(e.zone, q) /\ p.frame < q.frame
    <2>1. PICK z \in Zones : Shown(e, z)
      BY Classified DEF EventsOK
    <2>2. e.zone = z
      BY <2>1 DEF Shown
    <2>3. CASE e.kind = "person_entered_zone"
      <3>1. PICK i \in DOMAIN tracks : /\ e.tracks = {tracks[i].id}
                                       /\ entered(tracks[i], z, pointsOf(history, tracks[i].id))
        BY <2>1, <2>3 DEF Shown
      <3>2. inside(z, Last(pointsOf(history, tracks[i].id)))
        BY <3>1 DEF entered
      <3>3. active(tracks[i].id) /\ seenIn(tracks[i].id, z, now - MaxAge)
        BY <3>2, SeenInside
      <3>4. \E p, q \in {h \in history : h.track = tracks[i].id} :
              ~inside(z, p) /\ inside(z, q) /\ p.frame < q.frame
        BY <3>1, EntryShown
      <3>5. {h \in history : h.track \in e.tracks} = {h \in history : h.track = tracks[i].id}
        BY <3>1
      <3>6. \A t \in e.tracks : t = tracks[i].id
        BY <3>1
      <3>7. QED BY <2>2, <2>3, <3>3, <3>4, <3>5, <3>6
    <2>4. CASE e.kind = "vehicle_stopped"
      <3>1. PICK i \in DOMAIN tracks : /\ e.tracks = {tracks[i].id}
                                       /\ stopped(tracks[i], z, pointsOf(history, tracks[i].id))
        BY <2>1, <2>4 DEF Shown
      <3>2. inside(z, Last(pointsOf(history, tracks[i].id)))
        BY <3>1 DEF stopped
      <3>3. active(tracks[i].id) /\ seenIn(tracks[i].id, z, now - MaxAge)
        BY <3>2, SeenInside
      <3>4. \E p, q \in {h \in history : h.track = tracks[i].id} : AtRest(p, q)
        BY <3>1, StopShown
      <3>5. {h \in history : h.track \in e.tracks} = {h \in history : h.track = tracks[i].id}
        BY <3>1
      <3>6. \A t \in e.tracks : t = tracks[i].id
        BY <3>1
      <3>7. QED BY <2>2, <2>4, <3>3, <3>4, <3>5, <3>6
    <2>5. CASE e.kind = "group_gathering"
      <3>1. /\ e.tracks = {tracks[i].id : i \in occupants(z)}
            /\ Cardinality(occupants(z)) > GroupThreshold
        BY <2>1, <2>5 DEF Shown
      <3>2. ASSUME NEW t \in e.tracks PROVE active(t) /\ seenIn(t, z, now - MaxAge)
        <4>1. PICK i \in occupants(z) : t = tracks[i].id
          BY <3>1
        <4>2. i \in DOMAIN tracks /\ inside(z, Last(pointsOf(history, tracks[i].id)))
          BY DEF occupants
        <4>3. active(tracks[i].id) /\ seenIn(tracks[i].id, z, now - MaxAge)
          BY <4>2, SeenInside
        <4>4. QED BY <4>1, <4>3
      <3>3. Cardinality(e.tracks) > GroupThreshold
        BY <3>1, GatheringSize
      <3>4. QED BY <2>2, <2>5, <3>2, <3>3
    <2>6. QED BY <2>1, <2>3, <2>4, <2>5 DEF Shown
  <1>2. ASSUME NEW z \in Zones, Cardinality(seenNow(z)) > GroupThreshold
        PROVE  \E e \in events : e.kind = "group_gathering" /\ e.zone = z
    <2>1. Cardinality(occupants(z)) > GroupThreshold
      <3>1. /\ Cardinality(seenNow(z)) <= Cardinality(occupants(z))
            /\ Cardinality(seenNow(z)) \in Nat /\ Cardinality(occupants(z)) \in Nat
            /\ GroupThreshold \in Nat
        BY AllCounted, GatheringSize, TracksAssumption
      <3>2. QED BY <1>2, <3>1
    <2>2. QED BY <2>1, Classified DEF EventsOK
  <1>3. delivered \subseteq events
    BY DEF EventsOK
  <1>4. QED BY <1>1, <1>2, <1>3, Zenon DEF EventsHaveEvidence, seenIn, AtRest, seenNow

(* Every scene event rests on sightings, and a crowd of this frame has its  *)
(* gathering.                                                               *)
THEOREM EventsStayFounded == Spec => []EventsHaveEvidence
  <1>1. Init => EventsOK
    <2> SUFFICES ASSUME TracksInit PROVE EventsOK
      BY DEF Init
    <2>1. tracks = <<>> /\ events = {} /\ delivered = {}
      BY DEF TracksInit
    <2>2. ASSUME NEW e \in classify_scene_events(tracks, history) PROVE FALSE
      <3>1. PICK z \in Zones : Shown(e, z)
        BY Classified
      <3>2. DOMAIN tracks = {}
        BY <2>1
      <3>3. occupants(z) = {}
        BY <3>2 DEF occupants
      <3>4. Cardinality(occupants(z)) = 0 /\ GroupThreshold \in Nat
        BY <3>3, FS_EmptySet, TracksAssumption
      <3>5. QED BY <3>1, <3>2, <3>4 DEF Shown
    <2>3. classify_scene_events(tracks, history) = {}
      BY <2>2
    <2>4. QED BY <2>1, <2>3 DEF EventsOK
  <1>2. EventsOK /\ [Next]_vars => EventsOK'
    <2> SUFFICES ASSUME EventsOK, [Next]_vars PROVE EventsOK'
      OBVIOUS
    <2>1. CASE UNCHANGED trackVars
      <3>1. tracks' = tracks /\ history' = history /\ events' = events /\ delivered' = delivered
        BY <2>1 DEF trackVars
      <3>2. QED BY <3>1 DEF EventsOK
    <2>2. CASE TracksNext
      <3>1. PICK n \in 0..MaxPerFrame : \E seen \in [1..n -> Sightings], dt \in Intervals :
              Frame(seen, dt)
        BY <2>2 DEF TracksNext
      <3>2. PICK seen \in [1..n -> Sightings], dt \in Intervals : Frame(seen, dt)
        BY <3>1
      <3>3. events' = classify_scene_events(tracks', history') /\ delivered' \subseteq events'
        BY <3>2 DEF Frame
      <3>4. QED BY <3>3 DEF EventsOK
    <2>3. QED BY <2>1, <2>2 DEF Next, vars
  <1>3. QED BY <1>1, <1>2, EvidenceForAll, TracksInductive, PTL DEF Spec
=============================================================================
