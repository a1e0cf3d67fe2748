------------------------------ MODULE Dispatch ------------------------------
(***************************************************************************)
(* The notification dispatcher of alert-notification                       *)
(* (dispatch/dispatch.service.ts, dispatch/dispatch.logic.ts): an alert is *)
(* sent to every channel of its rule, with retries and backoff, and each   *)
(* failed channel falls back to the in-app push.                           *)
(*                                                                         *)
(* Dispatches of one alert may overlap (two escalation sweeps).  They      *)
(* share only the Redis marker of failed channels; what each decides by is *)
(* local to the call.  A transport that reports an error may have          *)
(* delivered all the same.                                                 *)
(***************************************************************************)
EXTENDS Integers, Sequences, FiniteSets, Selections

CONSTANTS
  Calls,        \* dispatch() calls that may be in flight together
  ChannelLists, \* the channels a rule may have, in order
  maxAttempts,  \* RetryPolicy.maxAttempts, before resolveRetryPolicy
  baseDelayMs, backoffFactor, maxDelayMs

ChannelTypes == {"in_app", "email", "whatsapp"}

NoTarget == ""

ASSUME DispatchAssumption ==
  /\ ChannelLists \subseteq Seq([type : ChannelTypes \cup {"sms"}, target : STRING])
  /\ maxAttempts \in Int
  /\ baseDelayMs \in Int /\ backoffFactor \in Int /\ maxDelayMs \in Int

VARIABLES
  call,     \* call[d]: the dispatch call d
  marker,   \* alert:failed-channels:{alertId}, never expired
  sends,    \* history: sends[d][k]: transport.send() calls for channel k of d
  received  \* history: received[d]: channels of d some message arrived on

vars == <<call, marker, sends, received>>

-----------------------------------------------------------------------------
(* dispatch.logic.ts *)

atLeast(low, v) == IF v > low THEN v ELSE low

(* resolveRetryPolicy clamps what a misconfiguration may say. *)
policy ==
  [maxAttempts   |-> atLeast(1, maxAttempts),
   baseDelayMs   |-> atLeast(0, baseDelayMs),
   backoffFactor |-> atLeast(1, backoffFactor),
   maxDelayMs    |-> atLeast(0, maxDelayMs)]

(* base * factor ^ attemptIndex, capped. *)
backoffDelayMs(attemptIndex) ==
  LET raw[n \in 0..attemptIndex] ==
        IF n = 0 THEN policy.baseDelayMs ELSE raw[n - 1] * policy.backoffFactor
  IN  IF raw[attemptIndex] < policy.maxDelayMs THEN raw[attemptIndex] ELSE policy.maxDelayMs

(* Mutant: channels are told apart by their type only. *)
fanOutByType(channels) ==
  LET out[n \in 0..Len(channels)] ==
        IF n = 0 THEN <<>>
        ELSE LET seen == out[n - 1]
             IN  IF \E i \in DOMAIN seen : seen[i].type = channels[n].type THEN seen
                 ELSE Append(seen, channels[n])
  IN  out[Len(channels)]

(* The configured channels, in order, repeated entries once: out[n] is the  *)
(* list after n of them.                                                    *)
fanOutChannels(channels) ==
  LET out[n \in 0..Len(channels)] ==
        IF n = 0 THEN <<>>
        ELSE LET seen == out[n - 1]
             IN  IF \E i \in DOMAIN seen : seen[i] = channels[n] THEN seen
                 ELSE Append(seen, channels[n])
  IN  out[Len(channels)]

shouldFallbackToInApp(failed, inAppHealthy) ==
  failed # "in_app" /\ inAppHealthy

-----------------------------------------------------------------------------
(***************************************************************************)
(* A call works through `todo`, the primary channels first and the in-app  *)
(* fallbacks after them; results are [channel, ok, attempts, viaFallback]. *)
(***************************************************************************)
InApp == [type |-> "in_app", target |-> NoTarget]

Idle == [pc |-> "idle", channels |-> <<>>, targets |-> <<>>, todo |-> <<>>, fallback |-> FALSE,
         attempts |-> 0, waitMs |-> 0, inAppHealthy |-> TRUE, results |-> <<>>]

current(d) ==
  IF call[d].fallback THEN InApp ELSE Head(call[d].todo)

hasTransport(type) == type \in ChannelTypes

Init ==
  /\ call     = [d \in Calls |-> Idle]
  /\ marker   = {}
  /\ sends    = [d \in Calls |-> 0]
  /\ received = [d \in Calls |-> {}]

Begin(d) ==
  /\ call[d].pc = "idle"
  /\ \E channels \in ChannelLists :
       LET targets == fanOutChannels(channels)
       IN  call' = [call EXCEPT ![d] = [Idle EXCEPT
                      !.pc = "next", !.channels = channels,
                      !.targets = targets, !.todo = targets]]
  /\ UNCHANGED <<marker, sends, received>>

failedPrimaries(results) ==
  kept(results, {i \in DOMAIN results : ~results[i].ok /\ ~results[i].viaFallback})

(* What makeResult reports of the delivery that has just ended. *)
resultOf(r, type, ok, attempts) ==
  [channel |-> type, ok |-> ok, attempts |-> attempts, viaFallback |-> r.fallback]

(* Mutant: the in-app channel stays healthy after a failed fallback. *)
endedUnhealthy(r, type, ok, attempts) ==
  [r EXCEPT !.pc = IF ok THEN "next" ELSE "record",
            !.todo = Tail(@), !.attempts = 0, !.waitMs = 0,
            !.results = Append(@, resultOf(r, type, ok, attempts)),
            !.inAppHealthy = @ /\ (ok \/ type # "in_app" \/ r.fallback)]

(* The record of the call after a delivery: a failure is recorded in Redis  *)
(* next, and a failed in-app delivery makes that channel unhealthy.         *)
ended(r, type, ok, attempts) ==
  [r EXCEPT !.pc = IF ok THEN "next" ELSE "record",
            !.todo = Tail(@), !.attempts = 0, !.waitMs = 0,
            !.results = Append(@, resultOf(r, type, ok, attempts)),
            !.inAppHealthy = @ /\ (ok \/ type # "in_app")]

(* The next channel is tried; without a transport it fails unattempted. *)
NextChannel(d) ==
  LET r == call[d]
  IN  /\ r.pc = "next" /\ r.todo # <<>>
      /\ call' = [call EXCEPT ![d] =
           IF r.fallback
           THEN IF shouldFallbackToInApp(Head(r.todo).channel, r.inAppHealthy)
                THEN [r EXCEPT !.pc = "send"]
                ELSE [r EXCEPT !.todo = Tail(@)]
           ELSE IF hasTransport(Head(r.todo).type)
                THEN [r EXCEPT !.pc = "send"]
                ELSE ended(r, Head(r.todo).type, FALSE, 0)]
      /\ UNCHANGED <<marker, sends, received>>

SendOk(d) ==
  LET r == call[d]
  IN  /\ r.pc = "send"
      /\ call' = [call EXCEPT ![d] = ended(r, current(d).type, TRUE, r.attempts + 1)]
      /\ sends' = [sends EXCEPT ![d] = @ + 1]
      /\ received' = [received EXCEPT ![d] = @ \cup {current(d).type}]
      /\ UNCHANGED marker

(* Mutant: one attempt more than the policy allows. *)
isFinalAttemptLate(attempts) == attempts > policy.maxAttempts

isFinalAttempt(attempts) == attempts = policy.maxAttempts

(* send() throws: wait and try again, or give the channel up. *)
SendFails(d) ==
  LET r == call[d]
  IN  /\ r.pc = "send"
      /\ call' = [call EXCEPT ![d] =
           IF isFinalAttempt(r.attempts + 1)
           THEN ended(r, current(d).type, FALSE, r.attempts + 1)
           ELSE [r EXCEPT !.pc = "wait", !.attempts = @ + 1,
                          !.waitMs = backoffDelayMs(r.attempts)]]
      /\ sends' = [sends EXCEPT ![d] = @ + 1]
      /\ received' \in {received, [received EXCEPT ![d] = @ \cup {current(d).type}]}
      /\ UNCHANGED marker

Retry(d) ==
  /\ call[d].pc = "wait"
  /\ call' = [call EXCEPT ![d].pc = "send"]
  /\ UNCHANGED <<marker, sends, received>>

(* Mutant: a Redis error rejects the dispatch. *)
RecordFailureThrows(d) ==
  LET r == call[d]
  IN  /\ r.pc = "record"
      /\ \/ /\ marker' = marker \cup {r.results[Len(r.results)].channel}
            /\ call' = [call EXCEPT ![d].pc = "next"]
         \/ call' = [call EXCEPT ![d] = Idle] /\ UNCHANGED marker
      /\ UNCHANGED <<sends, received>>

(* recordFailure: best effort, a Redis error is swallowed. *)
RecordFailure(d) ==
  LET r == call[d]
  IN  /\ r.pc = "record"
      /\ marker' \in {marker, marker \cup {r.results[Len(r.results)].channel}}
      /\ call' = [call EXCEPT ![d].pc = "next"]
      /\ UNCHANGED <<sends, received>>

(* Phase 1 is over: the failed channels are up for a fallback.  Phase 2 is  *)
(* over: the call resolves.                                                 *)
PhaseEnds(d) ==
  LET r == call[d]
  IN  /\ r.pc = "next" /\ r.todo = <<>>
      /\ call' = [call EXCEPT ![d] =
           IF r.fallback THEN [r EXCEPT !.pc = "done"]
           ELSE [r EXCEPT !.fallback = TRUE, !.todo = failedPrimaries(r.results)]]
      /\ UNCHANGED <<marker, sends, received>>

Step(d) ==
  \/ NextChannel(d) \/ SendOk(d) \/ SendFails(d) \/ Retry(d)
  \/ RecordFailure(d) \/ PhaseEnds(d)

Next == \E d \in Calls : Begin(d) \/ Step(d)

Spec == Init /\ [][Next]_vars

(* Every send is answered, every timer fires. *)
FairSpec == Spec /\ \A d \in Calls : WF_vars(Step(d))

-----------------------------------------------------------------------------
(* Properties *)

Channel == [type : ChannelTypes \cup {"sms"}, target : STRING]

Result == [channel : ChannelTypes \cup {"sms"}, ok : BOOLEAN, attempts : Nat,
           viaFallback : BOOLEAN]

(* The type invariant. *)
TypeOK ==
  /\ \A d \in Calls :
       /\ call[d].pc \in {"idle", "next", "send", "wait", "record", "done"}
       /\ call[d].channels \in ChannelLists \cup {<<>>}
       /\ call[d].targets \in Seq(Channel)
       /\ call[d].todo \in Seq(IF call[d].fallback THEN Result ELSE Channel)
       /\ call[d].attempts \in 0..policy.maxAttempts - 1
       /\ call[d].waitMs \in 0..policy.maxDelayMs
       /\ call[d].inAppHealthy \in BOOLEAN
       /\ call[d].results \in Seq(Result)
  /\ marker \subseteq ChannelTypes \cup {"sms"}
  /\ sends \in [Calls -> Nat]
  /\ received \in [Calls -> SUBSET ChannelTypes]

primaries(results) == {i \in DOMAIN results : ~results[i].viaFallback}
fallbacks(results) == {i \in DOMAIN results : results[i].viaFallback}

(***************************************************************************)
(* P37: the primary results of a finished call are those of the channels   *)
(* it was given: every one of them exactly once, entries of equal type but *)
(* different target apart, and none besides, in the given order.           *)
(***************************************************************************)
ExactFanOut ==
  \A d \in Calls :
    call[d].pc = "done" =>
      LET channels == call[d].channels
          done     == kept(call[d].results, primaries(call[d].results))
          firsts   == {i \in 1..Len(channels) :
                         \A j \in 1..i - 1 : channels[j] # channels[i]}
          place(i) == Cardinality({j \in firsts : j <= i})
      IN  /\ Len(done) = Cardinality(firsts)
          /\ \A i \in firsts : done[place(i)].channel = channels[i].type

(***************************************************************************)
(* 15.5, 15.6: after a failed in-app delivery, primary or fallback, no     *)
(* further fallback is tried, so a call spends at most one round of        *)
(* retries on an in-app channel that is down after its primaries.  Unless  *)
(* it is down, a finished call has pushed in-app once for every other      *)
(* channel that failed; and it pushes no fallback nothing asked for.       *)
(***************************************************************************)
FallbackWhileInAppWorks ==
  \A d \in Calls :
    LET results == call[d].results
        pushed  == Cardinality(fallbacks(results))
        failed  == Cardinality({i \in primaries(results) :
                                  ~results[i].ok /\ results[i].channel # "in_app"})
        down(i) == results[i].channel = "in_app" /\ ~results[i].ok
    IN  /\ \A i, j \in DOMAIN results : i < j /\ down(i) => ~results[j].viaFallback
        /\ call[d].pc = "done" =>
             /\ pushed <= failed
             /\ pushed = failed \/ \E i \in DOMAIN results : down(i)

(* What a call reports delivered did arrive, and it sent no more often than *)
(* the policy allows for each of its deliveries.                            *)
ReportsAreTrue ==
  TypeOK /\ \A d \in Calls :
    LET results == call[d].results
    IN  /\ \A i \in DOMAIN results :
             /\ results[i].ok => results[i].channel \in received[d]
             /\ results[i].attempts <= policy.maxAttempts
        /\ sends[d] <= policy.maxAttempts * 2 * Len(call[d].targets)

(* dispatch() always resolves, whatever its transports do. *)
AlwaysResolves == \A d \in Calls : call[d].pc = "next" ~> call[d].pc = "done"
=============================================================================
