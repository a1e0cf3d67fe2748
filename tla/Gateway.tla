------------------------------ MODULE Gateway -------------------------------
(***************************************************************************)
(* A request on its way through the api-gateway: JwtAuthGuard, RbacGuard,  *)
(* RateLimitGuard (rate-limiter.service.ts, rate-limit.ts) and the reverse *)
(* proxy (proxy.controller.ts, proxy.service.ts).                          *)
(*                                                                         *)
(* The limiter picks the key of the window by the gateway's clock, then    *)
(* sends one Lua script to Redis, which runs it some time later (ioredis   *)
(* queues commands while it reconnects).  Time is counted in ticks, a      *)
(* second being TicksPerSec of them, so that rounding is visible.          *)
(***************************************************************************)
EXTENDS Routes, FiniteSets

CONSTANTS
  Slots,        \* requests that may be in flight together
  Requests,     \* what a client may send below the prefixes of ProxyController
  Configured,   \* upstreams whose base URL is set
  limit,        \* limit[role]: requests per window
  windowSec,    \* window length, in seconds
  TicksPerSec,  \* ticks in a second
  MaxNow,       \* bound on the clock, in ticks
  MaxRequests   \* bound on the requests sent

ASSUME GatewayAssumption ==
  /\ Requests \subseteq [token : Roles \cup {"missing", "invalid"},
                         method : STRING, path : Seq(STRING) \ {<<>>}]
  /\ \A q \in Requests : resolveUpstreamId(q.path) # NoUpstream
  /\ Configured \subseteq UpstreamIds
  /\ limit \in [Roles -> Nat]
  /\ windowSec \in Nat \ {0}
  /\ TicksPerSec \in Nat \ {0}
  /\ MaxNow \in Nat
  /\ MaxRequests \in Nat

VARIABLES
  now,      \* ticks since the epoch
  counter,  \* counter[key]: [count, expiresAt] of a key in Redis
  req,      \* req[s]: the request in slot s
  sent,     \* requests sent so far
  granted   \* history: per window, requests allowed by a script run within it

vars == <<now, counter, req, sent, granted>>

-----------------------------------------------------------------------------
window == windowSec * TicksPerSec

windowOf(t) == (t \div TicksPerSec) \div windowSec

Keys == Roles \X (0..windowOf(MaxNow))

NoKey     == <<"none", 0>>
NoRequest == [token |-> "missing", method |-> "GET", path |-> <<>>]

Idle == [pc |-> "idle", query |-> NoRequest, key |-> NoKey, status |-> 0,
         retryAfterSec |-> 0, at |-> 0]

Absent == [count |-> 0, expiresAt |-> 0]

(* rate-limit.ts: the role and the index of the current window. *)
rateLimitKey(role, t) == <<role, windowOf(t)>>

ceilDiv(a, b) == (a + b - 1) \div b

(* Mutant: the remaining time is rounded down. *)
decideRateLimitFloor(count, role, ttl) ==
  [allowed |-> count <= limit[role],
   retryAfterSec |-> IF count <= limit[role] THEN 0 ELSE ttl \div TicksPerSec]

decideRateLimit(count, role, ttl) ==
  LET allowed == count <= limit[role]
      ttlSec  == IF ttl > 0 THEN ceilDiv(ttl, TicksPerSec) ELSE windowSec
  IN  [allowed |-> allowed,
       retryAfterSec |-> IF allowed THEN 0 ELSE IF ttlSec > 1 THEN ttlSec ELSE 1]

(* Mutant: the key expires after windowSec ticks, seconds taken for millis. *)
scriptShort(key) ==
  IF counter[key].count = 0
  THEN [count |-> 1, expiresAt |-> now + windowSec]
  ELSE [counter[key] EXCEPT !.count = @ + 1]

(* The key after FIXED_WINDOW_SCRIPT: INCR, PEXPIRE on the first. *)
script(key) ==
  IF counter[key].count = 0
  THEN [count |-> 1, expiresAt |-> now + window]
  ELSE [counter[key] EXCEPT !.count = @ + 1]

-----------------------------------------------------------------------------
Init ==
  /\ now     = 0
  /\ counter = [k \in Keys |-> Absent]
  /\ req     = [s \in Slots |-> Idle]
  /\ sent    = 0
  /\ granted = [k \in Keys |-> 0]

answer(s, r, status) ==
  req' = [req EXCEPT ![s] = [r EXCEPT
            !.pc = "done", !.status = status, !.at = IF status = 429 THEN now ELSE 0]]

(* Mutant: every authenticated request is let through. *)
admits(role, q) == TRUE

(* RbacGuard: the concrete path is resolved to a permission entry. *)
permits(role, q) == authorize(role, matchRoute(q.method, q.path))

(* The synchronous guards, and consume() up to its await. *)
Arrive(s, q) ==
  LET r == [Idle EXCEPT !.query = q]
  IN  /\ req[s].pc = "idle" /\ sent < MaxRequests
      /\ \/ q.token \notin Roles /\ answer(s, r, 401)
         \/ q.token \in Roles /\ ~permits(q.token, q) /\ answer(s, r, 403)
         \/ /\ q.token \in Roles /\ permits(q.token, q)
            /\ req' = [req EXCEPT ![s] = [r EXCEPT !.pc = "metering",
                                                   !.key = rateLimitKey(q.token, now)]]
      /\ sent' = sent + 1
      /\ UNCHANGED <<now, counter, granted>>

(* proxy.forward: unknown or unconfigured upstreams are a 404. *)
forward(s, r) ==
  LET upstream == resolveUpstreamId(r.query.path)
  IN  IF upstream \in Configured
      THEN req' = [req EXCEPT ![s] = [r EXCEPT !.pc = "proxied"]]
      ELSE answer(s, r, 404)

(* Redis runs the script and the guard decides on its answer. *)
Meter(s) ==
  LET r == req[s]
      c == script(r.key)
      d == decideRateLimit(c.count, r.query.token, c.expiresAt - now)
  IN  /\ r.pc = "metering"
      /\ counter' = [counter EXCEPT ![r.key] = c]
      /\ IF d.allowed
         THEN /\ forward(s, r)
              /\ granted' = IF windowOf(now) = r.key[2]
                            THEN [granted EXCEPT ![r.key] = @ + 1] ELSE granted
         ELSE /\ answer(s, [r EXCEPT !.retryAfterSec = d.retryAfterSec], 429)
              /\ UNCHANGED granted
      /\ UNCHANGED <<now, sent>>

(* Redis rejects, or its answer is lost after the script has run: the       *)
(* request is refused.                                                      *)
MeterFail(s) ==
  /\ req[s].pc = "metering"
  /\ counter' \in {counter, [counter EXCEPT ![req[s].key] = script(req[s].key)]}
  /\ answer(s, req[s], 500)
  /\ UNCHANGED <<now, sent, granted>>

(* The upstream answers, or is unavailable. *)
UpstreamAnswers(s) ==
  LET q  == req[s].query
      ok == serves(resolveUpstreamId(q.path), q.method, pathRewrite(q.path))
  IN  /\ req[s].pc = "proxied"
      /\ \/ answer(s, req[s], IF ok THEN 200 ELSE 404)
         \/ answer(s, req[s], 502)
      /\ UNCHANGED <<now, counter, sent, granted>>

Answered(s) ==
  /\ req[s].pc = "done"
  /\ req' = [req EXCEPT ![s] = Idle]
  /\ UNCHANGED <<now, counter, sent, granted>>

(* Time passes; Redis drops the keys whose time has come. *)
Tick ==
  /\ now < MaxNow
  /\ now' = now + 1
  /\ counter' = [k \in Keys |-> IF counter[k].expiresAt <= now + 1
                                THEN Absent ELSE counter[k]]
  /\ UNCHANGED <<req, sent, granted>>

Next ==
  \/ \E s \in Slots, q \in Requests : Arrive(s, q)
  \/ \E s \in Slots : Meter(s) \/ MeterFail(s) \/ UpstreamAnswers(s) \/ Answered(s)
  \/ Tick

Spec == Init /\ [][Next]_vars

-----------------------------------------------------------------------------
(* Properties *)

(* The type invariant. *)
TypeOK ==
  /\ now     \in 0..MaxNow
  /\ counter \in [Keys -> [count : Nat, expiresAt : Nat]]
  /\ req     \in [Slots -> [pc : {"idle", "metering", "proxied", "done"},
                            query : Requests \cup {NoRequest}, key : Keys \cup {NoKey},
                            status : {0, 200, 401, 403, 404, 429, 500, 502},
                            retryAfterSec : Nat, at : Nat]]
  /\ sent    \in 0..MaxRequests
  /\ granted \in [Keys -> Nat]

(***************************************************************************)
(* P42: within a window no more than limit[role] requests of a role are    *)
(* allowed, however requests overlap and whatever Redis answers late or    *)
(* never.  (A script that runs after its window has ended may find the     *)
(* key gone and start it again; it is not counted here.)                   *)
(***************************************************************************)
WindowQuota == \A k \in Keys : granted[k] <= limit[k[1]]

(* A refused client that waits for Retry-After is metered against a later   *)
(* window, and no counter outlives a window's length: no role is locked out *)
(* for good.                                                                *)
LockoutEnds ==
  /\ \A s \in Slots :
       req[s].status = 429 =>
         windowOf(req[s].at + req[s].retryAfterSec * TicksPerSec) > req[s].key[2]
  /\ \A k \in Keys : counter[k].count > 0 =>
       now < counter[k].expiresAt /\ counter[k].expiresAt <= now + window

(* The request behind a forward was authenticated, permitted by the table   *)
(* for the role or one below it, and counted in its role's window.          *)
ForwardedWasGranted ==
  TypeOK /\ \A s \in Slots :
    req[s].pc = "proxied" =>
      /\ req[s].key[1] = req[s].query.token
      /\ \E i \in Entries :
           /\ ROUTE_PERMISSION_TABLE[i].method = req[s].query.method
           /\ pathMatchesPattern(req[s].query.path, ROUTE_PERMISSION_TABLE[i].path)
           /\ \E r \in ROUTE_PERMISSION_TABLE[i].roles :
                r = req[s].query.token \/ req[s].query.token = "super_admin"

(***************************************************************************)
(* Of the five upstreams only the fleet registry and the vision service    *)
(* ever answer a permitted request with 200.  The prefix is stripped "so   *)
(* the upstream sees its own native path" (proxy.service.ts), but the      *)
(* other three serve their routes under the very prefix that is stripped:  *)
(* what the table permits of them ends in a 404 or a 502.                  *)
(***************************************************************************)
OnlyTwoUpstreamsAnswer ==
  \A s \in Slots :
    req[s].status = 200 =>
      resolveUpstreamId(req[s].query.path) \in {"fleet-registry", "vision-ai"}
=============================================================================
