----------------------------- MODULE FrontDoor -----------------------------
(***************************************************************************)
(* What every public request passes first: the address it is counted under *)
(* (auth.client_ip) and the fixed-window limiter of that address           *)
(* (rate_limit.check), shared by the workers in Redis and kept by each     *)
(* worker for itself while Redis does not answer. One customer's requests; *)
(* the Redis commands of two workers interleave.                           *)
(*                                                                         *)
(* The sweep of stale buckets past _GC_AT keys drops only buckets whose    *)
(* newest entry has left the window, so it changes no count and is left    *)
(* out.                                                                    *)
(***************************************************************************)
EXTENDS Integers, Sequences, FiniteSets, FiniteSetsExt

CONSTANTS
  Workers,     \* worker processes
  Limit,       \* requests of one address in a window
  Span,        \* the window, in units of time
  Hops,        \* trusted_proxy_hops: proxies before the application
  MaxOutages,  \* bound: Redis outages
  MaxDoorCrashes   \* bound: workers that die inside a check

ASSUME DoorAssumption ==
  /\ Limit \in Nat \ {0} /\ Span \in Nat \ {0} /\ Hops \in Nat \ {0}
  /\ MaxOutages \in Nat /\ MaxDoorCrashes \in Nat
  /\ IsFiniteSet(Workers) /\ Workers # {}

VARIABLES
  store,     \* Redis: per address a count (0: no key) and its TTL
  up,        \* Redis answers
  buckets,   \* per worker and address: how many entries of each age
  check,     \* per worker: the check it is inside
  admitted,  \* requests of the customer let through, by age
  refused,   \* the customer's last request was refused with 429
  outages, doorCrashes
doorVars == <<store, up, buckets, check, admitted, refused, outages, doorCrashes>>

Addresses == {"customer", "proxy", "forged"}
Ages == 0..(Span - 1)
NoCounter == [count |-> 0, ttl |-> 0]
Immortal == -1          \* a key without a TTL
Inside == [pc |-> "idle", key |-> "customer"]

Within(f) == MapThenSumSet(LAMBDA g : f[g], Ages)

DoorInit ==
  /\ store = [a \in Addresses |-> NoCounter] /\ up = TRUE
  /\ buckets = [w \in Workers |-> [a \in Addresses |-> [g \in Ages |-> 0]]]
  /\ check = [w \in Workers |-> Inside] /\ admitted = [g \in Ages |-> 0]
  /\ refused = FALSE /\ outages = 0 /\ doorCrashes = 0

----------------------------------------------------------------------------
\* client_ip. Every hop appends the peer it saw; the sender may have typed any
\* entries before them. A peer outside trusted_proxy_ips is its own address.
Padding == {<<>>, <<"forged">>}
Chain(padding) == padding \o <<"customer">> \o [k \in 1..(Hops - 1) |-> "proxy"]
ViaProxies(padding) == [peer |-> "proxy", entries |-> Chain(padding)]
Direct(padding) == [peer |-> "customer", entries |-> padding]

\* Variant: the leftmost entry, which is whatever the client sent.
ClientIpLeftmost(request) ==
  IF request.peer = "proxy" /\ request.entries # <<>> THEN request.entries[1]
  ELSE request.peer
ClientIp(request) ==
  LET n == Len(request.entries)
  IN IF request.peer = "proxy" /\ n >= Hops THEN request.entries[n - Hops + 1]
     ELSE request.peer

----------------------------------------------------------------------------
\* check: SET NX EX, INCR, TTL are three commands to Redis.

Admit == /\ admitted' = [admitted EXCEPT ![0] = @ + 1] /\ refused' = FALSE
Refuse429 == refused' = TRUE /\ UNCHANGED admitted
Leaves(w) == check' = [check EXCEPT ![w] = Inside]

Arrive(w, request) ==
  /\ check[w].pc = "idle"
  /\ check' = [check EXCEPT ![w] = [pc |-> "setnx", key |-> ClientIp(request)]]
  /\ UNCHANGED <<store, up, buckets, admitted, refused, outages, doorCrashes>>

\* The counter is created with its expiry in one command.
Created == [count |-> 1, ttl |-> Span]

SetNx(w) ==
  LET key == check[w].key
  IN /\ check[w].pc = "setnx" /\ up
     /\ IF store[key] = NoCounter
        THEN /\ store' = [store EXCEPT ![key] = Created]
             /\ Admit /\ Leaves(w)
        ELSE /\ check' = [check EXCEPT ![w].pc = "incr"]
             /\ UNCHANGED <<store, admitted, refused>>
     /\ UNCHANGED <<up, buckets, outages, doorCrashes>>

\* A key that expired since SET NX is created here, and without a TTL.
Counted(counter) == IF counter = NoCounter THEN [count |-> 1, ttl |-> Immortal]
                    ELSE [counter EXCEPT !.count = IF @ > Limit THEN @ ELSE @ + 1]
Incr(w) ==
  LET key == check[w].key
  IN /\ check[w].pc = "incr" /\ up
     /\ store' = [store EXCEPT ![key] = Counted(@)]
     /\ check' = [check EXCEPT ![w].pc =
          IF Counted(store[key]).count > Limit THEN "over" ELSE "within"]
     /\ UNCHANGED <<up, buckets, admitted, refused, outages, doorCrashes>>

\* A key without a TTL is given one by whoever counts it next.
\* Variant: there is no such backstop.
KeptAsIs(counter) == counter
Restored(counter) == IF counter.ttl = Immortal THEN [counter EXCEPT !.ttl = Span]
                     ELSE counter
Ttl(w) ==
  LET key == check[w].key
  IN /\ check[w].pc \in {"over", "within"} /\ up
     /\ store' = [store EXCEPT ![key] = Restored(@)]
     /\ IF check[w].pc = "within" THEN Admit ELSE Refuse429
     /\ Leaves(w) /\ UNCHANGED <<up, buckets, outages, doorCrashes>>

\* Redis does not answer, before or between the commands: this worker's bucket.
FallBack(w) ==
  LET key == check[w].key
  IN /\ check[w].pc # "idle" /\ ~up
     /\ IF Within(buckets[w][key]) >= Limit
        THEN Refuse429 /\ UNCHANGED buckets
        ELSE Admit /\ buckets' = [buckets EXCEPT ![w][key][0] = @ + 1]
     /\ Leaves(w) /\ UNCHANGED <<store, up, outages, doorCrashes>>

----------------------------------------------------------------------------
\* A worker dies between two commands; Redis goes away, keeping its keys or
\* not, and comes back; time passes.
WorkerDies(w) ==
  /\ check[w].pc # "idle" /\ doorCrashes < MaxDoorCrashes /\ doorCrashes' = doorCrashes + 1
  /\ Leaves(w) /\ buckets' = [buckets EXCEPT ![w] = [a \in Addresses |-> [g \in Ages |-> 0]]]
  /\ UNCHANGED <<store, up, admitted, refused, outages>>

RedisFails ==
  /\ up /\ outages < MaxOutages /\ outages' = outages + 1 /\ up' = FALSE
  /\ store' \in {store, [a \in Addresses |-> NoCounter]}
  /\ UNCHANGED <<buckets, check, admitted, refused, doorCrashes>>
RedisReturns ==
  /\ ~up /\ up' = TRUE
  /\ UNCHANGED <<store, buckets, check, admitted, refused, outages, doorCrashes>>

Older(f) == [g \in Ages |-> IF g = 0 THEN 0 ELSE f[g - 1]]
Expiring(counter) == IF counter.ttl = 1 THEN NoCounter
                     ELSE IF counter.ttl = Immortal THEN counter
                     ELSE [counter EXCEPT !.ttl = IF @ = 0 THEN 0 ELSE @ - 1]
ClockTicks ==
  /\ store' = [a \in Addresses |-> Expiring(store[a])]
  /\ buckets' = [w \in Workers |-> [a \in Addresses |-> Older(buckets[w][a])]]
  /\ admitted' = Older(admitted)
  /\ UNCHANGED <<up, check, refused, outages, doorCrashes>>

Command(w) == SetNx(w) \/ Incr(w) \/ Ttl(w) \/ FallBack(w)
Arrives(w) == \E padding \in Padding :
                \/ Arrive(w, ViaProxies(padding)) \/ Arrive(w, Direct(padding))
DoorNext == \/ \E w \in Workers : Arrives(w) \/ Command(w) \/ WorkerDies(w)
            \/ RedisFails \/ RedisReturns \/ ClockTicks
DoorSpec == DoorInit /\ [][DoorNext]_doorVars

\* Requests are answered, the customer goes on asking, time passes.
DoorFairness == /\ \A w \in Workers : WF_doorVars(Command(w)) /\ WF_doorVars(Arrives(w))
                /\ WF_doorVars(ClockTicks)
FairDoorSpec == DoorSpec /\ DoorFairness

----------------------------------------------------------------------------
\* Properties

DoorTypeOK ==
  /\ \A a \in Addresses : store[a].count \in 0..(Limit + 1) /\ store[a].ttl \in -1..Span
  /\ \A w \in Workers : /\ check[w].pc \in {"idle", "setnx", "incr", "over", "within"}
                        /\ check[w].key \in Addresses
  /\ \A w \in Workers, a \in Addresses : Within(buckets[w][a]) <= Limit

\* However the header is padded and whichever worker answers, what one customer
\* gets through in a span is two fixed windows (all but the request that opened
\* the first) and one late answer of every other worker; an outage adds a lost
\* counter and what the workers' own buckets let through. The limit is "shared
\* across workers" (rate_limit.py).
Overrun == IF outages = 0 THEN 0
           ELSE Limit * (outages + doorCrashes + Cardinality(Workers))
BurstBounded ==
  Within(admitted) <= (2 * Limit - 1) + (Cardinality(Workers) - 1) + Overrun

\* A customer who is refused and goes on asking is let in again: no counter is
\* left without an expiry to lock "out real customers forever" (rate_limit.check).
LockoutEnds == refused ~> ~refused
=============================================================================
