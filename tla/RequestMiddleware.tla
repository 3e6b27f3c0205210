--------------------------- MODULE RequestMiddleware ---------------------------
(***************************************************************************)
(* The middleware both services put before their endpoints                 *)
(* (shared_contracts/py/middleware.py): a rate limit per client over a     *)
(* sliding window, and the presence of an idempotency key on requests that *)
(* change state.                                                           *)
(*                                                                         *)
(* The limiter keeps the times of a client's requests and drops those that *)
(* have left the window at the next one.  Here time passes in ticks and a  *)
(* client's requests are counted by their age in ticks; a count stops at   *)
(* MaxRequests, from where on it makes no difference.  The limiter counts  *)
(* a request before it decides, so refused requests count as well.         *)
(***************************************************************************)
EXTENDS Integers, FiniteSets, FiniteSetsExt

CONSTANTS
    Clients,        \* x-client-id, or the host of a request
    Window,         \* window_seconds, in ticks
    MaxRequests     \* max_requests in a window

VARIABLES
    hits,           \* _RateLimiterState.hits: requests of each client by age
    passed,         \* history variable: requests let through, by age
    silent          \* history variable: ticks since a client sent a request

vars == <<hits, passed, silent>>

--------------------------------------------------------------------------------

Ages == 0..Window

Counts == [Ages -> 0..MaxRequests]

Init ==
    /\ hits = [c \in Clients |-> [a \in Ages |-> 0]]
    /\ passed = [c \in Clients |-> [a \in Ages |-> 0]]
    /\ silent = [c \in Clients |-> Window + 1]

(* The requests of a client that are counted: an age, and one of that age. *)
Counted(counts) == {slot \in Ages \X (1..MaxRequests) : slot[2] <= counts[slot[1]]}

Total(counts) == Cardinality(Counted(counts))

Count(counts) == [counts EXCEPT ![0] = Min({@ + 1, MaxRequests})]

(* check: the request is counted, refused or not, and then compared. *)
WithinRate(c) == Total(hits[c]) + 1 <= MaxRequests

Arrive(c) ==
    /\ hits' = [hits EXCEPT ![c] = Count(@)]
    /\ silent' = [silent EXCEPT ![c] = 0]

(* The client has sent too much: 429. *)
RateLimited(c) ==
    /\ ~WithinRate(c)
    /\ Arrive(c)
    /\ UNCHANGED passed

(* A request that changes state and has no idempotency key: 400. *)
MissingIdempotencyKey(c) ==
    /\ WithinRate(c)
    /\ Arrive(c)
    /\ UNCHANGED passed

(* The request goes on to its endpoint.  The key it carries is not compared   *)
(* with any other.                                                            *)
PassOn(c) ==
    /\ WithinRate(c)
    /\ Arrive(c)
    /\ passed' = [passed EXCEPT ![c] = Count(@)]

Older(counts) == [a \in Ages |-> IF a = 0 THEN 0 ELSE counts[a - 1]]

(* Mutant: requests that have left the window are not dropped. *)
TickKeepsAll ==
    /\ hits' = [c \in Clients |-> [Older(hits[c]) EXCEPT ![Window] =
                    Min({@ + hits[c][Window], MaxRequests})]]
    /\ passed' = [c \in Clients |-> Older(passed[c])]
    /\ silent' = [c \in Clients |-> Min({silent[c] + 1, Window + 1})]

(* Time passes; what is older than the window no longer counts. *)
Tick ==
    /\ hits' = [c \in Clients |-> Older(hits[c])]
    /\ passed' = [c \in Clients |-> Older(passed[c])]
    /\ silent' = [c \in Clients |-> Min({silent[c] + 1, Window + 1})]

Next ==
    \/ \E c \in Clients : RateLimited(c) \/ MissingIdempotencyKey(c) \/ PassOn(c)
    \/ Tick

Spec == Init /\ [][Next]_vars

--------------------------------------------------------------------------------

(* Every variable holds a value of its kind. *)
TypeOK ==
    /\ hits \in [Clients -> Counts]
    /\ passed \in [Clients -> Counts]
    /\ silent \in [Clients -> 0..(Window + 1)]

(* In no window is a client let through more often than the limit says, and a  *)
(* client that has kept quiet for longer than the window is never refused for  *)
(* its rate, however often it was refused before (section 7: rate limits per   *)
(* client).                                                                    *)
RateLimitHolds ==
    /\ [](\A c \in Clients : Total(passed[c]) <= MaxRequests)
    /\ [][\A c \in Clients : RateLimited(c) => silent[c] <= Window]_vars
================================================================================
