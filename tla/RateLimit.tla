----------------------------- MODULE RateLimit ------------------------------
(***************************************************************************)
(* The token bucket in front of every route (api/middleware/ratelimit.go). *)
(*                                                                         *)
(* A bucket fills at a constant rate, so its tokens are measured here in   *)
(* the time it takes to earn them: one request costs Cost (1/rps) and a    *)
(* full bucket holds Burst (burst/rps).  The mutex of allow makes a call   *)
(* one step.  The buckets live in memory and a restart empties the map.    *)
(***************************************************************************)
EXTENDS Integers

CONSTANTS
    IPs,        \* callers: the key of a bucket is c.IP()
    Cost,       \* the time that earns one token
    Burst,      \* the time that fills an empty bucket
    MaxTime     \* bound: how long the clock runs

ASSUME RateLimitAssumption ==
    /\ Cost \in Nat \ {0} /\ Burst \in Nat /\ MaxTime \in Nat
    /\ Cost <= Burst

VARIABLES
    clock,      \* time.Now
    made,       \* the callers that have a bucket
    tokens,     \* what is in a bucket
    last,       \* when it was last filled
    spent,      \* history: what a caller's admitted requests cost since
    since       \* history: the start of the window that is watched

limiterVars == <<clock, made, tokens, last, spent, since>>
bucketVars == <<made, tokens, last>>

LimiterInit ==
    /\ clock = 0 /\ since = 0
    /\ made = {}
    /\ tokens = [ip \in IPs |-> 0]
    /\ last = [ip \in IPs |-> 0]
    /\ spent = [ip \in IPs |-> 0]

MinF(a, b) == IF a < b THEN a ELSE b

-----------------------------------------------------------------------------
\* Slip: a bucket that is not used saves up beyond the burst.
RefilledUncapped(ip) ==
    IF ip \in made THEN tokens[ip] + (clock - last[ip]) ELSE Burst

\* allow: the first call of a key finds a full bucket, a later one what was
\* left and what has been earned since.
Refilled(ip) ==
    IF ip \in made THEN MinF(Burst, tokens[ip] + (clock - last[ip])) ELSE Burst

\* The bucket is stored with the time of the call, whatever the answer.
Store(ip, n) ==
    /\ made' = made \cup {ip}
    /\ tokens' = [tokens EXCEPT ![ip] = n]
    /\ last' = [last EXCEPT ![ip] = clock]
    /\ UNCHANGED <<clock, since>>

\* allow answers true and takes a token.
Allow(ip) ==
    /\ Refilled(ip) >= Cost
    /\ Store(ip, Refilled(ip) - Cost)
    /\ spent' = [spent EXCEPT ![ip] = @ + Cost]

\* allow answers false: less than one token is left (429).
Refuse(ip) ==
    /\ Refilled(ip) < Cost
    /\ Store(ip, Refilled(ip))
    /\ UNCHANGED spent

\* Time passes.
Tick ==
    /\ clock < MaxTime
    /\ clock' = clock + 1
    /\ UNCHANGED <<bucketVars, spent, since>>

\* NewRateLimiter: a new process starts with an empty map.
NewRateLimiter ==
    /\ made' = {}
    /\ since' = clock
    /\ spent' = [ip \in IPs |-> 0]
    /\ UNCHANGED <<clock, tokens, last>>

\* The observer starts to watch a window; the code sees nothing.  A second
\* window from the same instant could only see less than the first.
OpenWindow ==
    /\ since < clock
    /\ since' = clock
    /\ spent' = [ip \in IPs |-> 0]
    /\ UNCHANGED <<clock, bucketVars>>

LimiterNext ==
    \/ \E ip \in IPs : Allow(ip) \/ Refuse(ip)
    \/ Tick \/ NewRateLimiter \/ OpenWindow

LimiterSpec == LimiterInit /\ [][LimiterNext]_limiterVars

-----------------------------------------------------------------------------
LimiterTypeOK ==
    /\ clock \in Nat /\ since \in Nat
    /\ made \subseteq IPs
    /\ tokens \in [IPs -> Nat]
    /\ last \in [IPs -> Nat]
    /\ spent \in [IPs -> Nat]

\* In every window of time, wherever it starts and whatever the caller did
\* before, a caller gets at most the burst and what the window itself earns:
\* the sustained rate and the burst of NewRateLimiter hold together.
WindowBound == \A ip \in IPs : spent[ip] <= Burst + (clock - since)

\* What makes it inductive: what was spent and what is left never exceed what
\* a full bucket at the start of the window and the time since then give.
WindowInv ==
    /\ LimiterTypeOK
    /\ since <= clock
    /\ \A ip \in IPs :
        /\ last[ip] <= clock
        /\ tokens[ip] <= Burst
        /\ ip \notin made => spent[ip] = 0
        /\ last[ip] < since => spent[ip] = 0
        /\ (ip \in made /\ last[ip] >= since) =>
              spent[ip] + tokens[ip] <= Burst + (last[ip] - since)
=============================================================================
