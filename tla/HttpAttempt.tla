----------------------------- MODULE HttpAttempt -----------------------------
(***************************************************************************)
(* What GmailClient and GraphClient share: one attempt of a mail source    *)
(* against HTTP.  Its requests share a deadline, a number of requests and  *)
(* a budget of received bytes, and each body is read chunk by chunk from a *)
(* server that may send any length, any status, at any speed, or drop the  *)
(* connection.                                                             *)
(*                                                                         *)
(* Sizes and times are small integers.  Left out: what a body says, but    *)
(* for what tells its outcome, Retry-After and retryable, which no caller  *)
(* reads, URLs and tokens, and which request the source makes next.        *)
(***************************************************************************)
EXTENDS Naturals

CONSTANTS
    ResponseLimit,   \* bytes of one response
    AttemptLimit,    \* bytes of all responses of the attempt
    ChunkLimit,      \* bytes of one read
    MaxRequests,     \* requests of the attempt
    AttemptSeconds, RequestSeconds,
    BodySizes,       \* what servers send
    Horizon          \* the end of time, for TLC

ASSUME AttemptAssumption ==
    /\ {ResponseLimit, AttemptLimit, ChunkLimit, MaxRequests} \subseteq Nat \ {0}
    /\ {AttemptSeconds, RequestSeconds} \subseteq Nat \ {0}
    /\ BodySizes \subseteq Nat /\ Horizon \in Nat

VARIABLES
    clock,    \* the monotonic clock
    requests, \* how many the attempt has made
    received, \* bytes the attempt has read
    phase,    \* where it is: see the clients; "over" after a failure
    request,  \* what is asked, and what the server answers
    deadline, \* of the request
    limit,    \* the bytes it may take, where they are fixed when it begins
    taken,    \* the bytes it has taken
    answer    \* [code, at]: what the latest request came to, and when

httpVars == <<clock, requests, received, phase, request, deadline, limit, taken, answer>>

\* What a source may go on after: a message that is gone is no failure.
Continuable == {"OK", "NOT_FOUND"}

Least(a, b) == IF a < b THEN a ELSE b

\* The attempt ends with its first failure.
Conclude(code) ==
    /\ answer' = [code |-> code, at |-> clock]
    /\ phase' = IF code \in Continuable THEN "ready" ELSE "over"

HttpBeginning(first) ==
    /\ clock = 0 /\ requests = 0 /\ received = 0
    /\ phase = first
    /\ deadline = 0 /\ limit = 0 /\ taken = 0
    /\ answer = [code |-> "OK", at |-> 0]

\* A request is about to be sent, with the deadline it gets.
Issue(r) ==
    /\ requests' = requests + 1
    /\ request' = r
    /\ deadline' = Least(AttemptSeconds, clock + RequestSeconds)
    /\ taken' = 0

Tick ==
    /\ phase \notin {"token", "over"} /\ clock < Horizon
    /\ clock' = clock + 1
    /\ UNCHANGED <<requests, received, phase, request, deadline, limit, taken, answer>>

\* The caller has an answer in hand.
Answered == phase = "ready" /\ requests > 0 /\ answer.code = "OK"
=============================================================================
