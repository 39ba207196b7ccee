----------------------------- MODULE GmailClient -----------------------------
(***************************************************************************)
(* An attempt through GmailHttpClient (travel_agent/live/gmail_client.py)  *)
(* as GmailMailSource makes it: the budget of received bytes, the reading  *)
(* of a body, and what every ending of a request means.                    *)
(***************************************************************************)
EXTENDS HttpAttempt

CONSTANTS
    ClientLimit,     \* GmailHttpClient: bytes of one response
    DiagnosticLimit  \* bytes of an error body that are read for its reasons

Statuses == {200, 400, 401, 403, 404, 429, 503}
Resources == {"messages", "history"}
\* A body that is valid: a JSON answer, or an error that names a rate limit.
Requests == {r \in [resource : Resources, status : Statuses, size : BodySizes, valid : BOOLEAN] :
                r.valid => r.size > 0}

-----------------------------------------------------------------------------
(* Requests *)

Init == HttpBeginning("ready") /\ request \in Requests

\* _Attempt.read, up to the call of the client.
Ask ==
    /\ phase = "ready"
    /\ \/ /\ clock >= AttemptSeconds
          /\ Conclude("TIMEOUT")
          /\ UNCHANGED <<requests, request, deadline, taken>>
       \/ /\ clock < AttemptSeconds
          /\ \E r \in Requests : Issue(r)
          /\ IF requests' > MaxRequests
               THEN Conclude("UNSUPPORTED_CAPABILITY")
               ELSE phase' = "token" /\ UNCHANGED answer
    /\ UNCHANGED <<clock, received, limit>>

\* The token takes its time: the timeout was fixed before it, and the deadline
\* is that timeout after it.
TokenDelays ==
    /\ phase = "token" /\ clock < Horizon
    /\ clock' = clock + 1
    /\ deadline' = deadline + 1
    /\ UNCHANGED <<requests, received, phase, request, limit, taken, answer>>

Authorize ==
    /\ phase = "token"
    /\ \/ Conclude("AUTH_REQUIRED")
       \/ phase' = "opening" /\ UNCHANGED answer
    /\ UNCHANGED <<clock, requests, received, request, deadline, limit, taken>>

\* No connection, or no headers in time.
OpenFails ==
    /\ phase = "opening"
    /\ \E code \in {"TIMEOUT", "UNAVAILABLE"} : Conclude(code)
    /\ UNCHANGED <<clock, requests, received, request, deadline, limit, taken>>

\* What is left for a response: less than nothing once the probe overflowed.
Allowance == Least(Least(ClientLimit, ResponseLimit),
                   IF received <= AttemptLimit THEN AttemptLimit - received ELSE 0)

\* The headers are there: read_body begins.
Open ==
    /\ phase = "opening"
    /\ IF received > AttemptLimit
         THEN Conclude("UNSUPPORTED_CAPABILITY") /\ UNCHANGED limit
         ELSE limit' = Allowance /\ phase' = "body" /\ UNCHANGED answer
    /\ UNCHANGED <<clock, requests, received, request, deadline, taken>>

ReadLimit == IF request.status = 200 THEN limit ELSE Least(limit, DiagnosticLimit)

-----------------------------------------------------------------------------
(* The body, and what it comes to *)

\* What an error status means, and whether its body was read to the end.
ErrorCode(whole) ==
    CASE request.status = 401 -> "AUTH_REQUIRED"
      [] request.status = 429 -> "RATE_LIMITED"
      [] request.status = 403 -> IF whole /\ request.valid THEN "RATE_LIMITED"
                                                           ELSE "PERMISSION_DENIED"
      [] request.status = 404 ->
           IF request.resource = "history" THEN "CURSOR_EXPIRED" ELSE "NOT_FOUND"
      [] request.status = 503 -> "UNAVAILABLE"
      [] OTHER -> "INVALID_RESPONSE"

\* Mutant: the deadline of the request is taken to bound the attempt.
WithoutCheck == IF request.valid THEN "OK" ELSE "INVALID_RESPONSE"

\* A body is an answer if it is valid and the attempt still has time for it.
BodyCode ==
    IF ~request.valid THEN "INVALID_RESPONSE"
    ELSE IF clock >= AttemptSeconds THEN "TIMEOUT" ELSE "OK"

Outcome(whole) == IF request.status = 200 THEN BodyCode ELSE ErrorCode(whole)

\* The head of the loop: enough was read, or the next read is issued in time.
NextRead ==
    /\ phase = "body"
    /\ CASE taken > ReadLimit -> Conclude(Outcome(FALSE))
         [] taken <= ReadLimit /\ clock >= deadline -> Conclude("TIMEOUT")
         [] taken <= ReadLimit /\ clock < deadline -> phase' = "reading" /\ UNCHANGED answer
    /\ UNCHANGED <<clock, requests, received, request, deadline, limit, taken>>

\* The limit is inclusive: one byte more may be read to see the end.
AtMost == Least(ChunkLimit, (ReadLimit + 1) - taken)

Exceeded(size) == size > limit

\* A chunk arrives; an empty one is the end of the body.
Receive ==
    /\ phase = "reading"
    /\ \E n \in 0 .. Least(AtMost, request.size - taken) :
         /\ n = 0 => taken = request.size \/ AtMost = 0
         /\ taken' = taken + n
         /\ received' = received + n
         /\ CASE Exceeded(taken + n) -> Conclude("UNSUPPORTED_CAPABILITY")
              [] ~Exceeded(taken + n) /\ clock >= deadline -> Conclude("TIMEOUT")
              [] ~Exceeded(taken + n) /\ clock < deadline ->
                   IF n = 0 THEN Conclude(Outcome(TRUE)) ELSE phase' = "body" /\ UNCHANGED answer
    /\ UNCHANGED <<clock, requests, request, deadline, limit>>

\* The connection breaks or falls silent.  An error keeps its status.
ReadFails ==
    /\ phase = "reading"
    /\ IF request.status = 200
         THEN \E code \in {"TIMEOUT", "UNAVAILABLE"} : Conclude(code)
         ELSE Conclude(ErrorCode(FALSE))
    /\ UNCHANGED <<clock, requests, received, request, deadline, limit, taken>>

Next == Ask \/ TokenDelays \/ Authorize \/ OpenFails \/ Open \/ NextRead \/ Receive
        \/ ReadFails \/ Tick

Spec == Init /\ [][Next]_httpVars
=============================================================================
