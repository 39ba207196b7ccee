----------------------------- MODULE GraphClient -----------------------------
(***************************************************************************)
(* An attempt through MicrosoftGraphHttpClient                             *)
(* (travel_agent/live/graph_client.py) as OutlookMailSource makes it.  It  *)
(* differs from the Gmail client where it matters: the deadline runs while *)
(* credentials are fetched, what a response may take is computed anew for  *)
(* each chunk, an error is read to its end before it is believed, and one  *)
(* status means different things for a folder's delta and for a read.      *)
(***************************************************************************)
EXTENDS HttpAttempt

Statuses == {200, 400, 401, 403, 404, 410, 429, 501, 503, 504}
\* A read, a first delta of a folder, or one from an established cursor.
Reads == {"read", "delta", "established"}
\* What a body says: nothing that matters, the reason of an error, or nonsense
\* (in the body, the headers or the status line).
Reasons == {"syncStateNotFound", "insufficient_claims"}
Bodies == {"plain", "malformed"} \cup Reasons

Requests == {r \in [kind : Reads, status : Statuses, size : BodySizes, body : Bodies] :
               /\ r.body \in Reasons => r.status \in 400 .. 403 \cup {200}
               /\ r.size = 0 => r.body \in {"plain", "malformed"}}

-----------------------------------------------------------------------------
(* Requests *)

Init == HttpBeginning("starting") /\ request \in Requests

\* begin: the attempt exists once the credentials do, if time is left.
Begin ==
    /\ phase = "starting"
    /\ \/ \E code \in {"AUTH_REQUIRED", "PERMISSION_DENIED"} : Conclude(code)
       \/ clock >= AttemptSeconds /\ Conclude("TIMEOUT")
       \/ clock < AttemptSeconds /\ phase' = "ready" /\ UNCHANGED answer
    /\ UNCHANGED <<clock, requests, received, request, deadline, limit, taken>>

\* read, up to the call of the transport.
Ask ==
    /\ phase = "ready"
    /\ \/ /\ clock >= AttemptSeconds
          /\ Conclude("TIMEOUT")
          /\ UNCHANGED <<requests, request, deadline, taken>>
       \/ /\ clock < AttemptSeconds
          /\ \E r \in Requests : Issue(r)
          /\ IF requests' > MaxRequests
               THEN Conclude("INVALID_RESPONSE")
               ELSE phase' = "opening" /\ UNCHANGED answer
    /\ UNCHANGED <<clock, received, limit>>

\* The transport raises: in opening, or in reading a chunk.
TransportFails ==
    /\ phase \in {"opening", "reading"}
    /\ \E code \in {"TIMEOUT", "UNAVAILABLE"} : Conclude(code)
    /\ UNCHANGED <<clock, requests, received, request, deadline, limit, taken>>

Opened ==
    /\ phase = "opening"
    /\ \/ clock >= deadline /\ Conclude("TIMEOUT")
       \/ clock < deadline /\ request.body = "malformed" /\ Conclude("INVALID_RESPONSE")
       \/ clock < deadline /\ phase' = "body" /\ UNCHANGED answer
    /\ UNCHANGED <<clock, requests, received, request, deadline, limit, taken>>

-----------------------------------------------------------------------------
(* The body, and what it comes to *)

Remaining == Least(ResponseLimit - taken, AttemptLimit - received)

\* One byte more may be read to see the end.
AtMost == Least(ChunkLimit, Remaining + 1)

NextRead ==
    /\ phase = "body"
    /\ \/ clock >= deadline /\ Conclude("TIMEOUT")
       \/ clock < deadline /\ phase' = "reading" /\ UNCHANGED answer
    /\ UNCHANGED <<clock, requests, received, request, deadline, limit, taken>>

\* Mutant: no byte of the allowance may be its last.
ReachesAllowance(n) == n >= Remaining /\ n > 0

Exceeds(n) == n > Remaining

\* A chunk arrives; an empty one is the end of the body.
Receive ==
    /\ phase = "reading"
    /\ \E n \in 0 .. Least(AtMost, request.size - taken) :
         /\ n = 0 => taken = request.size
         /\ taken' = taken + n
         /\ received' = received + n
         /\ CASE clock >= deadline -> Conclude("TIMEOUT")
              [] clock < deadline /\ Exceeds(n) -> Conclude("INVALID_RESPONSE")
              [] clock < deadline /\ ~Exceeds(n) ->
                   phase' = (IF n = 0 THEN "decoding" ELSE "body") /\ UNCHANGED answer
    /\ UNCHANGED <<clock, requests, request, deadline, limit>>

\* _error
ErrorCode ==
    LET status == request.status
        Names(reason) == request.size > 0 /\ request.body = reason
    IN  CASE /\ request.kind # "read"
             /\ \/ status = 410
                \/ status \in 400 .. 499 /\ Names("syncStateNotFound")
                \/ request.kind = "established" /\ status = 404 -> "CURSOR_EXPIRED"
          [] OTHER ->
        CASE status = 401 -> "AUTH_REQUIRED"
          [] status = 403 -> IF Names("insufficient_claims") THEN "AUTH_REQUIRED"
                                                             ELSE "PERMISSION_DENIED"
          [] status \in {404, 410} -> "NOT_FOUND"
          [] status = 429 -> "RATE_LIMITED"
          [] status = 504 -> "TIMEOUT"
          [] status = 501 -> "UNSUPPORTED_CAPABILITY"
          [] status = 503 -> "UNAVAILABLE"
          [] OTHER -> "INVALID_RESPONSE"

Outcome ==
    CASE request.size > 0 /\ request.body = "malformed" -> "INVALID_RESPONSE"
      [] OTHER ->
    CASE clock >= deadline -> "TIMEOUT"
      [] clock < deadline /\ request.status # 200 -> ErrorCode
      [] clock < deadline /\ request.status = 200 ->
           IF request.size > 0 /\ request.body = "plain" THEN "OK" ELSE "INVALID_RESPONSE"

Decode ==
    /\ phase = "decoding"
    /\ Conclude(Outcome)
    /\ UNCHANGED <<clock, requests, received, request, deadline, limit, taken>>

Next == Begin \/ Ask \/ TransportFails \/ Opened \/ NextRead \/ Receive \/ Decode \/ Tick

Spec == Init /\ [][Next]_httpVars
=============================================================================
