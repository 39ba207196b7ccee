----------------------------- MODULE MailClients -----------------------------
(***************************************************************************)
(* Either of the two HTTP clients of the mail sources: what both promise   *)
(* of an answer and of a refusal, whichever provider an attempt uses.      *)
(***************************************************************************)
EXTENDS HttpAttempt

CONSTANTS ClientLimit, DiagnosticLimit  \* of the Gmail client

ASSUME ClientAssumption == {ClientLimit, DiagnosticLimit} \subseteq Nat \ {0}

VARIABLE client

GmailHttp == INSTANCE GmailClient
GraphHttp == INSTANCE GraphClient

ClientInit == \/ client = "gmail" /\ GmailHttp!Init
              \/ client = "graph" /\ GraphHttp!Init

ClientNext == /\ \/ client = "gmail" /\ GmailHttp!Next
                 \/ client = "graph" /\ GraphHttp!Next
              /\ UNCHANGED client

ClientSpec == ClientInit /\ [][ClientNext]_<<httpVars, client>>

-----------------------------------------------------------------------------
(* Properties *)

Usable == IF client = "gmail" THEN request.valid ELSE request.body = "plain"

WithinClient(size) == client = "gmail" => size <= ClientLimit

\* An answer (GmailHttpClient.read, MicrosoftGraphHttpClient.read) is the whole
\* body of a success, within every limit of a response and the budget its
\* requests share, and is there before the deadline of the attempt - with Graph,
\* of the request; never a part that happened to fit or one that came too late.
AnswersAreWhole ==
    Answered =>
      /\ request.status = 200 /\ Usable /\ taken = request.size
      /\ taken <= ResponseLimit /\ WithinClient(taken) /\ received <= AttemptLimit
      /\ answer.at < (IF client = "gmail" THEN AttemptSeconds ELSE deadline)

TooLarge ==
    \/ requests > MaxRequests
    \/ request.size > ResponseLimit \/ ~WithinClient(request.size)
    \/ (received - taken) + request.size > AttemptLimit

\* An attempt is refused for its size only if a body really exceeds a limit or
\* there was one request too many: a body of exactly the limit is taken, and so
\* is a long explanation of an error that fits the budget.
RefusalIsDue ==
    /\ phase = "over" /\ client = "gmail" /\ answer.code = "UNSUPPORTED_CAPABILITY" => TooLarge
    /\ phase = "over" /\ client = "graph" /\ answer.code = "INVALID_RESPONSE" =>
         \/ TooLarge
         \/ request.status = 200 /\ (request.size = 0 \/ ~Usable)
         \/ request.status = 400 \/ request.body = "malformed"
=============================================================================
