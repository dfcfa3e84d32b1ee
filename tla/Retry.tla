-------------------------------- MODULE Retry --------------------------------
(***************************************************************************)
(* internal/retry/retry.go: which errors of a Binance call are retried and *)
(* which end a transfer.  An error is what errors.As and the text matching *)
(* of retry.go can see of it:                                              *)
(*   code    the Binance code of a *binance.APIError, 0 when it is none    *)
(*   net     something in the chain implements net.Error (every error the  *)
(*           HTTP client itself returns does: *url.Error wraps it)         *)
(*   timeout what that net.Error answers to Timeout()                      *)
(*   status  the HTTP status in the text of doRequest's own error, or 0    *)
(*   pattern the text holds one of the network phrases ("eof", ...)        *)
(***************************************************************************)
EXTENDS Integers

Failure(code, net, timeout, status, pattern) ==
  [code |-> code, net |-> net, timeout |-> timeout, status |-> status,
   pattern |-> pattern]

(***************************************************************************)
(* The ways a call ends in an error, one of each kind the code tells       *)
(* apart, as client.go's doRequest and Withdraw produce them.              *)
(***************************************************************************)
FailureOf ==
  [timeout        |-> Failure(0, TRUE, TRUE, 0, TRUE),
   reset          |-> Failure(0, TRUE, FALSE, 0, TRUE),
   refused        |-> Failure(0, TRUE, FALSE, 0, TRUE),
   truncated      |-> Failure(0, FALSE, FALSE, 0, TRUE),
   malformed      |-> Failure(0, FALSE, FALSE, 0, FALSE),
   http503        |-> Failure(0, FALSE, FALSE, 503, FALSE),
   http500        |-> Failure(0, FALSE, FALSE, 500, FALSE),
   rateLimited    |-> Failure(-1003, FALSE, FALSE, 429, FALSE),
   notWhitelisted |-> Failure(-4003, FALSE, FALSE, 400, FALSE),
   insufficient   |-> Failure(-4006, FALSE, FALSE, 400, FALSE),
   duplicate      |-> Failure(-4026, FALSE, FALSE, 400, FALSE),
   canceled       |-> Failure(0, FALSE, FALSE, 0, FALSE)]

FailureKinds == DOMAIN FailureOf

(* Whether Binance saw the request: refused it with an answer, never got   *)
(* it, or may have acted on it although the caller holds an error.         *)
Rejections == {"rateLimited", "notWhitelisted", "insufficient"}
Undelivered == {"refused"}
Ambiguous == {"timeout", "reset", "truncated", "malformed", "http503", "http500"}

TransientCodes == {-1000, -1001, -1003, -1015}

PermanentCodes ==
  {-1002, -1013, -1016, -1100, -1102, -1103, -1104, -1105, -1106, -1111,
   -1112, -1121, -4003, -4004, -4005, -4015, -4026, -4029, -4030, -4057}

(* A net.Error decides by Timeout() alone, so the *net.OpError and         *)
(* *net.DNSError branches below it are never taken: both implement         *)
(* net.Error.  The text patterns are left for errors that do not.          *)
IsNetworkError(e) == IF e.net THEN e.timeout ELSE e.pattern

IsTransientFailure(e) ==
  IF e.code # 0
  THEN e.code \in TransientCodes
  ELSE IsNetworkError(e) \/ e.status \in {429, 502, 503, 504}

IsPermanentFailure(e) == e.code \in PermanentCodes

IsTransient(kind) == IsTransientFailure(FailureOf[kind])

IsPermanent(kind) == IsPermanentFailure(FailureOf[kind])

(* Seeded fault: the last attempt is not seen as the last.                 *)
RetryAfterOffByOne(kind, attempt, maxAttempts) ==
  attempt <= maxAttempts /\ IsTransient(kind)

(* Do and DoWithResult sleep and try again after an error exactly when an  *)
(* attempt is left and the error is transient.                             *)
RetryAfter(kind, attempt, maxAttempts) ==
  attempt < maxAttempts /\ IsTransient(kind)

=============================================================================
