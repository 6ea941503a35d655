-------------------------------- MODULE HttpClient --------------------------------
(***************************************************************************)
(* The one way out to the public sources (packages/core/src/data/http.ts). *)
(* Times are milliseconds and tokens thousandths of one; a url is [https,  *)
(* host] and an answer [status, bytes, after], its status Absent for a     *)
(* request that failed or passed its deadline.                             *)
(***************************************************************************)
EXTENDS Integers, FiniteSets, Sequences, SequencesExt

CONSTANTS Allowlist, MaxRetries, RetryBase, MaxRetryDelay, MaxBytes

ASSUME RetryAssumption ==
  /\ Allowlist # {} /\ MaxRetries \in Nat /\ RetryBase \in Nat \ {0} /\ MaxRetryDelay \in Nat \ {0}

Absent == -1

IsAllowed(url) == url.https /\ url.host \in Allowlist

Least(a, b) == IF a < b THEN a ELSE b

(* Retry-After as it reads, or an exponential wait; both are capped.       *)
RetryDelays(after, attempt) ==
  IF after # Absent THEN {Least(after, MaxRetryDelay)}
  ELSE {Least(RetryBase * 2^attempt + jitter, MaxRetryDelay) : jitter \in {0, RetryBase * 2^attempt - 1}}

(* What one answer does to a request that is being made.                   *)
Answered(r, answer) ==
  IF r.outcome # "asked" THEN r
  ELSE LET sent == [r EXCEPT !.sent = @ + 1]
       IN IF answer.status = Absent THEN [sent EXCEPT !.outcome = "failed"]
          ELSE IF answer.status = 304 THEN [sent EXCEPT !.outcome = "not_modified"]
          ELSE IF answer.status \in {429, 503} /\ r.sent < MaxRetries
               THEN [sent EXCEPT !.waits = Append(@, RetryDelays(answer.after, r.sent))]
          ELSE IF answer.status \notin 200..299 THEN [sent EXCEPT !.outcome = "http_error"]
          ELSE IF answer.bytes > MaxBytes THEN [sent EXCEPT !.outcome = "too_large"]
          ELSE [sent EXCEPT !.outcome = "body"]

(* Every attempt takes a token first; the answers are those of each.       *)
HttpRequest(url, answers) ==
  IF ~IsAllowed(url) THEN [outcome |-> "denied", sent |-> 0, waits |-> <<>>]
  ELSE FoldLeft(Answered, [outcome |-> "asked", sent |-> 0, waits |-> <<>>], answers)

-----------------------------------------------------------------------------
(* The bucket of one host in one process. It starts full.                  *)

Full(rate, t) == [tokens |-> 1000 * rate, at |-> t, rate |-> rate]

Refilled(b, t) == [b EXCEPT !.tokens = Least(1000 * b.rate, @ + (t - b.at) * b.rate), !.at = t]

(* When the token is there, and the bucket after it is taken. The wait is  *)
(* rounded up, so one wait is enough.                                      *)
TakeToken(b, t) ==
  LET now == Refilled(b, t)
      wait == IF now.tokens >= 1000 THEN 0 ELSE (1000 - now.tokens + b.rate - 1) \div b.rate
      then == Refilled(now, t + wait)
  IN [at |-> t + wait, bucket |-> [then EXCEPT !.tokens = @ - 1000]]

(* The instants at which the requests asked for after these pauses go out. *)
Grants(rate, pauses) ==
  FoldLeft(LAMBDA s, p : LET got == TakeToken(s.bucket, s.bucket.at + p)
                         IN [bucket |-> got.bucket, at |-> Append(s.at, got.at)],
           [bucket |-> Full(rate, 0), at |-> <<>>], pauses).at

=============================================================================
