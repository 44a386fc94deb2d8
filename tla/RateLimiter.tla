------------------------------ MODULE RateLimiter -----------------------------
(***************************************************************************)
(* middleware/rateLimit.ts for one key of one limiter: a fixed window that *)
(* is opened by the first request after the last one has ended.  The store *)
(* is in memory and a request is counted without an await.                 *)
(***************************************************************************)
EXTENDS Integers, Sequences

CONSTANTS
  Window,      \* windowMs
  MaxRequests  \* max

ASSUME LimiterAssumption == Window \in Nat \ {0} /\ MaxRequests \in Nat \ {0}

VARIABLES
  bucket,   \* count and resetAt of the key
  admitted  \* history: when requests were let through

NoBucket == [count |-> 0, resetAt |-> -1]

LimiterTypeOK ==
  /\ bucket.count \in 0..MaxRequests /\ bucket.resetAt \in Nat \cup {-1}
  /\ admitted \in Seq(Nat)

LimiterInit == bucket = NoBucket /\ admitted = <<>>

EndsEarly(now) == now >= bucket.resetAt  \* slip: the window ends at resetAt itself
WindowOver(now) == now > bucket.resetAt

Admits(now) == WindowOver(now) \/ bucket.count < MaxRequests

Admit(now) ==
  /\ Admits(now)
  /\ bucket' = IF WindowOver(now) THEN [count |-> 1, resetAt |-> now + Window]
               ELSE [bucket EXCEPT !.count = @ + 1]
  /\ admitted' = Append(admitted, now)

Refuse(now) == ~Admits(now) /\ UNCHANGED <<bucket, admitted>>

(* A burst at the end of one window and one at the begin of the next: never *)
(* twice the limit within the length of a window, but one less.             *)
BurstsAreBounded ==
  LET last(i) == i + 2 * MaxRequests - 1 IN
  \A i \in DOMAIN admitted :
    last(i) \in DOMAIN admitted => admitted[last(i)] - admitted[i] > Window
===============================================================================
