------------------------------- MODULE AiClient ------------------------------
(***************************************************************************)
(* chatJson of ai/openaiClient.ts and the functions of ai/aiService.ts     *)
(* around it: a question to the model is tried a bounded number of times,  *)
(* and whatever the API does ends in an answer, the model's or the         *)
(* deterministic fallback; an error never reaches the caller.              *)
(*                                                                         *)
(* Prompts, wording and sleeping times are left out.  What the model says  *)
(* about the matter is `claim`, which can be anything the schema admits.   *)
(*                                                                         *)
(* The definitions commented "slip" are plausible mistakes in the code.    *)
(***************************************************************************)
EXTENDS Integers

CONSTANTS
  Askers,       \* calls in progress
  MaxAttempts,  \* OPENAI_MAX_RETRIES + 1
  Claims,       \* what a model can claim
  NoClaim       \* the claim of a fallback

ASSUME AiAssumption == MaxAttempts \in Nat \ {0} /\ NoClaim \notin Claims

VARIABLE ask  \* the state of chatJson for each asker

(* 429, 5xx, the timeout and network errors are tried again.                *)
Retryable == {"AI_RATE_LIMITED", "AI_UPSTREAM", "AI_TIMEOUT", "AI_NETWORK"}
(* AI_UPSTREAM for another 4xx; output that is not of the schema; no key.   *)
Fatal == {"AI_UPSTREAM", "AI_BAD_OUTPUT", "AI_DISABLED"}

Fallback == [source |-> "fallback", claim |-> NoClaim]
Model(claim) == [source |-> "ai", claim |-> claim]
Answer == {Fallback} \cup {Model(claim) : claim \in Claims}

NotAsking == [pc |-> "idle", attempt |-> 0, answer |-> Fallback]
AiTypeOK ==
  ask \in [Askers -> [pc : {"idle", "trying", "answered"}, attempt : 0..MaxAttempts,
                      answer : Answer]]

AiInit == ask = [a \in Askers |-> NotAsking]

BeginAsk(a) == ask' = [ask EXCEPT ![a] = [NotAsking EXCEPT !.pc = "trying", !.attempt = 1]]
EndAsk(a) == ask' = [ask EXCEPT ![a] = NotAsking]

Answered(a, answer) == [ask EXCEPT ![a].pc = "answered", ![a].answer = answer]

(* One turn of the loop that has got a retryable error.                     *)
TriedForever(a) ==  \* slip: after the last attempt it begins again
  [ask EXCEPT ![a].attempt = IF @ < MaxAttempts THEN @ + 1 ELSE 1]
TriedAgain(a) ==
  IF ask[a].attempt < MaxAttempts THEN [ask EXCEPT ![a].attempt = @ + 1]
  ELSE Answered(a, Fallback)

Attempt(a) ==
  /\ ask[a].pc = "trying"
  /\ \/ \E error \in Retryable : ask' = TriedAgain(a)
     \/ \E error \in Fatal : ask' = Answered(a, Fallback)
     \/ \E claim \in Claims : ask' = Answered(a, Model(claim))
===============================================================================
