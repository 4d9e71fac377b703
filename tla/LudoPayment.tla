---------------------------- MODULE LudoPayment ----------------------------
(***************************************************************************)
(* Requests to the payment providers (internal/payment/service.go): a      *)
(* token is kept for each provider, a request that finds it expired or     *)
(* missing logs in, and one that is answered 401 drops the token and is    *)
(* sent once more.                                                         *)
(*                                                                         *)
(* Requests run concurrently.  One mutex guards the tokens of both         *)
(* providers and is held during a login.  The providers are external: they *)
(* issue tokens and stop accepting them whenever they like, and a request  *)
(* that has timed out may still arrive.                                    *)
(***************************************************************************)
EXTENDS Integers

CONSTANTS
  Provider,
  Call, ProviderOf,  \* requests, and to whom they go
  MaxTokens          \* bound: tokens a provider issues

ASSUME PaymentAssumption ==
  /\ ProviderOf \in [Call -> Provider]
  /\ MaxTokens \in Nat \ {0}

\* Tokens are numbered as they are issued; 0 is the empty string.
Token == 1..MaxTokens
Attempt == 0..1

VARIABLES
  cached,   \* mpesaToken and usdtToken
  current,  \* providers whose token has not reached its expiry
  stage,    \* how far a request is
  attempt,  \* doMpesaRequest's and doUSDTRequest's loop counter
  sent,     \* what has been sent, and what has become of it
  issued,   \* external: the last token issued
  accepted  \* external: the tokens the provider accepts

tokenVars == <<cached, current, issued, accepted>>
vars == <<tokenVars, stage, attempt, sent>>

At(c, s) == stage[c] = s
Goto(c, s) == stage' = [stage EXCEPT ![c] = s]

\* A plausible slip: the mutex is released during the login.
Unlocked_DuringLogin == TRUE

\* The mutex is held by the request that logs in.
Unlocked == \A c \in Call : ~At(c, "login")

Usable(p) == cached[p] # 0 /\ p \in current

-----------------------------------------------------------------------------
Start(c) ==
  /\ At(c, "idle")
  /\ Goto(c, "getting")
  /\ UNCHANGED <<tokenVars, attempt, sent>>

\* The request goes out with a token, whatever becomes of the cache.
Send(c, token) == sent' = [sent EXCEPT ![c][attempt[c]] = [token |-> token, fate |-> "sent"]]

\* getMpesaToken and getUSDTToken: the kept token, or a login.
GetToken(c) ==
  /\ At(c, "getting") /\ Unlocked
  /\ IF Usable(ProviderOf[c])
     THEN Send(c, cached[ProviderOf[c]]) /\ Goto(c, "asking")
     ELSE Goto(c, "login") /\ UNCHANGED sent
  /\ UNCHANGED <<tokenVars, attempt>>

LoginSucceeds(c) ==
  LET p == ProviderOf[c]
      new == issued[p] + 1
  IN  /\ At(c, "login") /\ new \in Token
      /\ issued' = [issued EXCEPT ![p] = new]
      /\ accepted' = [accepted EXCEPT ![p] = @ \cup {new}]
      /\ cached' = [cached EXCEPT ![p] = new]
      /\ current' = current \cup {p}
      /\ Send(c, new) /\ Goto(c, "asking")
      /\ UNCHANGED attempt

LoginFails(c) ==
  /\ At(c, "login")
  /\ Goto(c, "error")
  /\ UNCHANGED <<tokenVars, attempt, sent>>

FateOf(c) == sent[c][attempt[c]].fate

\* Only an answer of 401 to the first attempt leads to a second one.
Succeeds(c) == FateOf(c) = "taken" /\ Goto(c, "ok")
Retries(c)  == FateOf(c) = "refused" /\ attempt[c] = 0 /\ Goto(c, "dropping")
GivesUp(c)  ==
  \/ FateOf(c) = "refused" /\ attempt[c] = 1 /\ Goto(c, "error")
  \/ FateOf(c) = "faulted" /\ Goto(c, "error")

Answered(c) ==
  /\ At(c, "asking")
  /\ Succeeds(c) \/ Retries(c) \/ GivesUp(c)
  /\ UNCHANGED <<tokenVars, attempt, sent>>

\* A plausible slip: a request that has timed out is sent again.
TimesOut_Retry(c) ==
  /\ At(c, "asking")
  /\ Goto(c, IF attempt[c] = 0 THEN "dropping" ELSE "error")
  /\ UNCHANGED <<tokenVars, attempt, sent>>

\* A plausible slip: a client without a timeout.
TimesOut_Never(c) == FALSE

\* No answer within the client's timeout, or one that cannot be read.
TimesOut(c) ==
  /\ At(c, "asking")
  /\ Goto(c, "error")
  /\ UNCHANGED <<tokenVars, attempt, sent>>

\* A plausible slip: the token that was refused is kept.
DropToken_Keep(c) ==
  /\ At(c, "dropping") /\ Unlocked
  /\ attempt' = [attempt EXCEPT ![c] = 1]
  /\ Goto(c, "getting")
  /\ UNCHANGED <<tokenVars, sent>>

\* Whatever token is kept by now is dropped, be it another's new one.
DropToken(c) ==
  /\ At(c, "dropping") /\ Unlocked
  /\ cached' = [cached EXCEPT ![ProviderOf[c]] = 0]
  /\ attempt' = [attempt EXCEPT ![c] = 1]
  /\ Goto(c, "getting")
  /\ UNCHANGED <<current, issued, accepted, sent>>

-----------------------------------------------------------------------------
(* Time, and the providers.                                                *)

\* 50 minutes after the login.
Expire(p) ==
  /\ p \in current
  /\ current' = current \ {p}
  /\ UNCHANGED <<cached, issued, accepted, stage, attempt, sent>>

\* The provider forgets the tokens it has issued.
Revoke(p) ==
  /\ accepted[p] # {}
  /\ accepted' = [accepted EXCEPT ![p] = {}]
  /\ UNCHANGED <<cached, current, issued, stage, attempt, sent>>

\* A request arrives: it is refused if its token is not accepted, and is taken
\* or fails for another reason if it is.
Arrive(c, a) ==
  /\ sent[c][a].fate = "sent"
  /\ \E fate \in IF sent[c][a].token \in accepted[ProviderOf[c]]
                 THEN {"taken", "faulted"} ELSE {"refused"} :
       sent' = [sent EXCEPT ![c][a].fate = fate]
  /\ UNCHANGED <<tokenVars, stage, attempt>>

-----------------------------------------------------------------------------
NothingSent == [token |-> 0, fate |-> "none"]

Init ==
  /\ cached = [p \in Provider |-> 0]
  /\ current = {}
  /\ stage = [c \in Call |-> "idle"]
  /\ attempt = [c \in Call |-> 0]
  /\ sent = [c \in Call |-> [a \in Attempt |-> NothingSent]]
  /\ issued = [p \in Provider |-> 0]
  /\ accepted = [p \in Provider |-> {}]

LoginStep(c) == LoginSucceeds(c) \/ LoginFails(c)
AnswerStep(c) == Answered(c) \/ TimesOut(c)

Next ==
  \/ \E c \in Call : Start(c) \/ GetToken(c) \/ LoginStep(c) \/ AnswerStep(c) \/ DropToken(c)
  \/ \E p \in Provider : Expire(p) \/ Revoke(p)
  \/ \E c \in Call, a \in Attempt : Arrive(c, a)

Spec == Init /\ [][Next]_vars

\* The HTTP client waits 30 seconds, no longer, and nobody waits for the mutex
\* for ever (sync.Mutex hands it to the one who has waited longest).  Nothing
\* is assumed of the providers.
FairSpec ==
  /\ Spec
  /\ \A c \in Call : /\ SF_vars(GetToken(c)) /\ SF_vars(DropToken(c))
                     /\ WF_vars(LoginStep(c)) /\ WF_vars(AnswerStep(c))

-----------------------------------------------------------------------------
(* What the payment service promises.                                      *)

\* Every variable has its type; one request at most holds the mutex; and the
\* token a service keeps is one it was given.
PaymentTypeOK ==
  /\ cached \in [Provider -> {0} \cup Token]
  /\ current \subseteq Provider
  /\ stage \in [Call -> {"idle", "getting", "login", "asking", "dropping", "ok", "error"}]
  /\ attempt \in [Call -> Attempt]
  /\ sent \in [Call -> [Attempt ->
       [token : {0} \cup Token, fate : {"none", "sent", "taken", "refused", "faulted"}]]]
  /\ issued \in [Provider -> {0} \cup Token]
  /\ accepted \in [Provider -> SUBSET Token]
  /\ \A p \in Provider : cached[p] <= issued[p] /\ accepted[p] \subseteq 1..issued[p]
  /\ \A c, e \in Call : At(c, "login") /\ At(e, "login") => c = e

\* "Retrying with fresh token": the second attempt of a request never presents
\* the token that the first one was refused with, although between the two any
\* number of other requests may refresh or drop the token that is kept
\* (doMpesaRequest, doUSDTRequest).
RetryUsesAnotherToken ==
  \A c \in Call :
    sent[c][1] # NothingSent =>
      /\ sent[c][0].fate = "refused"
      /\ sent[c][1].token > sent[c][0].token

\* A payment is never asked for twice by one request: the provider takes at
\* most one of the attempts, also when it takes one after the request has
\* timed out; and a request succeeds only if the provider has taken it.
Taken(c) == IF sent[c][0].fate = "taken" /\ sent[c][1].fate = "taken" THEN 2
            ELSE IF \E a \in Attempt : sent[c][a].fate = "taken" THEN 1 ELSE 0

Service == INSTANCE PaymentCall WITH
  taken  <- [c \in Call |-> Taken(c)],
  result <- [c \in Call |-> IF stage[c] \in {"ok", "error"} THEN stage[c] ELSE "none"]

ImplementsPaymentCall == Service!Spec

\* A request that has been started ends, although all requests wait for the
\* mutex while one logs in and the providers may refuse every token they issue
\* (at most two attempts, the client's timeout).
RequestEnds == \A c \in Call : At(c, "getting") ~> stage[c] \in {"ok", "error"}
=============================================================================
