-------------------------- MODULE LudoPaymentProofs --------------------------
(***************************************************************************)
(* Theorems about the requests to the payment providers, for any number of *)
(* requests, of providers and of tokens.                                   *)
(***************************************************************************)
EXTENDS LudoPayment, TLAPS

-----------------------------------------------------------------------------
(* The inductive invariant: what has been sent for a request follows from  *)
(* how far it is.                                                          *)

\* A request presents tokens its provider has issued, and has sent nothing for
\* an attempt it has not come to yet.
SentSoFar(c) ==
  /\ \A a \in Attempt : sent[c][a].token <= issued[ProviderOf[c]]
  /\ attempt[c] = 0 => sent[c][1] = NothingSent
  /\ stage[c] \in {"idle", "getting", "login"} => sent[c][attempt[c]] = NothingSent

\* There is a second attempt only after the first was refused, and from then on
\* the token kept is none or a newer one.
FirstWasRefused(c) ==
  /\ At(c, "dropping") => attempt[c] = 0 /\ sent[c][0].fate = "refused"
  /\ attempt[c] = 1 =>
       /\ sent[c][0].fate = "refused"
       /\ cached[ProviderOf[c]] = 0 \/ cached[ProviderOf[c]] > sent[c][0].token

RequestInv == \A c \in Call : SentSoFar(c) /\ FirstWasRefused(c)

PaymentInv == PaymentTypeOK /\ RequestInv /\ RetryUsesAnotherToken

\* Tokens, and the empty string, are numbers.
LEMMA TokensAreNumbers == Token \subseteq Nat /\ {0} \cup Token \subseteq Nat
  BY PaymentAssumption DEF Token

-----------------------------------------------------------------------------
(* It holds at first, and every step keeps it.                             *)

\* Nothing has been sent at first.
LEMMA PaymentInit == Init => PaymentInv
  BY PaymentAssumption
  DEF Init, PaymentInv, PaymentTypeOK, RequestInv, SentSoFar, FirstWasRefused,
      RetryUsesAnotherToken, NothingSent, At, Attempt, Token

\* A request that moves on without sending anything.
LEMMA QuietStep ==
  ASSUME PaymentInv, NEW c \in Call,
         Start(c) \/ LoginFails(c) \/ AnswerStep(c)
  PROVE  PaymentInv'
<1> USE PaymentAssumption DEF PaymentInv, At, Goto, tokenVars, Attempt
<1>1. /\ UNCHANGED <<tokenVars, attempt, sent>>
      /\ \E s \in {"getting", "asking", "error", "ok", "dropping"} : stage' = [stage EXCEPT ![c] = s]
      /\ stage'[c] # "login"
      /\ stage'[c] = "getting" => At(c, "idle")
      /\ stage'[c] = "dropping" => attempt[c] = 0 /\ sent[c][0].fate = "refused"
  BY DEF Start, LoginFails, AnswerStep, Answered, TimesOut, Succeeds, Retries, GivesUp, FateOf,
         PaymentTypeOK
<1>2. PaymentTypeOK' BY <1>1 DEF PaymentTypeOK
<1>3. RequestInv'
  BY <1>1 DEF RequestInv, SentSoFar, FirstWasRefused, PaymentTypeOK, NothingSent
<1>4. RetryUsesAnotherToken' BY <1>1 DEF RetryUsesAnotherToken, NothingSent
<1> QED BY <1>2, <1>3, <1>4

\* A request that is sent presents a token newer than the one refused before.
LEMMA SendStep ==
  ASSUME PaymentInv, NEW c \in Call, NEW t \in Token,
         At(c, "getting") \/ At(c, "login"),
         Send(c, t), Goto(c, "asking"), UNCHANGED attempt,
         t <= issued'[ProviderOf[c]],
         attempt[c] = 1 => t > sent[c][0].token,
         cached' \in [Provider -> {0} \cup Token],
         issued' \in [Provider -> {0} \cup Token],
         \A p \in Provider : issued[p] <= issued'[p],
         \A p \in Provider : cached'[p] = cached[p] \/ cached'[p] > issued[p]
  PROVE  RequestInv' /\ RetryUsesAnotherToken'
<1> USE PaymentAssumption DEF PaymentInv, At, Goto, Attempt, NothingSent
<1> DEFINE new == [token |-> t, fate |-> "sent"]
<1>1. sent' = [sent EXCEPT ![c] = [sent[c] EXCEPT ![attempt[c]] = new]] BY DEF Send
<1>2. sent'[c][attempt[c]] = new /\ attempt[c] \in {0, 1}
  BY <1>1 DEF PaymentTypeOK
<1>3. \A e \in Call, a \in Attempt : e # c \/ a # attempt[c] => sent'[e][a] = sent[e][a]
  BY <1>1 DEF PaymentTypeOK
<1>4. sent[c][attempt[c]] = NothingSent BY DEF RequestInv, SentSoFar
<1>5. ASSUME NEW e \in Call PROVE SentSoFar(e)'
  <2>1. /\ SentSoFar(e) /\ ProviderOf[e] \in Provider
        /\ attempt[e] \in {0, 1} /\ attempt[c] \in {0, 1}
    <3>1. SentSoFar(e) BY DEF RequestInv
    <3>2. attempt \in [Call -> Attempt] BY DEF PaymentTypeOK
    <3> QED BY <3>1, <3>2
  <2>2. ASSUME NEW a \in Attempt PROVE sent'[e][a].token <= issued'[ProviderOf[e]]
    <3>1. CASE e = c /\ a = attempt[c] BY <1>2, <3>1
    <3>2. CASE ~(e = c /\ a = attempt[c])
      <4>1. sent'[e][a] = sent[e][a] BY <1>3, <3>2
      <4>2. sent[e][a].token <= issued[ProviderOf[e]] /\ issued[ProviderOf[e]] <= issued'[ProviderOf[e]]
        BY <2>1 DEF SentSoFar
      <4>3. /\ issued[ProviderOf[e]] \in Nat /\ issued'[ProviderOf[e]] \in Nat
            /\ sent[e][a].token \in Nat
        BY <2>1, TokensAreNumbers DEF PaymentTypeOK
      <4> QED BY <4>1, <4>2, <4>3
    <3> QED BY <3>1, <3>2
  <2>3. attempt'[e] = 0 => sent'[e][1] = NothingSent
    BY <1>3, <2>1 DEF SentSoFar
  <2>4. stage'[e] \in {"idle", "getting", "login"} => sent'[e][attempt'[e]] = NothingSent
    BY <1>3, <2>1 DEF SentSoFar, PaymentTypeOK
  <2> QED BY <2>2, <2>3, <2>4 DEF SentSoFar
<1>6. ASSUME NEW e \in Call PROVE FirstWasRefused(e)'
  <2>1. attempt[e] = 1 => sent'[e][0] = sent[e][0] BY <1>3
  <2>2. At(e, "dropping")' => e # c /\ sent'[e][0] = sent[e][0] /\ At(e, "dropping")
    BY <1>3 DEF PaymentTypeOK
  <2>3. ProviderOf[e] \in Provider OBVIOUS
  <2>4. /\ cached'[ProviderOf[e]] \in Int /\ issued[ProviderOf[e]] \in Int
        /\ sent[e][0].token \in Int
    BY <2>3 DEF PaymentTypeOK, Token
  <2>5. sent[e][0].token <= issued[ProviderOf[e]] BY DEF RequestInv, SentSoFar
  <2>6. FirstWasRefused(e) BY DEF RequestInv
  <2>7. cached'[ProviderOf[e]] = cached[ProviderOf[e]] \/ cached'[ProviderOf[e]] > issued[ProviderOf[e]]
    BY <2>3
  <2>8. cached'[ProviderOf[e]] > issued[ProviderOf[e]] => cached'[ProviderOf[e]] > sent[e][0].token
    BY <2>4, <2>5
  <2> QED BY <2>1, <2>2, <2>6, <2>7, <2>8 DEF FirstWasRefused
<1>7. ASSUME NEW e \in Call, sent'[e][1] # NothingSent
      PROVE  sent'[e][0].fate = "refused" /\ sent'[e][1].token > sent'[e][0].token
  <2>1. CASE e = c /\ attempt[c] = 0
    BY <1>3, <1>7, <2>1 DEF RequestInv, SentSoFar
  <2>2. CASE e = c /\ attempt[c] = 1
    BY <1>2, <1>3, <2>2 DEF RequestInv, FirstWasRefused
  <2>3. CASE e # c
    BY <1>3, <1>7, <2>3 DEF RetryUsesAnotherToken
  <2> QED BY <1>2, <2>1, <2>2, <2>3
<1> QED BY <1>5, <1>6, <1>7 DEF RequestInv, RetryUsesAnotherToken

\* The kept token is sent, or the request logs in.
LEMMA GetTokenStep ==
  ASSUME PaymentInv, NEW c \in Call, GetToken(c)
  PROVE  PaymentInv'
<1> USE PaymentAssumption DEF PaymentInv, At, Goto, tokenVars, Attempt
<1> DEFINE p == ProviderOf[c]
<1>1. CASE Usable(p)
  <2>1. Send(c, cached[p]) /\ Goto(c, "asking") /\ UNCHANGED <<tokenVars, attempt>>
    BY <1>1 DEF GetToken
  <2>2. cached[p] \in Token /\ cached[p] <= issued[p]
    BY <1>1 DEF Usable, PaymentTypeOK
  <2>3. attempt[c] = 1 => cached[p] > sent[c][0].token
    BY <1>1 DEF RequestInv, FirstWasRefused, Usable
  <2>4. At(c, "getting") BY DEF GetToken
  <2>5. /\ cached' \in [Provider -> {0} \cup Token]
        /\ issued' \in [Provider -> {0} \cup Token]
        /\ \A q \in Provider : issued[q] <= issued'[q] /\ cached'[q] = cached[q]
        /\ cached[p] <= issued'[p]
    BY <2>1, <2>2 DEF PaymentTypeOK, Token
  <2>6. RequestInv' /\ RetryUsesAnotherToken'
    BY <2>1, <2>2, <2>3, <2>4, <2>5, SendStep
  <2>7. PaymentTypeOK' BY <2>1, <2>2 DEF PaymentTypeOK, Send
  <2> QED BY <2>6, <2>7
<1>2. CASE ~Usable(p)
  <2>1. /\ At(c, "getting") /\ stage' = [stage EXCEPT ![c] = "login"]
        /\ UNCHANGED <<tokenVars, attempt, sent>>
        /\ \A e \in Call : ~At(e, "login")
    BY <1>2 DEF GetToken, Unlocked
  <2>2. PaymentTypeOK' BY <2>1 DEF PaymentTypeOK
  <2>3. RequestInv'
    BY <2>1 DEF RequestInv, SentSoFar, FirstWasRefused, PaymentTypeOK, NothingSent
  <2>4. RetryUsesAnotherToken' BY <2>1 DEF RetryUsesAnotherToken, NothingSent
  <2> QED BY <2>2, <2>3, <2>4
<1> QED BY <1>1, <1>2

\* The token of a login is newer than every token presented so far.
LEMMA LoginStepKeeps ==
  ASSUME PaymentInv, NEW c \in Call, LoginSucceeds(c)
  PROVE  PaymentInv'
<1> USE PaymentAssumption DEF PaymentInv, At, Goto, Attempt
<1> DEFINE p == ProviderOf[c]
           new == issued[p] + 1
<1>1. /\ At(c, "login") /\ new \in Token
      /\ issued' = [issued EXCEPT ![p] = new]
      /\ accepted' = [accepted EXCEPT ![p] = @ \cup {new}]
      /\ cached' = [cached EXCEPT ![p] = new]
      /\ current' = current \cup {p}
      /\ Send(c, new) /\ Goto(c, "asking") /\ UNCHANGED attempt
  BY DEF LoginSucceeds
<1>2. p \in Provider /\ issued[p] \in Nat
  BY DEF PaymentTypeOK, Token
<1>3. /\ cached' \in [Provider -> {0} \cup Token]
      /\ issued' \in [Provider -> {0} \cup Token]
      /\ new <= issued'[p]
      /\ \A q \in Provider : issued[q] <= issued'[q]
      /\ \A q \in Provider : cached'[q] = cached[q] \/ cached'[q] > issued[q]
  <2>1. cached' \in [Provider -> {0} \cup Token] /\ issued' \in [Provider -> {0} \cup Token]
    BY <1>1 DEF PaymentTypeOK
  <2>2. issued'[p] = new /\ cached'[p] = new BY <1>1, <1>2 DEF PaymentTypeOK
  <2>3. \A q \in Provider : q # p => issued'[q] = issued[q] /\ cached'[q] = cached[q]
    BY <1>1 DEF PaymentTypeOK
  <2>4. \A q \in Provider : issued[q] \in Nat BY TokensAreNumbers DEF PaymentTypeOK
  <2> QED BY <2>1, <2>2, <2>3, <2>4, <1>2
<1>4. attempt[c] = 1 => new > sent[c][0].token
  <2>1. sent[c][0].token <= issued[p] /\ sent[c][0].token \in Int
    BY DEF RequestInv, SentSoFar, PaymentTypeOK, Token
  <2> QED BY <2>1, <1>2
<1>5. RequestInv' /\ RetryUsesAnotherToken'
  BY <1>1, <1>3, <1>4, SendStep
<1>6. PaymentTypeOK'
  <2>1. /\ cached' \in [Provider -> {0} \cup Token] /\ current' \subseteq Provider /\ issued' \in [Provider -> {0} \cup Token]
        /\ accepted' \in [Provider -> SUBSET Token]
    BY <1>1, <1>2, <1>3 DEF PaymentTypeOK
  <2>2. sent' \in [Call -> [Attempt ->
       [token : {0} \cup Token, fate : {"none", "sent", "taken", "refused", "faulted"}]]]
    BY <1>1 DEF PaymentTypeOK, Send
  <2>3. \A q \in Provider : cached'[q] <= issued'[q] /\ accepted'[q] \subseteq 1..issued'[q]
    <3> TAKE q \in Provider
    <3>1. CASE q = p
      <4>1. cached'[q] = new /\ issued'[q] = new /\ accepted'[q] = accepted[q] \cup {new}
        BY <1>1, <3>1, <1>2 DEF PaymentTypeOK
      <4>2. accepted[q] \subseteq 1..issued[q] BY DEF PaymentTypeOK
      <4> QED BY <4>1, <4>2, <1>2, <3>1
    <3>2. CASE q # p
      BY <1>1, <3>2 DEF PaymentTypeOK
    <3> QED BY <3>1, <3>2
  <2>4. /\ stage' \in [Call -> {"idle", "getting", "login", "asking", "dropping", "ok", "error"}]
        /\ attempt' \in [Call -> Attempt]
        /\ \A d, e \in Call : At(d, "login")' /\ At(e, "login")' => d = e
    BY <1>1 DEF PaymentTypeOK
  <2> QED BY <2>1, <2>2, <2>3, <2>4 DEF PaymentTypeOK
<1> QED BY <1>5, <1>6

\* The second attempt begins with the token dropped.
LEMMA DropTokenStep ==
  ASSUME PaymentInv, NEW c \in Call, DropToken(c)
  PROVE  PaymentInv'
<1> USE PaymentAssumption DEF PaymentInv, At, Goto, Attempt
<1>1. /\ At(c, "dropping")
      /\ cached' = [cached EXCEPT ![ProviderOf[c]] = 0]
      /\ attempt' = [attempt EXCEPT ![c] = 1]
      /\ stage' = [stage EXCEPT ![c] = "getting"]
      /\ UNCHANGED <<current, issued, accepted, sent>>
  BY DEF DropToken
<1>2. attempt[c] = 0 /\ sent[c][0].fate = "refused" /\ sent[c][1] = NothingSent
  BY <1>1 DEF RequestInv, FirstWasRefused, SentSoFar
<1>3. PaymentTypeOK'
  <2>1. \A p \in Provider : issued[p] \in Nat BY TokensAreNumbers DEF PaymentTypeOK
  <2> QED BY <1>1, <2>1 DEF PaymentTypeOK
<1>4. \A e \in Call : SentSoFar(e)'
  BY <1>1, <1>2 DEF RequestInv, SentSoFar, PaymentTypeOK, NothingSent
<1>5. \A e \in Call : FirstWasRefused(e)'
  BY <1>1, <1>2 DEF RequestInv, FirstWasRefused, PaymentTypeOK
<1>6. RetryUsesAnotherToken' BY <1>1 DEF RetryUsesAnotherToken, NothingSent
<1> QED BY <1>3, <1>4, <1>5, <1>6 DEF RequestInv

\* Neither time nor the provider touches what has been sent.
LEMMA ProviderStep ==
  ASSUME PaymentInv, NEW p \in Provider, Expire(p) \/ Revoke(p)
  PROVE  PaymentInv'
<1> USE PaymentAssumption DEF PaymentInv, At
<1>1. /\ current' \subseteq current
      /\ accepted' = accepted \/ accepted' = [accepted EXCEPT ![p] = {}]
      /\ UNCHANGED <<cached, issued, stage, attempt, sent>>
  BY DEF Expire, Revoke
<1>2. PaymentTypeOK' BY <1>1 DEF PaymentTypeOK
<1>3. RequestInv' BY <1>1 DEF RequestInv, SentSoFar, FirstWasRefused, NothingSent
<1>4. RetryUsesAnotherToken' BY <1>1 DEF RetryUsesAnotherToken, NothingSent
<1> QED BY <1>2, <1>3, <1>4

\* A request that arrives keeps its token, and one that was refused stays so.
LEMMA ArriveStep ==
  ASSUME PaymentInv, NEW c \in Call, NEW a \in Attempt, Arrive(c, a)
  PROVE  PaymentInv'
<1> USE PaymentAssumption DEF PaymentInv, At, tokenVars
<1>1. /\ sent[c][a].fate = "sent"
      /\ UNCHANGED <<cached, current, issued, accepted, stage, attempt>>
  BY DEF Arrive
<1>2. PICK fate \in {"taken", "faulted", "refused"} : sent' = [sent EXCEPT ![c][a].fate = fate]
  BY DEF Arrive
<1>3. PaymentTypeOK'
  <2>1. [sent[c][a] EXCEPT !.fate = fate] \in
          [token : {0} \cup Token, fate : {"none", "sent", "taken", "refused", "faulted"}]
    <3>1. sent[c][a] \in
            [token : {0} \cup Token, fate : {"none", "sent", "taken", "refused", "faulted"}]
      BY DEF PaymentTypeOK
    <3> QED BY <3>1
  <2>2. sent' = [sent EXCEPT ![c] = [sent[c] EXCEPT ![a] = [sent[c][a] EXCEPT !.fate = fate]]]
    BY <1>2
  <2>3. sent' \in [Call -> [Attempt ->
       [token : {0} \cup Token, fate : {"none", "sent", "taken", "refused", "faulted"}]]]
    BY <2>1, <2>2 DEF PaymentTypeOK
  <2> QED BY <1>1, <2>3 DEF PaymentTypeOK
<1>4. \A e \in Call, b \in Attempt : /\ sent'[e][b].token = sent[e][b].token
                                     /\ e # c \/ b # a => sent'[e][b] = sent[e][b]
  BY <1>2 DEF PaymentTypeOK
<1>5. sent[c][a] # NothingSent BY <1>1 DEF NothingSent
<1>6. UNCHANGED NothingSent BY DEF NothingSent
<1>7. \A e \in Call, b \in Attempt : /\ sent[e][b] = NothingSent => sent'[e][b] = NothingSent
                                     /\ sent'[e][b] # NothingSent => sent[e][b] # NothingSent
                                     /\ sent[e][b].fate = "refused" => sent'[e][b].fate = "refused"
  BY <1>1, <1>4, <1>5
<1>8. 0 \in Attempt /\ 1 \in Attempt /\ \A e \in Call : attempt[e] \in Attempt
  BY DEF Attempt, PaymentTypeOK
<1>9. \A e \in Call : SentSoFar(e)' /\ FirstWasRefused(e)'
  BY <1>1, <1>4, <1>6, <1>7, <1>8 DEF RequestInv, SentSoFar, FirstWasRefused
<1>10. RetryUsesAnotherToken'
  BY <1>4, <1>6, <1>7, <1>8 DEF RetryUsesAnotherToken
<1> QED BY <1>3, <1>9, <1>10 DEF RequestInv

\* Every step keeps the invariant.
LEMMA PaymentStep == PaymentInv /\ [Next]_vars => PaymentInv'
<1> SUFFICES ASSUME PaymentInv, [Next]_vars PROVE PaymentInv'
  OBVIOUS
<1>1. CASE UNCHANGED vars
  BY <1>1 DEF vars, tokenVars, PaymentInv, PaymentTypeOK, RequestInv, SentSoFar, FirstWasRefused,
              RetryUsesAnotherToken, NothingSent, At
<1>2. ASSUME NEW c \in Call, Start(c) \/ GetToken(c) \/ LoginStep(c) \/ AnswerStep(c) \/ DropToken(c)
      PROVE  PaymentInv'
  BY <1>2, QuietStep, GetTokenStep, LoginStepKeeps, DropTokenStep DEF LoginStep
<1>3. ASSUME NEW p \in Provider, Expire(p) \/ Revoke(p)
      PROVE  PaymentInv'
  BY <1>3, ProviderStep
<1>4. ASSUME NEW c \in Call, NEW a \in Attempt, Arrive(c, a)
      PROVE  PaymentInv'
  BY <1>4, ArriveStep
<1> QED BY <1>1, <1>2, <1>3, <1>4 DEF Next

\* So it holds in every reachable state.
LEMMA PaymentInvariant == Spec => []PaymentInv
  BY PaymentInit, PaymentStep, PTL DEF Spec

-----------------------------------------------------------------------------
\* Every variable keeps its type, one request at most holds the mutex, and the
\* token that is kept is one the provider has issued (getMpesaToken,
\* getUSDTToken).
THEOREM PaymentTypeCorrect == Spec => []PaymentTypeOK
  BY PaymentInvariant, PTL DEF PaymentInv

\* However many requests share a token, refresh it and drop it, the second
\* attempt of a request never presents the token that was refused
\* (doMpesaRequest, doUSDTRequest).
THEOREM RetryTokenIsNewer == Spec => []RetryUsesAnotherToken
  BY PaymentInvariant, PTL DEF PaymentInv

-----------------------------------------------------------------------------
(* The requests implement what the wallet is promised.                     *)

\* At most one attempt of a request is taken.
LEMMA TakenOnce ==
  ASSUME RetryUsesAnotherToken, NEW c \in Call
  PROVE  /\ Taken(c) \in {0, 1}
         /\ Taken(c) = 1 <=> \E a \in Attempt : sent[c][a].fate = "taken"
  BY DEF RetryUsesAnotherToken, Taken, NothingSent, Attempt

\* A step that changes no fate to or from "taken" is none the wallet sees, but
\* for the request's result.
LEMMA TakenUnchanged ==
  ASSUME NEW c \in Call,
         \A a \in Attempt : sent'[c][a].fate = "taken" <=> sent[c][a].fate = "taken"
  PROVE  Taken(c)' = Taken(c)
  BY DEF Taken, Attempt

\* The wallet's view of how requests have ended.
Result(c) == IF stage[c] \in {"ok", "error"} THEN stage[c] ELSE "none"

\* A step that moves no request on ends none.
LEMMA ResultUnchanged ==
  ASSUME NEW c \in Call, stage' = stage
  PROVE  Result(c)' = Result(c)
  BY DEF Result

\* Every step is one of PaymentCall, or none the wallet sees.
LEMMA ServiceStep ==
  ASSUME PaymentInv, PaymentInv', [Next]_vars
  PROVE  [Service!Next]_Service!callVars
<1> USE DEF PaymentInv
<1> DEFINE taken == [c \in Call |-> Taken(c)]
           result == [c \in Call |-> Result(c)]
<1>a. /\ Service!callVars = <<taken, result>>
      /\ UNCHANGED Service!callVars <=> UNCHANGED <<taken, result>>
  BY DEF Service!callVars, Result
<1>1. ASSUME UNCHANGED sent PROVE taken' = taken
  BY <1>1 DEF Taken
<1>2. CASE UNCHANGED vars
  <2>1. taken' = taken /\ result' = result
    BY <1>2, <1>1 DEF vars, Result
  <2> QED BY <2>1, <1>a
<1>3. ASSUME NEW c \in Call, stage[c] \notin {"ok", "error"},
             NEW s, Goto(c, s)
      PROVE  /\ s \notin {"ok", "error"} => result' = result
             /\ s \in {"ok", "error"} => /\ result[c] = "none"
                                         /\ result' = [result EXCEPT ![c] = s]
  BY <1>3 DEF Goto, Result, PaymentTypeOK
<1>4. ASSUME NEW c \in Call, NEW t, Send(c, t), stage[c] \in {"getting", "login"}
      PROVE  taken' = taken
  <2>1. sent[c][attempt[c]] = NothingSent BY <1>4 DEF RequestInv, SentSoFar
  <2>2. \A e \in Call, a \in Attempt : sent'[e][a].fate = "taken" <=> sent[e][a].fate = "taken"
    BY <1>4, <2>1 DEF Send, PaymentTypeOK, NothingSent
  <2>3. \A e \in Call : Taken(e)' = Taken(e) BY <2>2, TakenUnchanged
  <2> QED BY <2>3
<1>5. ASSUME NEW c \in Call, Start(c) \/ GetToken(c) \/ LoginSucceeds(c) \/ DropToken(c)
      PROVE  UNCHANGED <<taken, result>>
  <2>1. taken' = taken
    BY <1>1, <1>4, <1>5 DEF Start, GetToken, LoginSucceeds, DropToken, At
  <2>2. result' = result
    BY <1>3, <1>5 DEF Start, GetToken, LoginSucceeds, DropToken, At
  <2> QED BY <2>1, <2>2
<1>6. ASSUME NEW c \in Call, LoginFails(c) \/ AnswerStep(c)
      PROVE  Service!Succeed(c) \/ Service!Fail(c) \/ UNCHANGED <<taken, result>>
  <2>1. taken' = taken
    BY <1>1, <1>6 DEF LoginFails, AnswerStep, Answered, TimesOut
  <2>2. stage[c] \notin {"ok", "error"}
    BY <1>6 DEF LoginFails, AnswerStep, Answered, TimesOut, At
  <2>3. CASE At(c, "asking") /\ Succeeds(c)
    <3>1. result[c] = "none" /\ result' = [result EXCEPT ![c] = "ok"]
      BY <1>3, <2>2, <2>3 DEF Succeeds
    <3>2. taken[c] = 1
      BY <2>3, TakenOnce DEF Succeeds, FateOf, PaymentTypeOK
    <3> QED BY <2>1, <3>1, <3>2 DEF Service!Succeed, Result
  <2>4. CASE At(c, "asking") /\ Retries(c)
    <3>1. Goto(c, "dropping") BY <2>4 DEF Retries
    <3>2. result' = result
      BY <2>2, <3>1 DEF Goto, Result, PaymentTypeOK
    <3> QED BY <2>1, <3>2
  <2>5. CASE Goto(c, "error")
    <3>1. result[c] = "none" /\ result' = [result EXCEPT ![c] = "error"]
      BY <1>3, <2>2, <2>5
    <3> QED BY <2>1, <3>1 DEF Service!Fail, Result
  <2> QED BY <1>6, <2>3, <2>4, <2>5 DEF LoginFails, AnswerStep, Answered, TimesOut, GivesUp
<1>7. ASSUME NEW p \in Provider, Expire(p) \/ Revoke(p)
      PROVE  UNCHANGED <<taken, result>>
  BY <1>1, <1>7 DEF Expire, Revoke, Result
<1>8. ASSUME NEW c \in Call, NEW a \in Attempt, Arrive(c, a)
      PROVE  Service!Take(c) \/ UNCHANGED <<taken, result>>
  <2>1. result' = result BY <1>8 DEF Arrive, Result
  <2>2. sent[c][a].fate = "sent" BY <1>8 DEF Arrive
  <2>3. PICK fate \in {"taken", "faulted", "refused"} : sent' = [sent EXCEPT ![c][a].fate = fate]
    BY <1>8 DEF Arrive
  <2>4. /\ sent'[c][a].fate = fate
        /\ \A e \in Call, b \in Attempt : e # c \/ b # a => sent'[e][b] = sent[e][b]
    BY <2>3 DEF PaymentTypeOK
  <2>5. \A e \in Call : e # c => Taken(e)' = Taken(e)
    BY <2>4, TakenUnchanged
  <2>6. CASE fate = "taken"
    <3>1. Taken(c) # 1
      BY <2>2, <2>4, <2>6, TakenOnce DEF RetryUsesAnotherToken, NothingSent, Attempt
    <3>2. Taken(c) = 0 BY <3>1, TakenOnce
    <3>3. Taken(c)' = 1
      BY <2>4, <2>6 DEF RetryUsesAnotherToken, Taken, NothingSent, Attempt
    <3>4. taken[c] = 0 /\ taken' = [taken EXCEPT ![c] = 1]
      BY <2>5, <3>2, <3>3
    <3> QED BY <2>1, <3>4 DEF Service!Take, Result
  <2>7. CASE fate # "taken"
    <3>1. Taken(c)' = Taken(c)
      BY <2>2, <2>4, <2>7, TakenUnchanged
    <3>2. taken' = taken BY <2>5, <3>1
    <3> QED BY <2>1, <3>2
  <2> QED BY <2>6, <2>7
<1> QED
  BY <1>a, <1>2, <1>5, <1>6, <1>7, <1>8 DEF Next, LoginStep, Service!Next

\* A payment is never asked for twice by one request, also when an answer is
\* lost or late, and a request succeeds only if the provider has taken it: the
\* service is what PaymentCall says, whatever providers do.
THEOREM PaymentImplementsCall == Spec => ImplementsPaymentCall
<1>1. Init => Service!Init
  BY DEF Init, Service!Init, Taken, NothingSent, Attempt
<1>2. PaymentInv /\ PaymentInv' /\ [Next]_vars => [Service!Next]_Service!callVars
  BY ServiceStep
<1> QED BY <1>1, <1>2, PaymentInvariant, PTL DEF Spec, Service!Spec, ImplementsPaymentCall
=============================================================================
