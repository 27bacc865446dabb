------------------------- MODULE TokenRefreshProofs -------------------------
(***************************************************************************)
(* Theorems about TokenRefresh, for any number of requests and accounts    *)
(* and any lifetimes of the tokens.                                        *)
(***************************************************************************)
EXTENDS TokenRefresh, TLAPS

-----------------------------------------------------------------------------
(* Types *)

LEMMA Values == NoToken \in Token /\ NoRequest \in RequestState
<1>1. NoToken \in Token
  BY SessionAssumption DEF NoToken, Token
<1>2. NoRequest \in RequestState
  BY <1>1 DEF NoRequest, RequestState, At, Kind, Answer
<1> QED BY <1>1, <1>2

LEMMA TypeInit == Init => TypeOK
<1> SUFFICES ASSUME Init PROVE TypeOK
  OBVIOUS
<1>1. clock \in 0..MaxClock /\ stored \in Token /\ shown \in Account \cup {None}
  BY SessionAssumption, Values DEF Init
<1>2. isLoading \in BOOLEAN /\ atAuth \in BOOLEAN /\ leaving \in BOOLEAN /\ isRefreshing \in BOOLEAN
  BY DEF Init
<1>3. req \in [Request -> RequestState]
  BY Values DEF Init
<1> QED BY <1>1, <1>2, <1>3 DEF TypeOK

\* A request that is sent for the first or the second time with some token.
LEMMA SentType ==
  ASSUME NEW q \in RequestState, NEW n \in 0..2, NEW token \in Token
  PROVE  [q EXCEPT !.sends = n, !.token = token] \in RequestState
BY DEF RequestState

\* A request that is sent, and requests that settle, are in RequestState.
LEMMA SendType ==
  ASSUME TypeOK, NEW r \in Request, NEW kind \in Kind, NEW to \in Account \cup {None},
         Send(r, kind, to)
  PROVE  req' \in [Request -> RequestState]
<1> DEFINE sent == [NoRequest EXCEPT !.at = "sent", !.kind = kind, !.to = to,
                                     !.sends = 1, !.token = stored]
<1>1. [NoRequest EXCEPT !.at = "sent", !.kind = kind, !.to = to] \in RequestState
  BY Values DEF RequestState, At
<1>2. \A q \in RequestState : [q EXCEPT !.sends = 1, !.token = stored] \in RequestState
  <2>1. 1 \in 0..2 /\ stored \in Token
    BY DEF TypeOK
  <2> QED BY <2>1, SentType
<1>3. sent = [[NoRequest EXCEPT !.at = "sent", !.kind = kind, !.to = to]
                EXCEPT !.sends = 1, !.token = stored]
  OBVIOUS
<1>4. sent \in RequestState
  BY <1>1, <1>2, <1>3
<1> QED BY <1>4 DEF TypeOK, Send

LEMMA SettleType ==
  ASSUME TypeOK, NEW S \in SUBSET Request, Settle(S)
  PROVE  req' \in [Request -> RequestState]
BY Values DEF TypeOK, Settle

\* A request that has been answered.
LEMMA AnswerType ==
  ASSUME TypeOK, NEW r \in Request, NEW at \in At, NEW x \in Answer, NEW token \in Token,
         req' = [req EXCEPT ![r].at = at, ![r].answer = x, ![r].grant = token]
  PROVE  req' \in [Request -> RequestState]
<1> DEFINE answered == [req[r] EXCEPT !.at = at, !.answer = x, !.grant = token]
<1>1. answered \in RequestState
  BY DEF TypeOK, RequestState
<1>2. req' = [req EXCEPT ![r] = answered]
  BY DEF TypeOK
<1> QED BY <1>1, <1>2 DEF TypeOK

LEMMA TypeNext == TypeOK /\ [Next]_vars => TypeOK'
<1> SUFFICES ASSUME TypeOK, [Next]_vars PROVE TypeOK'
  OBVIOUS
<1> USE SessionAssumption
<1>1. ASSUME NEW r \in Request, Check(r) \/ Call(r) PROVE TypeOK'
  <2>1. req' \in [Request -> RequestState]
    BY <1>1, SendType DEF Check, Call, Kind
  <2> QED BY <1>1, <2>1 DEF TypeOK, Check, Call, page
<1>2. ASSUME NEW r \in Request, NEW a \in Account, QueueSwitch(r, a) \/ Login(r, a) PROVE TypeOK'
  <2>1. req' \in [Request -> RequestState]
    BY <1>2, SendType DEF QueueSwitch, Login, Kind
  <2> QED BY <1>2, <2>1 DEF TypeOK, QueueSwitch, Login, page
<1>3. ASSUME NEW r \in Request, Serve(r) PROVE TypeOK'
  <2>1. req' \in [Request -> RequestState]
    <3>1. PICK x \in Answers(r) :
            req' = [req EXCEPT ![r].at = "answered", ![r].answer = x,
                               ![r].grant = IF x = "ok" /\ req[r].to # None
                                            THEN [acct |-> req[r].to, born |-> clock]
                                            ELSE NoToken]
      BY <1>3 DEF Serve
    <3> DEFINE token == IF x = "ok" /\ req[r].to # None
                        THEN [acct |-> req[r].to, born |-> clock] ELSE NoToken
    <3>2. req[r].to \in Account \cup {None} /\ clock \in 0..MaxClock
      BY DEF TypeOK, RequestState
    <3>3. token \in Token
      BY <3>2, Values DEF Token
    <3>4. x \in Answer /\ "answered" \in At
      BY DEF Answers, Answer, At
    <3> HIDE DEF token
    <3>5. req' = [req EXCEPT ![r].at = "answered", ![r].answer = x, ![r].grant = token]
      BY <3>1 DEF token
    <3> QED BY <3>3, <3>4, <3>5, AnswerType
  <2> QED BY <1>3, <2>1 DEF TypeOK, Serve, page
<1>4. ASSUME NEW r \in Request, ServeRefresh(r) PROVE TypeOK'
  <2>1. req' \in [Request -> RequestState]
    <3>1. PICK x \in {"error", "ok"} :
            req' = [req EXCEPT ![r].at = "refreshed", ![r].answer = x,
                               ![r].grant = IF x = "ok" THEN [acct |-> @.acct, born |-> clock]
                                            ELSE NoToken]
      BY <1>4 DEF ServeRefresh
    <3> DEFINE token == IF x = "ok" THEN [acct |-> req[r].grant.acct, born |-> clock] ELSE NoToken
    <3>2. req[r].grant.acct \in Account \cup {None} /\ clock \in 0..MaxClock
      BY DEF TypeOK, RequestState, Token
    <3>3. token \in Token
      BY <3>2, Values DEF Token
    <3>4. x \in Answer /\ "refreshed" \in At
      BY DEF Answer, At
    <3>5. req' = [req EXCEPT ![r].at = "refreshed", ![r].answer = x, ![r].grant = token]
      BY <3>1 DEF TypeOK
    <3> HIDE DEF token
    <3> QED BY <3>3, <3>4, <3>5, AnswerType
  <2> QED BY <1>4, <2>1 DEF TypeOK, ServeRefresh, page
<1>5. ASSUME NEW r \in Request, Succeed(r) PROVE TypeOK'
  <2>1. req' \in [Request -> RequestState]
    BY <1>5, SettleType DEF Succeed
  <2>2. req[r] \in RequestState
    BY DEF TypeOK
  <2>3. stored' \in Token /\ shown' \in Account \cup {None}
        /\ isLoading' \in BOOLEAN /\ atAuth' \in BOOLEAN
    BY <1>5, <2>2 DEF TypeOK, Succeed, RequestState, Kind, Token
  <2> QED BY <1>5, <2>1, <2>3 DEF TypeOK, Succeed
<1>6. ASSUME NEW r \in Request, Fail(r) PROVE TypeOK'
  <2>1. req' \in [Request -> RequestState]
    BY <1>6, SettleType DEF Fail
  <2> QED BY <1>6, <2>1 DEF TypeOK, Fail, ShowNobody
<1>7. ASSUME NEW r \in Request, Enqueue(r) \/ BeginRefresh(r) PROVE TypeOK'
  <2>1. req' \in [Request -> RequestState]
    <3>1. [req[r] EXCEPT !.at = "queued"] \in RequestState
          /\ [req[r] EXCEPT !.at = "refreshing", !.grant = stored, !.late = FALSE] \in RequestState
      BY DEF TypeOK, RequestState, At
    <3>2. \/ req' = [req EXCEPT ![r] = [req[r] EXCEPT !.at = "queued"]]
          \/ req' = [req EXCEPT ![r] = [req[r] EXCEPT !.at = "refreshing", !.grant = stored,
                                                      !.late = FALSE]]
      BY <1>7 DEF TypeOK, Enqueue, BeginRefresh
    <3> QED BY <3>1, <3>2 DEF TypeOK
  <2> QED BY <1>7, <2>1 DEF TypeOK, Enqueue, BeginRefresh, page
<1>8. ASSUME NEW r \in Request, Resume(r) PROVE TypeOK'
  <2>1. req[r].grant \in Token
    BY DEF TypeOK, RequestState
  <2>2. req' \in [Request -> RequestState]
    <3>1. \A s \in Request : [req[s] EXCEPT !.at = "sent", !.sends = 2, !.token = req[r].grant,
                              !.answer = "none", !.grant = NoToken, !.late = FALSE] \in RequestState
      <4> SUFFICES ASSUME NEW s \in Request
                   PROVE  [req[s] EXCEPT !.at = "sent", !.sends = 2, !.token = req[r].grant,
                             !.answer = "none", !.grant = NoToken, !.late = FALSE] \in RequestState
        OBVIOUS
      <4> DEFINE sent == [req[s] EXCEPT !.sends = 2, !.token = req[r].grant]
      <4>1. sent \in RequestState
        <5>1. 2 \in 0..2 /\ req[s] \in RequestState
          BY DEF TypeOK
        <5> QED BY <2>1, <5>1, SentType
      <4>2. ASSUME NEW q \in RequestState
            PROVE  [q EXCEPT !.at = "sent", !.answer = "none", !.grant = NoToken, !.late = FALSE]
                     \in RequestState
        BY Values DEF RequestState, At, Answer
      <4>3. [sent EXCEPT !.at = "sent", !.answer = "none", !.grant = NoToken, !.late = FALSE]
              = [req[s] EXCEPT !.at = "sent", !.sends = 2, !.token = req[r].grant,
                   !.answer = "none", !.grant = NoToken, !.late = FALSE]
        BY DEF TypeOK, RequestState
      <4> QED BY <4>1, <4>2, <4>3
    <3> QED BY <1>8, <3>1 DEF TypeOK, Resume
  <2> QED BY <1>8, <2>1, <2>2 DEF TypeOK, Resume, page
<1>9. ASSUME NEW r \in Request, GiveUp(r) PROVE TypeOK'
  <2>1. req' \in [Request -> RequestState]
    BY <1>9, SettleType DEF GiveUp, Waiting
  <2> QED BY <1>9, <2>1 DEF TypeOK, GiveUp, ShowNobody
<1>10. CASE Logout
  BY <1>10, Values DEF TypeOK, Logout
<1>11. CASE Load
  <2>1. req' \in [Request -> RequestState]
    BY <1>11, Values DEF Load
  <2> QED BY <1>11, <2>1 DEF TypeOK, Load
<1>12. CASE Tick
  <2>1. clock' \in 0..MaxClock
    BY <1>12 DEF TypeOK, Tick
  <2>2. req' \in [Request -> RequestState]
    <3>1. \A r \in Request : [req[r] EXCEPT !.late = TRUE] \in RequestState
      BY DEF TypeOK, RequestState
    <3> QED BY <1>12, <3>1 DEF TypeOK, Tick
  <2> QED BY <1>12, <2>1, <2>2 DEF TypeOK, Tick, page
<1>13. CASE Elsewhere
  BY <1>13, Values DEF TypeOK, Elsewhere, page
<1>14. CASE UNCHANGED vars
  BY <1>14 DEF TypeOK, vars, page
<1> QED
  BY <1>1, <1>2, <1>3, <1>4, <1>5, <1>6, <1>7, <1>8, <1>9, <1>10, <1>11, <1>12, <1>13, <1>14
  DEF Next, ClientStep

\* Tokens, pages and requests have their types.
THEOREM SessionTypeCorrect == Spec => []TypeOK
BY TypeInit, TypeNext, PTL DEF Spec

-----------------------------------------------------------------------------
(* What sending and settling change *)

LEMMA SendEffect ==
  ASSUME TypeOK, NEW r \in Request, NEW kind, NEW to, Send(r, kind, to)
  PROVE  /\ \A s \in Request \ {r} : req'[s] = req[s]
         /\ req'[r].at = "sent" /\ req'[r].sends = 1 /\ req'[r].answer = "none"
<1> DEFINE sent == [NoRequest EXCEPT !.at = "sent", !.kind = kind, !.to = to,
                                     !.sends = 1, !.token = stored]
<1>1. sent.at = "sent" /\ sent.sends = 1 /\ sent.answer = "none"
  BY DEF NoRequest
<1>2. req' = [req EXCEPT ![r] = sent]
  BY DEF Send
<1> HIDE DEF sent
<1> QED BY <1>1, <1>2 DEF TypeOK

LEMMA SettleEffect ==
  ASSUME NEW S \in SUBSET Request, Settle(S)
  PROVE  /\ \A s \in Request \ S : req'[s] = req[s]
         /\ \A s \in S : req'[s].at = "settled" /\ req'[s].sends = 0
BY DEF Settle, NoRequest

-----------------------------------------------------------------------------
(* One refresh, and nobody left behind *)

OneRefresh == RefreshOnce /\ NoneStranded

LEMMA RefreshNext == TypeOK /\ OneRefresh /\ [Next]_vars => OneRefresh'
<1> SUFFICES ASSUME TypeOK, OneRefresh, [Next]_vars PROVE OneRefresh'
  OBVIOUS
<1> USE DEF OneRefresh, RefreshOnce, NoneStranded, Waiting, Refreshing
\* A step that starts no refresh, ends none and queues nothing keeps the invariant.
<1>0. ASSUME isRefreshing' = isRefreshing,
             \A r \in Request : Refreshing(r)' <=> Refreshing(r),
             \A r \in Request : req'[r].at = "queued" => req[r].at = "queued"
      PROVE  OneRefresh'
  BY <1>0
<1>1. ASSUME NEW r \in Request, Check(r) \/ Call(r) PROVE OneRefresh'
  <2>1. /\ \A s \in Request \ {r} : req'[s] = req[s]
        /\ req[r].at = "settled" /\ req'[r].at = "sent"
    BY <1>1, SendEffect DEF Check, Call
  <2> QED BY <1>0, <1>1, <2>1 DEF Check, Call
<1>2. ASSUME NEW r \in Request, NEW a \in Account, QueueSwitch(r, a) \/ Login(r, a) PROVE OneRefresh'
  <2>1. /\ \A s \in Request \ {r} : req'[s] = req[s]
        /\ req[r].at = "settled" /\ req'[r].at = "sent"
    BY <1>2, SendEffect DEF QueueSwitch, Login
  <2> QED BY <1>0, <1>2, <2>1 DEF QueueSwitch, Login
<1>3. ASSUME NEW r \in Request, Serve(r) \/ ServeRefresh(r) PROVE OneRefresh'
  <2>1. CASE Serve(r)
    BY <1>0, <2>1 DEF TypeOK, RequestState, Serve
  <2>2. CASE ServeRefresh(r)
    BY <1>0, <2>2 DEF TypeOK, RequestState, ServeRefresh
  <2> QED BY <1>3, <2>1, <2>2
<1>4. ASSUME NEW r \in Request, Succeed(r) \/ Fail(r) PROVE OneRefresh'
  <2>1. /\ \A s \in Request \ {r} : req'[s] = req[s]
        /\ req[r].at = "answered" /\ req'[r].at = "settled"
    BY <1>4, SettleEffect DEF Succeed, Fail
  <2> QED BY <1>0, <1>4, <2>1 DEF Succeed, Fail
<1>5. ASSUME NEW r \in Request, Enqueue(r) PROVE OneRefresh'
  <2>1. \A s \in Request : Refreshing(s)' <=> Refreshing(s)
    BY <1>5 DEF TypeOK, RequestState, Enqueue, Expired
  <2>2. isRefreshing /\ isRefreshing' = isRefreshing
    BY <1>5 DEF Enqueue
  <2> QED BY <2>1, <2>2
<1>6. ASSUME NEW r \in Request, BeginRefresh(r) PROVE OneRefresh'
  <2>1. \A s \in Request : ~Refreshing(s)
    BY <1>6 DEF BeginRefresh
  <2>2. \A s \in Request : Refreshing(s)' <=> s = r
    BY <1>6, <2>1 DEF TypeOK, RequestState, BeginRefresh
  <2>3. isRefreshing'
    BY <1>6 DEF BeginRefresh
  <2> QED BY <2>2, <2>3
\* The end of the only refresh empties the queue.
<1>7. ASSUME NEW r \in Request, Resume(r) \/ GiveUp(r) PROVE OneRefresh'
  <2>1. \A s \in Request : Refreshing(s) => s = r
    BY <1>7 DEF Resume, GiveUp
  <2>2. \A s \in Request : ~Refreshing(s)' /\ req'[s].at # "queued"
    <3>1. CASE Resume(r)
      BY <2>1, <3>1 DEF TypeOK, RequestState, Resume
    <3>2. CASE GiveUp(r)
      BY <2>1, <3>2, SettleEffect DEF GiveUp
    <3> QED BY <1>7, <3>1, <3>2
  <2>3. ~isRefreshing'
    BY <1>7 DEF Resume, GiveUp
  <2> QED BY <2>2, <2>3
<1>8. CASE Logout \/ Elsewhere \/ UNCHANGED vars
  BY <1>0, <1>8 DEF Logout, Elsewhere, vars
<1>9. CASE Load
  BY <1>9 DEF Load, NoRequest
<1>10. CASE Tick
  BY <1>0, <1>10 DEF TypeOK, RequestState, Tick
<1> QED
  BY <1>1, <1>2, <1>3, <1>4, <1>5, <1>6, <1>7, <1>8, <1>9, <1>10 DEF Next, ClientStep

\* The client avoids concurrent refreshes.
THEOREM RefreshOnceCorrect == Spec => []RefreshOnce
<1>1. Init => OneRefresh
  BY DEF Init, OneRefresh, RefreshOnce, NoneStranded, Waiting, Refreshing, NoRequest
<1>2. OneRefresh => RefreshOnce
  BY DEF OneRefresh
<1> QED BY <1>1, <1>2, TypeInit, TypeNext, RefreshNext, PTL DEF Spec

\* No request waits for a refresh that has ended.
THEOREM NoneStrandedCorrect == Spec => []NoneStranded
<1>1. Init => OneRefresh
  BY DEF Init, OneRefresh, RefreshOnce, NoneStranded, Waiting, Refreshing, NoRequest
<1>2. OneRefresh => NoneStranded
  BY DEF OneRefresh
<1> QED BY <1>1, <1>2, TypeInit, TypeNext, RefreshNext, PTL DEF Spec

-----------------------------------------------------------------------------
(* The age of tokens *)

\* A request that was told that its token has expired carries one that has.
Told(r) == \/ req[r].at = "answered" /\ req[r].answer = "expired"
           \/ req[r].at = "queued"
           \/ Refreshing(r)

\* A pair that a refresh has brought was made since the last tick but one: no
\* transmission outlives two.
Ages ==
  \A r \in Request :
    /\ Told(r) => req[r].token.born + AccessTTL <= clock
    /\ req[r].at = "refreshed" /\ req[r].answer = "ok" =>
         /\ ~req[r].late => req[r].grant.born = clock
         /\ clock <= req[r].grant.born + 1

LEMMA Numbers ==
  ASSUME TypeOK
  PROVE  /\ clock \in Nat
         /\ \A r \in Request : req[r].token.born \in Nat /\ req[r].grant.born \in Nat
BY SessionAssumption DEF TypeOK, RequestState, Token

LEMMA AgesNext == TypeOK /\ Ages /\ [Next]_vars => Ages'
<1> SUFFICES ASSUME TypeOK, Ages, [Next]_vars PROVE Ages'
  OBVIOUS
<1> USE SessionAssumption DEF Told, Refreshing
<1> DEFINE Age(r) == /\ Told(r) => req[r].token.born + AccessTTL <= clock
                     /\ req[r].at = "refreshed" /\ req[r].answer = "ok" =>
                          /\ ~req[r].late => req[r].grant.born = clock
                          /\ clock <= req[r].grant.born + 1
\* What a step leaves alone keeps its age while the clock stands.
<1>0. ASSUME clock' = clock, NEW r \in Request, req'[r] = req[r] PROVE Age(r)'
  BY <1>0 DEF Ages
<1>1. ASSUME NEW r \in Request, Check(r) \/ Call(r) PROVE Ages'
  <2>1. /\ clock' = clock
        /\ \A s \in Request \ {r} : req'[s] = req[s]
        /\ req'[r].at = "sent"
    BY <1>1, SendEffect DEF Check, Call
  <2> QED BY <1>0, <2>1 DEF Ages
<1>2. ASSUME NEW r \in Request, NEW a \in Account, QueueSwitch(r, a) \/ Login(r, a) PROVE Ages'
  <2>1. /\ clock' = clock
        /\ \A s \in Request \ {r} : req'[s] = req[s]
        /\ req'[r].at = "sent"
    BY <1>2, SendEffect DEF QueueSwitch, Login
  <2> QED BY <1>0, <2>1 DEF Ages
<1>3. ASSUME NEW r \in Request, Serve(r) PROVE Ages'
  <2>1. PICK x \in Answers(r) :
          req' = [req EXCEPT ![r].at = "answered", ![r].answer = x,
                             ![r].grant = IF x = "ok" /\ req[r].to # None
                                          THEN [acct |-> req[r].to, born |-> clock]
                                          ELSE NoToken]
    BY <1>3 DEF Serve
  <2>2. /\ clock' = clock
        /\ \A s \in Request \ {r} : req'[s] = req[s]
        /\ req'[r].at = "answered" /\ req'[r].answer = x /\ req'[r].token = req[r].token
    BY <1>3, <2>1 DEF TypeOK, RequestState, Serve
  <2>3. x = "expired" => req[r].token.born + AccessTTL <= clock
    BY <2>1, Numbers DEF Answers, Accepted
  <2> QED BY <1>0, <2>2, <2>3 DEF Ages
<1>4. ASSUME NEW r \in Request, ServeRefresh(r) PROVE Ages'
  <2>1. /\ clock' = clock
        /\ \A s \in Request \ {r} : req'[s] = req[s]
        /\ req[r].at = "refreshing" /\ req'[r].at = "refreshed" /\ req'[r].token = req[r].token
    BY <1>4 DEF TypeOK, RequestState, ServeRefresh
  <2>2. req'[r].answer = "ok" => req'[r].grant.born = clock
    BY <1>4 DEF TypeOK, RequestState, ServeRefresh
  <2> QED BY <1>0, <2>1, <2>2, Numbers DEF Ages
<1>5. ASSUME NEW r \in Request, Succeed(r) \/ Fail(r) PROVE Ages'
  <2>1. /\ clock' = clock
        /\ \A s \in Request \ {r} : req'[s] = req[s]
        /\ req'[r].at = "settled"
    BY <1>5, SettleEffect DEF Succeed, Fail
  <2> QED BY <1>0, <2>1 DEF Ages
<1>6. ASSUME NEW r \in Request, Enqueue(r) \/ BeginRefresh(r) PROVE Ages'
  <2>1. /\ clock' = clock
        /\ \A s \in Request \ {r} : req'[s] = req[s]
        /\ req'[r].at \in {"queued", "refreshing"} /\ req'[r].token = req[r].token
        /\ Told(r)
    BY <1>6 DEF TypeOK, RequestState, Enqueue, BeginRefresh, Expired
  <2> QED BY <1>0, <2>1 DEF Ages
<1>7. ASSUME NEW r \in Request, Resume(r) PROVE Ages'
  <2>1. /\ clock' = clock
        /\ \A s \in Request : req'[s] = req[s] \/ req'[s].at = "sent"
    BY <1>7 DEF TypeOK, RequestState, Resume
  <2> QED BY <1>0, <2>1 DEF Ages
<1>8. ASSUME NEW r \in Request, GiveUp(r) PROVE Ages'
  <2>1. /\ clock' = clock
        /\ \A s \in Request : req'[s] = req[s] \/ req'[s].at = "settled"
    BY <1>8, SettleEffect DEF GiveUp, Waiting
  <2> QED BY <1>0, <2>1 DEF Ages
<1>9. CASE Logout \/ Elsewhere \/ UNCHANGED vars
  BY <1>0, <1>9 DEF Logout, Elsewhere, vars, Ages
<1>10. CASE Load
  BY <1>10 DEF Load, NoRequest, Ages
<1>11. CASE Tick
  <2>1. clock' = clock + 1
    BY <1>11 DEF Tick
  <2>2. ASSUME NEW r \in Request PROVE Age(r)'
    <3>1. CASE UnderWay(r)
      <4>1. ~req[r].late /\ req'[r] = [req[r] EXCEPT !.late = TRUE]
        BY <1>11, <3>1 DEF Tick
      <4>2. /\ req'[r].at = req[r].at /\ req'[r].answer = req[r].answer
            /\ req'[r].token = req[r].token /\ req'[r].grant = req[r].grant
            /\ req'[r].late = TRUE
        BY <4>1 DEF TypeOK, RequestState
      <4> QED BY <2>1, <4>1, <4>2, Numbers DEF Ages
    <3>2. CASE ~UnderWay(r)
      <4>1. req'[r] = req[r] /\ req[r].at # "refreshed"
        BY <1>11, <3>2 DEF Tick, UnderWay
      <4> QED BY <2>1, <4>1, Numbers DEF Ages
    <3> QED BY <3>1, <3>2
  <2> QED BY <2>2 DEF Ages
<1> QED
  BY <1>1, <1>2, <1>3, <1>4, <1>5, <1>6, <1>7, <1>8, <1>9, <1>10, <1>11 DEF Next, ClientStep

\* Only Resume sends a request a second time, and with a younger token.
LEMMA FreshStep ==
  TypeOK /\ Ages /\ [Next]_vars =>
    \A r \in Request : req[r].sends = 1 /\ req'[r].sends = 2
      => req'[r].token.born > req[r].token.born
<1> SUFFICES ASSUME TypeOK, Ages, [Next]_vars, NEW r \in Request,
                    req[r].sends = 1, req'[r].sends = 2
             PROVE  req'[r].token.born > req[r].token.born
  OBVIOUS
<1> USE DEF TypeOK, RequestState
<1>0. req'[r] # req[r]
  OBVIOUS
<1>1. ASSUME NEW s \in Request, Resume(s) PROVE req'[r].token.born > req[r].token.born
  <2>1. r \in Waiting \cup {s}
    BY <1>0, <1>1 DEF Resume
  <2>2. req'[r].token = req[s].grant
    <3>1. req'[r] = [req[r] EXCEPT !.at = "sent", !.sends = 2, !.token = req[s].grant,
                                   !.answer = "none", !.grant = NoToken, !.late = FALSE]
      BY <1>1, <2>1 DEF Resume
    <3> QED BY <3>1
  <2>3. Told(r) /\ req[s].at = "refreshed" /\ req[s].answer = "ok"
    BY <1>1, <2>1 DEF Resume, Waiting, Told, Refreshing
  <2>4. clock <= req[s].grant.born + 1 /\ req[r].token.born + AccessTTL <= clock
    BY <2>3 DEF Ages
  <2>5. req[s].grant.born > req[r].token.born
    <3>1. clock \in Nat /\ req[r].token.born \in Nat /\ req[s].grant.born \in Nat
      BY Numbers
    <3> HIDE DEF TypeOK, RequestState
    <3> QED BY <2>4, <3>1, SessionAssumption
  <2> QED BY <2>2, <2>5
<1>2. ASSUME NEW s \in Request,
             \/ Check(s) \/ Call(s) \/ \E a \in Account : QueueSwitch(s, a) \/ Login(s, a)
      PROVE  FALSE
  <2>1. /\ \A q \in Request \ {s} : req'[q] = req[q]
        /\ req'[s].sends = 1
    BY <1>2, SendEffect DEF Check, Call, QueueSwitch, Login
  <2> QED BY <1>0, <2>1
<1>3. ASSUME NEW s \in Request, Serve(s) PROVE FALSE
  BY <1>3 DEF Serve
<1>4. ASSUME NEW s \in Request, ServeRefresh(s) PROVE FALSE
  BY <1>4 DEF ServeRefresh
<1>5. ASSUME NEW S \in SUBSET Request, Settle(S) PROVE FALSE
  BY <1>0, <1>5, SettleEffect
<1>6. ASSUME NEW s \in Request, Succeed(s) \/ Fail(s) \/ GiveUp(s) PROVE FALSE
  <2>1. \E S \in SUBSET Request : Settle(S)
    BY <1>6 DEF Succeed, Fail, GiveUp, Waiting
  <2> QED BY <1>5, <2>1
<1>7. ASSUME NEW s \in Request, Enqueue(s) \/ BeginRefresh(s) PROVE FALSE
  BY <1>7 DEF Enqueue, BeginRefresh
<1>8. CASE Load
  BY <1>8 DEF Load, NoRequest
<1>9. CASE Tick
  BY <1>9 DEF Tick
<1>10. CASE Logout \/ Elsewhere \/ UNCHANGED vars
  BY <1>0, <1>10 DEF Logout, Elsewhere, vars
<1> QED
  <2> HIDE DEF TypeOK, RequestState
  <2> QED BY <1>1, <1>2, <1>3, <1>4, <1>6, <1>7, <1>8, <1>9, <1>10 DEF Next, ClientStep

\* A request is sent again only with a token younger than the one that had expired.
THEOREM RetryIsFreshCorrect == Spec => RetryIsFresh
<1>1. Init => Ages
  <2>1. NoRequest.at = "settled"
    BY DEF NoRequest
  <2> QED BY <2>1 DEF Init, Ages, Told, Refreshing
<1>2. TypeOK /\ Ages /\ [Next]_vars =>
        [\A r \in Request : req[r].sends = 1 /\ req'[r].sends = 2
           => req'[r].token.born > req[r].token.born]_vars
  BY FreshStep
<1>3. TypeOK /\ Ages /\ [Next]_vars =>
        [\A r \in Request : req[r].sends = 1 /\ req'[r].sends = 2
           => req'[r].token.born > req[r].token.born]_vars
  BY <1>2
<1> QED BY <1>1, <1>3, TypeInit, TypeNext, AgesNext, PTL DEF Spec, RetryIsFresh
=============================================================================
