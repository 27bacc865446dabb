---------------------------- MODULE TokenRefresh ----------------------------
(***************************************************************************)
(* Sessions of the web frontend: the HTTP client that refreshes an expired *)
(* access token and sends the requests that met it again                   *)
(* (src/frontend/src/services/client.ts), login, logout, the check at load *)
(* time, the switch of the account, and the backend's side of them         *)
(* (internal/handler/auth.go, internal/util/token.go).                     *)
(*                                                                         *)
(* The tabs of a browser share the stored tokens and nothing else: whether *)
(* a refresh is running, and which requests wait for it, is known to one   *)
(* tab only.  The module follows one tab; the others appear by what they   *)
(* store.  JavaScript runs one callback at a time, so an action is one     *)
(* callback: what happens between two awaits.  Answers arrive in any order.*)
(***************************************************************************)
EXTENDS Integers

CONSTANTS
  Request,      \* ids of requests; an id is used again when its request has settled
  OtherTabs,    \* whether the user has other tabs open
  Account,      \* the accounts the user is a member of
  None,         \* no account
  AccessTTL,    \* how long an access token is accepted
  RefreshTTL,   \* how long a refresh token is accepted
  MaxClock      \* bound: how long the clock runs

ASSUME SessionAssumption ==
  /\ OtherTabs \in BOOLEAN
  /\ None \notin Account
  /\ AccessTTL \in Nat /\ AccessTTL > 1
  /\ RefreshTTL \in Nat
  /\ MaxClock \in Nat

VARIABLES
  clock,          \* in units of the client's timeout of 10 seconds
  stored,         \* localStorage: the access and the refresh token, written together
  shown,          \* the account the page shows, None if nobody is logged in
  isLoading,      \* the page has not yet checked the tokens it found
  atAuth,         \* the address of the page ends with /auth
  leaving,        \* location.href was assigned, and the page has not been left yet
  isRefreshing,
  req             \* req[r]: the request with id r

page == <<shown, isLoading, atAuth, leaving>>
vars == <<clock, stored, page, isRefreshing, req>>

-----------------------------------------------------------------------------
(* A token says for which account and when it was made.  Those of a pair are made    *)
(* together and differ in how long they are accepted.                                *)

Token   == [acct : Account \cup {None}, born : 0..MaxClock]
NoToken == [acct |-> None, born |-> 0]

Accepted(token, ttl) == token.acct # None /\ clock < token.born + ttl

(* The life of a request: sent and answered; after an expired token it waits in      *)
(* failedQueue, or it is the one that refreshes; then it is sent a second time.      *)

At      == {"settled", "sent", "answered", "queued", "refreshing", "refreshed"}
Kind    == {"call", "check", "login", "switch"}
Answer  == {"none", "ok", "expired", "error"}

RequestState == [at : At, kind : Kind, to : Account \cup {None}, sends : 0..2, token : Token,
                 answer : Answer, grant : Token, late : BOOLEAN]

NoRequest == [at |-> "settled", kind |-> "call", to |-> None, sends |-> 0, token |-> NoToken,
              answer |-> "none", grant |-> NoToken, late |-> FALSE]

Waiting       == {r \in Request : req[r].at = "queued"}
Refreshing(r) == req[r].at \in {"refreshing", "refreshed"}
UnderWay(r)   == req[r].at \in {"sent", "answered"} \/ Refreshing(r)

Init ==
  /\ clock = 0
  /\ stored = NoToken
  /\ shown = None
  /\ isLoading = TRUE
  /\ atAuth = FALSE
  /\ leaving = FALSE
  /\ isRefreshing = FALSE
  /\ req = [r \in Request |-> NoRequest]

-----------------------------------------------------------------------------
(* The user *)

\* beforeRequest: the request carries the access token that is stored now
Send(r, kind, to) ==
  req' = [req EXCEPT ![r] = [NoRequest EXCEPT !.at = "sent", !.kind = kind, !.to = to,
                                              !.sends = 1, !.token = stored]]

Call(r) ==
  /\ req[r].at = "settled" /\ shown # None
  /\ Send(r, "call", None)
  /\ UNCHANGED <<clock, stored, page, isRefreshing>>

QueueSwitch(r, a) ==
  /\ req[r].at = "settled" /\ shown # None
  /\ Send(r, "switch", a)
  /\ UNCHANGED <<clock, stored, page, isRefreshing>>

Login(r, a) ==
  /\ req[r].at = "settled" /\ shown = None /\ ~isLoading
  /\ Send(r, "login", a)
  /\ UNCHANGED <<clock, stored, page, isRefreshing>>

\* Requests that are under way go on: nothing aborts them.
Logout ==
  /\ shown # None
  /\ shown' = None
  /\ stored' = NoToken
  /\ atAuth' = FALSE      \* /auth?redirect=/&token=
  /\ UNCHANGED <<clock, isLoading, leaving, isRefreshing, req>>

\* The page is loaded again, by the user or because its address was assigned: what the
\* tab kept in memory is gone.
Load ==
  /\ req' = [r \in Request |-> NoRequest]
  /\ shown' = None
  /\ isLoading' = TRUE
  /\ atAuth' = (atAuth \/ leaving)
  /\ leaving' = FALSE
  /\ isRefreshing' = FALSE
  /\ UNCHANGED <<clock, stored>>

\* The effect of AuthProvider: a page begins with the check of its tokens, and shows
\* nothing before that has settled.
Check(r) ==
  /\ isLoading /\ \A s \in Request : req[s].at = "settled"
  /\ Send(r, "check", None)
  /\ UNCHANGED <<clock, stored, page, isRefreshing>>

-----------------------------------------------------------------------------
(* The backend, or the network *)

\* A request without a token, one that the handler refuses and one that times out look
\* alike to the client, and so does a check that finds nobody logged in.
Answers(r) ==
  {"error"}
  \cup {x \in {"ok"}      : req[r].kind = "login" \/ Accepted(req[r].token, AccessTTL)}
  \cup {x \in {"expired"} : /\ req[r].kind # "login" /\ req[r].token.acct # None
                            /\ ~Accepted(req[r].token, AccessTTL)}

\* A login and a switch are answered with a pair of tokens for the account.
Serve(r) ==
  /\ req[r].at = "sent"
  /\ \E x \in Answers(r) :
       req' = [req EXCEPT ![r].at = "answered", ![r].answer = x,
                          ![r].grant = IF x = "ok" /\ req[r].to # None
                                       THEN [acct |-> req[r].to, born |-> clock] ELSE NoToken]
  /\ UNCHANGED <<clock, stored, page, isRefreshing>>

\* mutant: the new tokens count from the end of the old refresh token
ServeRefreshFromEnd(r) ==
  /\ req[r].at = "refreshing"
  /\ \E x \in {"error"} \cup {y \in {"ok"} : Accepted(req[r].grant, RefreshTTL)} :
       req' = [req EXCEPT ![r].at = "refreshed", ![r].answer = x,
                          ![r].grant = IF x = "ok"
                                       THEN [acct |-> @.acct, born |-> @.born + RefreshTTL]
                                       ELSE NoToken]
  /\ UNCHANGED <<clock, stored, page, isRefreshing>>

\* RefreshToken makes a pair with the claims of the old one.
ServeRefresh(r) ==
  /\ req[r].at = "refreshing"
  /\ \E x \in {"error"} \cup {y \in {"ok"} : Accepted(req[r].grant, RefreshTTL)} :
       req' = [req EXCEPT ![r].at = "refreshed", ![r].answer = x,
                          ![r].grant = IF x = "ok" THEN [acct |-> @.acct, born |-> clock]
                                       ELSE NoToken]
  /\ UNCHANGED <<clock, stored, page, isRefreshing>>

-----------------------------------------------------------------------------
(* The client *)

Settle(S) == req' = [r \in Request |-> IF r \in S THEN NoRequest ELSE req[r]]

\* A check that fails leaves nobody logged in, and the page stops loading.
ShowNobody(S) ==
  LET checked == \E r \in S : req[r].kind = "check" IN
  /\ shown' = IF checked THEN None ELSE shown
  /\ isLoading' = (isLoading /\ ~checked)

Succeed(r) ==
  /\ req[r].at = "answered" /\ req[r].answer = "ok"
  /\ Settle({r})
  /\ CASE req[r].kind = "call"   -> UNCHANGED <<stored, shown, isLoading, atAuth>>
       [] req[r].kind = "check"  -> /\ shown' = req[r].token.acct
                                    /\ isLoading' = FALSE
                                    /\ UNCHANGED <<stored, atAuth>>
       [] req[r].kind = "login"  -> /\ shown' = req[r].to
                                    /\ atAuth' = FALSE
                                    /\ stored' = req[r].grant
                                    /\ UNCHANGED isLoading
       [] req[r].kind = "switch" -> /\ shown' = IF shown = None THEN None ELSE req[r].to
                                    /\ stored' = req[r].grant
                                    /\ UNCHANGED <<isLoading, atAuth>>
  /\ UNCHANGED <<clock, leaving, isRefreshing>>

\* Every other error is thrown to the caller, also that of a request sent again: that
\* one bypasses the hooks.
Fail(r) ==
  /\ req[r].at = "answered"
  /\ \/ req[r].answer = "error"
     \/ req[r].answer = "expired" /\ req[r].sends = 2
  /\ Settle({r})
  /\ ShowNobody({r})
  /\ UNCHANGED <<clock, stored, atAuth, leaving, isRefreshing>>

Expired(r) == req[r].at = "answered" /\ req[r].answer = "expired" /\ req[r].sends = 1

\* failedQueue.push
Enqueue(r) ==
  /\ Expired(r) /\ isRefreshing
  /\ req' = [req EXCEPT ![r].at = "queued"]
  /\ UNCHANGED <<clock, stored, page, isRefreshing>>

\* mutant: every expired answer starts a refresh
BeginRefreshUnguarded(r) ==
  /\ Expired(r)
  /\ isRefreshing' = TRUE
  /\ req' = [req EXCEPT ![r].at = "refreshing", ![r].grant = stored, ![r].late = FALSE]
  /\ UNCHANGED <<clock, stored, page>>

\* refreshTokenFn up to its await
BeginRefresh(r) ==
  /\ Expired(r) /\ ~isRefreshing
  /\ isRefreshing' = TRUE
  /\ req' = [req EXCEPT ![r].at = "refreshing", ![r].grant = stored, ![r].late = FALSE]
  /\ UNCHANGED <<clock, stored, page>>

\* mutant: the requests are sent again as they were
ResumeOldHeader(r) ==
  /\ req[r].at = "refreshed" /\ req[r].answer = "ok"
  /\ stored' = req[r].grant
  /\ req' = [s \in Request |->
               IF s \in Waiting \cup {r}
               THEN [req[s] EXCEPT !.at = "sent", !.sends = 2, !.answer = "none",
                                   !.grant = NoToken, !.late = FALSE]
               ELSE req[s]]
  /\ isRefreshing' = FALSE
  /\ UNCHANGED <<clock, page>>

\* mutant: the requests go through the hooks again, with the old token
ResumeThroughHooks(r) ==
  /\ req[r].at = "refreshed" /\ req[r].answer = "ok"
  /\ stored' = req[r].grant
  /\ req' = [s \in Request |->
               IF s \in Waiting \cup {r}
               THEN [req[s] EXCEPT !.at = "sent", !.answer = "none", !.grant = NoToken,
                                   !.late = FALSE]
               ELSE req[s]]
  /\ isRefreshing' = FALSE
  /\ UNCHANGED <<clock, page>>

\* The tokens are stored, and everything that waited is sent again with the new one.
Resume(r) ==
  LET token == req[r].grant IN
  /\ req[r].at = "refreshed" /\ req[r].answer = "ok"
  /\ stored' = token
  /\ req' = [s \in Request |->
               IF s \in Waiting \cup {r}
               THEN [req[s] EXCEPT !.at = "sent", !.sends = 2, !.token = token,
                                   !.answer = "none", !.grant = NoToken, !.late = FALSE]
               ELSE req[s]]
  /\ isRefreshing' = FALSE
  /\ UNCHANGED <<clock, page>>

\* mutant: a failed refresh leaves the queue as it is
GiveUpAlone(r) ==
  /\ req[r].at = "refreshed" /\ req[r].answer = "error"
  /\ Settle({r})
  /\ ShowNobody({r})
  /\ leaving' = (leaving \/ ~atAuth)
  /\ isRefreshing' = FALSE
  /\ UNCHANGED <<clock, stored, atAuth>>

\* Everything that waited fails, and the page is left for the login, unless it is there.
GiveUp(r) ==
  LET lost == Waiting \cup {r} IN
  /\ req[r].at = "refreshed" /\ req[r].answer = "error"
  /\ Settle(lost)
  /\ ShowNobody(lost)
  /\ leaving' = (leaving \/ ~atAuth)
  /\ isRefreshing' = FALSE
  /\ UNCHANGED <<clock, stored, atAuth>>

\* Time passes.  No transmission outlives the timeout of the client, so what was under
\* way at the last tick has been dealt with at this one.
Tick ==
  /\ clock < MaxClock
  /\ \A r \in Request : UnderWay(r) => ~req[r].late
  /\ clock' = clock + 1
  /\ req' = [r \in Request |-> IF UnderWay(r) THEN [req[r] EXCEPT !.late = TRUE] ELSE req[r]]
  /\ UNCHANGED <<stored, page, isRefreshing>>

\* Another tab logs in or out, switches, or refreshes: it stores a pair made since the
\* last tick, or removes what is stored.
Elsewhere ==
  /\ OtherTabs
  /\ stored' \in {NoToken} \cup {token \in Token : /\ token.acct # None
                                                  /\ token.born <= clock
                                                  /\ clock <= token.born + 1}
  /\ UNCHANGED <<clock, page, isRefreshing, req>>

-----------------------------------------------------------------------------
ClientStep(r) == Succeed(r) \/ Fail(r) \/ Enqueue(r) \/ BeginRefresh(r) \/ Resume(r) \/ GiveUp(r)

Next ==
  \/ \E r \in Request :
       \/ Check(r) \/ Call(r) \/ \E a \in Account : QueueSwitch(r, a) \/ Login(r, a)
       \/ Serve(r) \/ ServeRefresh(r)
       \/ ClientStep(r)
  \/ Logout \/ Load \/ Tick \/ Elsewhere

Spec == Init /\ [][Next]_vars

\* Every transmission is answered or times out, and callbacks run.  Nothing is assumed
\* of the user or of the clock.
FairSpec == Spec /\ \A r \in Request : WF_vars(Serve(r) \/ ServeRefresh(r) \/ ClientStep(r))

-----------------------------------------------------------------------------
(* Properties *)

\* Type invariant of the stored tokens, the page and the requests.
TypeOK ==
  /\ clock \in 0..MaxClock
  /\ stored \in Token
  /\ shown \in Account \cup {None}
  /\ isLoading \in BOOLEAN /\ atAuth \in BOOLEAN /\ leaving \in BOOLEAN
  /\ isRefreshing \in BOOLEAN
  /\ req \in [Request -> RequestState]

\* The client avoids concurrent refreshes: the tab has at most one under way, and its
\* flag says so exactly.
RefreshOnce ==
  /\ \A r, s \in Request : Refreshing(r) /\ Refreshing(s) => r = s
  /\ isRefreshing <=> \E r \in Request : Refreshing(r)

\* No request waits in failedQueue for a refresh that has ended: one that is queued
\* while the queue is processed would wait for ever.
NoneStranded == Waiting # {} => \E r \in Request : Refreshing(r)

\* A request is sent a second time only with a token made after the one that had
\* expired, whichever tab refreshed in the meantime.
RetryIsFresh ==
  [][\A r \in Request : req[r].sends = 1 /\ req'[r].sends = 2
       => req'[r].token.born > req[r].token.born]_vars

\* Every request settles: it succeeds or fails, or its page is left; no failed refresh,
\* logout or other tab makes it hang.
EveryRequestSettles == \A r \in Request : req[r].at # "settled" ~> req[r].at = "settled"

\* After a switch the tab shows the account that its requests are charged to.  The
\* switch reports that the account has been switched.
ShownIsCharged ==
  shown # None /\ stored.acct # None => shown = stored.acct
=============================================================================
