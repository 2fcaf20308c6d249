------------------------------ MODULE Console -------------------------------
(***************************************************************************)
(* One tab of the web console (frontend/src/lib): the auth store, the API  *)
(* calls under way and the refresh they share, composed with the server's  *)
(* Sessions.  Requests of Sessions that are not this tab's come from other *)
(* clients, among them other tabs of the same browser.  Which tokens those *)
(* hold is not kept, so a request counts as theirs once this tab has given *)
(* up waiting for it.                                                      *)
(*                                                                         *)
(* persist writes the tokens to localStorage with every change a tab makes *)
(* to its own copy of the store.  All tabs share localStorage, and a tab   *)
(* reads it when its page is loaded and at no other time.                  *)
(*                                                                         *)
(* JavaScript runs to the next await without interruption, and what waits  *)
(* for one promise resumes together; so a step here is what happens        *)
(* between two answers of the network.  An answer reaches the tab in the   *)
(* step that ends the request, or never.                                   *)
(***************************************************************************)
EXTENDS Sessions

CONSTANT Call       \* API calls the tab has under way at once

VARIABLES
    store,      \* the session whose tokens the tab's auth store holds, or NoSession
    disk,       \* the session whose tokens localStorage["orvix.auth"] holds, or NoSession
    inflight,   \* inflightRefresh: null, a running promise, or a finished one left behind
    rtok,       \* the refresh token presented last since the page was loaded
    asks,       \* what the tab waits for from each request of the server
    call,       \* where each call is in request()
    foreign,    \* history: another tab wrote what localStorage holds, and this one has not read it
    signedOut,  \* history: "yes" or, with a refresh running, "crossing" since tokens were cleared
    crossed     \* history: the tokens were cleared while a call was out

authVars == <<store, disk, foreign, signedOut>>
tabVars == <<authVars, inflight, rtok, asks, call, crossed>>

\* Calls that have been sent and not been answered.
Out == {c \in Call : call[c] \in {"sent", "leave"}}
Waiting == {c \in Call : call[c] \in {"waiting", "leave_waiting"}}

ConsoleInit ==
    /\ Init
    /\ store = NoSession /\ disk = NoSession /\ foreign = FALSE
    /\ inflight = "none"
    /\ rtok = NoSession
    /\ asks = [r \in Request |-> "other"]
    /\ call = [c \in Call |-> "idle"]
    /\ signedOut = "no"
    /\ crossed = FALSE

\* set() of the auth store: the tab's copy changes and persist writes localStorage.
Persist(s) == store' = s /\ disk' = s /\ foreign' = FALSE

(***************************************************************************)
(* useAuthStore.clear(): the tokens are gone.  The history notes which     *)
(* calls are out and whether a refresh is running at that moment.          *)
(***************************************************************************)
Clear(out, running) ==
    /\ Persist(NoSession)
    /\ signedOut' = IF running THEN "crossing" ELSE "yes"
    /\ crossed' = IF out # {} THEN TRUE ELSE crossed

\* Slip: a call is sent whether or not there are tokens.
SendUnguarded(c) ==
    /\ call[c] = "idle"
    /\ call' = [call EXCEPT ![c] = "sent"]
    /\ UNCHANGED <<vars, authVars, inflight, rtok, asks, crossed>>

\* A page makes a call; AppLayout shows pages only while there are tokens.
Send(c) ==
    /\ call[c] = "idle" /\ store # NoSession
    /\ call' = [call EXCEPT ![c] = "sent"]
    /\ UNCHANGED <<vars, authVars, inflight, rtok, asks, crossed>>

\* Topbar.onLogout makes its call.
Leave(c) ==
    /\ call[c] = "idle" /\ store # NoSession
    /\ call' = [call EXCEPT ![c] = "leave"]
    /\ UNCHANGED <<vars, authVars, inflight, rtok, asks, crossed>>

(***************************************************************************)
(* A call ends with any answer but 401, or is aborted after its timeout.   *)
(* After the logout call, however it ends, onLogout clears the store.      *)
(***************************************************************************)
Answered(c) ==
    /\ c \in Out
    /\ call' = [call EXCEPT ![c] = "idle"]
    /\ IF call[c] = "leave" THEN Clear(Out \ {c}, inflight = "running")
       ELSE UNCHANGED <<authVars, crossed>>
    /\ UNCHANGED <<vars, inflight, rtok, asks>>

\* Call c waits for the shared refresh.
Wait(c) ==
    /\ call' = [call EXCEPT ![c] = IF call[c] = "leave" THEN "leave_waiting" ELSE "waiting"]
    /\ UNCHANGED <<authVars, crossed>>

\* Call c fails, and the tokens are dropped.
GiveUp(c) == call' = [call EXCEPT ![c] = "idle"] /\ Clear(Out \ {c}, FALSE)

\* Slip: the refresh token is remembered outside the store.
UnauthorizedRemembers(c) ==
    /\ c \in Out
    /\ \/ inflight = "running" /\ Wait(c) /\ UNCHANGED <<inflight, rtok>>
       \/ /\ inflight # "running"
          /\ inflight' = "running"
          /\ rtok' = IF store = NoSession THEN rtok ELSE store
          /\ Wait(c)
    /\ UNCHANGED <<vars, asks>>

(***************************************************************************)
(* 401: tryRefresh.  A running refresh is shared.  One that finished at    *)
(* once for want of a token is never taken out of inflightRefresh: it has  *)
(* returned before the try block, so every later refresh is that failure.  *)
(***************************************************************************)
Unauthorized(c) ==
    /\ c \in Out
    /\ \/ inflight = "running" /\ Wait(c) /\ UNCHANGED <<inflight, rtok>>
       \/ inflight = "stuck" /\ GiveUp(c) /\ UNCHANGED <<inflight, rtok>>
       \/ /\ inflight = "none" /\ store = NoSession
          /\ inflight' = "stuck"
          /\ GiveUp(c)
          /\ UNCHANGED rtok
       \/ /\ inflight = "none" /\ store # NoSession
          /\ inflight' = "running"
          /\ rtok' = store
          /\ Wait(c)
    /\ UNCHANGED <<vars, asks>>

\* Slip: a refresh that failed leaves the tokens for the next try.
SettleForgiving(new) ==
    /\ inflight' = "none"
    /\ IF new = {} THEN UNCHANGED authVars
       ELSE Persist(CHOOSE n \in new : TRUE) /\ signedOut' = "no"
    /\ call' = [c \in Call |-> IF c \notin Waiting THEN call[c]
                               ELSE IF call[c] = "leave_waiting" THEN "leave"
                               ELSE IF new = {} THEN "idle" ELSE "sent"]
    /\ UNCHANGED <<rtok, crossed>>

\* Slip: what a refused refresh answers is stored like a pair.
SettleUnchecked(new) ==
    /\ inflight' = "none"
    /\ Persist(IF new = {} THEN -1 ELSE CHOOSE n \in new : TRUE)
    /\ call' = [c \in Call |-> IF c \in Waiting THEN "idle" ELSE call[c]]
    /\ UNCHANGED <<rtok, signedOut, crossed>>

(***************************************************************************)
(* The refresh ends with the pair of a new session, stored whatever        *)
(* happened to the store meanwhile, and the waiting calls are sent again;  *)
(* or it fails, and each of them drops the tokens.                         *)
(***************************************************************************)
Settle(new) ==
    /\ inflight' = "none"
    /\ IF new # {}
       THEN /\ \E n \in new : Persist(n)
            /\ signedOut' = IF signedOut = "crossing" THEN "no" ELSE signedOut
            /\ call' = [c \in Call |-> IF c \notin Waiting THEN call[c]
                                       ELSE IF call[c] = "waiting" THEN "sent" ELSE "leave"]
            /\ UNCHANGED crossed
       ELSE /\ call' = [c \in Call |-> IF c \in Waiting THEN "idle" ELSE call[c]]
            /\ Clear(Out, FALSE)
    /\ UNCHANGED rtok

\* Login.onSuccess stores the pair of the new session.
LoginReply(new) ==
    /\ IF new # {} THEN (\E n \in new : Persist(n)) /\ signedOut' = "no"
       ELSE UNCHANGED authVars
    /\ UNCHANGED <<inflight, rtok, call, crossed>>

\* Another tab writes localStorage: the tokens of a session, or none.
OtherTab(s) ==
    /\ disk' = s
    /\ foreign' = (s # NoSession)
    /\ UNCHANGED <<store, signedOut>>

(***************************************************************************)
(* Request r of the server has ended: whoever waits for it gets the new    *)
(* session, if any.  Of the other clients some are tabs, which store it.   *)
(***************************************************************************)
Reply(r, new) ==
    /\ asks' = [asks EXCEPT ![r] = "other"]
    /\ \/ asks[r] = "refresh" /\ Settle(new)
       \/ asks[r] = "login" /\ LoginReply(new)
       \/ /\ asks[r] = "other" /\ \E n \in new : OtherTab(n)
          /\ UNCHANGED <<inflight, rtok, call, crossed>>
       \/ /\ asks[r] = "other"
          /\ UNCHANGED <<authVars, inflight, rtok, call, crossed>>

\* The refresh reaches the server, which finds session and user active.
RefreshArrives(r) ==
    /\ inflight = "running"
    /\ \A q \in Request : asks[q] # "refresh"
    /\ RefreshLoad(r, rtok)
    /\ asks' = [asks EXCEPT ![r] = "refresh"]
    /\ UNCHANGED <<authVars, inflight, rtok, call, crossed>>

\* The login page posts the credentials.
TabLogin(r) ==
    /\ store = NoSession
    /\ LoginAccepted(r)
    /\ asks' = [asks EXCEPT ![r] = "login"]
    /\ UNCHANGED <<authVars, inflight, rtok, call, crossed>>

(***************************************************************************)
(* The server turns the refresh down, or its answer is lost, or fetch      *)
(* throws; a request that is under way goes on.                            *)
(***************************************************************************)
RefreshFails ==
    /\ inflight = "running"
    /\ Settle({})
    /\ asks' = [r \in Request |-> IF asks[r] = "refresh" THEN "other" ELSE asks[r]]
    /\ UNCHANGED vars

\* The answer to the login is lost or late.
LoginTimesOut(r) ==
    /\ asks[r] = "login"
    /\ asks' = [asks EXCEPT ![r] = "other"]
    /\ UNCHANGED <<vars, authVars, inflight, rtok, call, crossed>>

(***************************************************************************)
(* The page is loaded anew: memory is gone, and persist takes the tokens   *)
(* from localStorage, its own or the ones another tab has written there.   *)
(***************************************************************************)
Reload ==
    /\ store' = disk
    /\ foreign' = FALSE
    /\ inflight' = "none" /\ rtok' = NoSession
    /\ asks' = [r \in Request |-> "other"]
    /\ call' = [c \in Call |-> "idle"]
    /\ crossed' = FALSE
    /\ signedOut' = IF foreign THEN "no"
                    ELSE IF signedOut = "crossing" THEN "yes" ELSE signedOut
    /\ UNCHANGED <<vars, disk>>

\* AppLayout.checkSession finds the access token expired.
CheckSession ==
    /\ store # NoSession
    /\ Clear(Out, inflight = "running")
    /\ UNCHANGED <<vars, inflight, rtok, asks, call>>

-----------------------------------------------------------------------------
\* A step of the server inside request r, with its answer when it is the last.
ServerStep(r) ==
    /\ RefreshRevoke(r) \/ IssueTokens(r) \/ LogoutRevoke(r)
    /\ IF pc'[r] = "idle" THEN Reply(r, stored' \ stored) ELSE UNCHANGED tabVars

\* Requests of other clients, sessions that expire, and tabs that drop their tokens.
Elsewhere ==
    \/ /\ \/ \E r \in Request : LoginAccepted(r)
          \/ \E r \in Request, s \in SessionId : RefreshLoad(r, s) \/ LogoutAdmitted(r, s)
          \/ \E s \in SessionId : Expire(s)
       /\ UNCHANGED tabVars
    \/ /\ OtherTab(NoSession)
       /\ UNCHANGED <<vars, inflight, rtok, asks, call, crossed>>

\* The server dies: what the tab waits for fails.
ServerCrash ==
    /\ Crash
    /\ asks' = [r \in Request |-> "other"]
    /\ IF \E r \in Request : asks[r] = "refresh" THEN Settle({})
       ELSE UNCHANGED <<authVars, inflight, rtok, call, crossed>>

ConsoleNext ==
    \/ \E c \in Call : Send(c) \/ Leave(c) \/ Answered(c) \/ Unauthorized(c)
    \/ \E r \in Request : RefreshArrives(r) \/ TabLogin(r) \/ LoginTimesOut(r) \/ ServerStep(r)
    \/ RefreshFails \/ Reload \/ CheckSession
    \/ Elsewhere \/ ServerCrash

ConsoleSpec == ConsoleInit /\ [][ConsoleNext]_<<vars, tabVars>>

-----------------------------------------------------------------------------
\* Every variable of the tab and of the server has its type.
ConsoleTypeOK ==
    /\ TypeOK
    /\ store \in stored \cup {NoSession} /\ disk \in stored \cup {NoSession}
    /\ inflight \in {"none", "running", "stuck"}
    /\ rtok \in stored \cup {NoSession}
    /\ asks \in [Request -> {"other", "refresh", "login"}]
    /\ call \in [Call -> {"idle", "sent", "waiting", "leave", "leave_waiting"}]
    /\ signedOut \in {"no", "crossing", "yes"}
    /\ foreign \in BOOLEAN /\ crossed \in BOOLEAN

(***************************************************************************)
(* The tab presents a refresh token once ("concurrent requests don't fan   *)
(* out", client.ts): when no refresh is running, the store never holds the *)
(* token that was presented last, whatever answers were lost.  A reload    *)
(* during a refresh starts afresh: the persisted token may be the old one. *)
(***************************************************************************)
StoreIsFresh == inflight # "running" /\ store # NoSession => store # rtok

(***************************************************************************)
(* Tokens that were cleared (logout, expiry, a failed refresh) stay away,  *)
(* in the tab and in localStorage, until the next login: neither calls     *)
(* answered late nor a reload bring any back.  Only two things do: the     *)
(* refresh that was running when they were cleared (it stores its pair     *)
(* without looking), and another tab that gets a new pair itself, which    *)
(* this tab takes up with its next reload and not before.                  *)
(***************************************************************************)
LogoutSticks == signedOut # "no" => store = NoSession /\ (disk # NoSession => foreign)

(***************************************************************************)
(* Refreshing is only ever disabled for good by a call that was out while  *)
(* the tokens were cleared: as long as that has not happened, a 401 always *)
(* finds a refresh token.                                                  *)
(***************************************************************************)
RefreshNotStuck == inflight = "stuck" => crossed
=============================================================================
