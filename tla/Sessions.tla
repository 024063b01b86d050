------------------------------- MODULE Sessions -------------------------------
(***************************************************************************)
(* One browser's session: the cookies it holds, the pages open in it       *)
(* (web lib/api.ts and components/auth-provider.tsx) and the rotation of   *)
(* refresh tokens on the server (AuthService, TokenService).               *)
(*                                                                         *)
(* A refresh token is named by its place in the order of issue; 0 is the   *)
(* absence of one.  Access tokens are not stored anywhere: all that        *)
(* matters is whether the one a request carries has expired.               *)
(*                                                                         *)
(* A request whose answer the page gives up on is not called back: its     *)
(* handler may go on, beside whatever the page asks for next.              *)
(***************************************************************************)
EXTENDS Naturals, Sequences, FiniteSets

CONSTANTS
  Tabs,
  Calls,      \* calls of api() for data
  TabOf,      \* the page each call is made by
  MaxLogins,  \* bound
  MaxFaults   \* bound: answers lost, of handlers that go on or die

ASSUME SessionAssumption ==
  TabOf \in [Calls -> Tabs] /\ MaxLogins \in Nat /\ MaxFaults \in Nat

VARIABLES
  origin,  \* refresh_tokens: the token of the login each token descends from
  live,    \* the tokens whose revokedAt is null
  jar,     \* the cookies, which all pages share
  call,
  flight,  \* refreshInFlight of each page, and the handler that serves it
  screen,  \* AuthProvider: "in" when there is a user, "out" when there is none
  exit,    \* a logout under way
  faults,
  stray,   \* the handlers whose answer nobody will hear
  left     \* history: somebody has chosen to log out

vars == <<origin, live, jar, call, flight, screen, exit, faults, stray, left>>

Tokens == DOMAIN origin

\* Of an api() call: in flight with an access token that has or has not expired,
\* "waiting" for a refresh, or sent "again" after one.
InFlight == {"valid", "expired", "again"}
Underway == InFlight \union {"waiting"}

\* refreshSession: the request is "sent", its token is "verified", "revoked" and
\* replaced ("issued"), or it has its verdict until the next tick clears it.
Serving == {"sent", "verified", "revoked", "issued"}
Verdict == {"ok", "failed"}
Quiet == [at |-> "none", token |-> 0]

TypeOK ==
  /\ origin \in Seq(Nat)
  /\ \A k \in Tokens : origin[k] \in 1..k
  /\ live \subseteq Tokens
  /\ jar \in [access : BOOLEAN, refresh : {0} \union Tokens]
  /\ call \in [Calls -> {"idle", "ok", "refused"} \union Underway]
  /\ flight \in [Tabs -> [at : {"none"} \union Serving \union Verdict,
                          token : {0} \union Tokens]]
  /\ \A t \in Tabs :
       flight[t].at \in {"verified", "revoked", "issued"} => flight[t].token \in Tokens
  /\ screen \in [Tabs -> {"loading", "in", "out"}]
  /\ exit \in [Tabs -> [at : {"none", "sent", "revoked"}, token : {0} \union Tokens]]
  /\ faults \in Nat
  /\ stray \in Seq([at : Serving \union {"leaving", "left"}, token : Nat])
  /\ \A i \in 1..Len(stray) :
       stray[i].at \in {"verified", "revoked", "issued"} => stray[i].token \in Tokens
  /\ left \in BOOLEAN

Init ==
  /\ origin = << >>
  /\ live = {}
  /\ jar = [access |-> FALSE, refresh |-> 0]
  /\ call = [c \in Calls |-> "idle"]
  /\ flight = [t \in Tabs |-> Quiet]
  /\ screen = [t \in Tabs |-> "loading"]
  /\ exit = [t \in Tabs |-> Quiet]
  /\ faults = 0
  /\ stray = << >>
  /\ left = FALSE

-----------------------------------------------------------------------------
(* Pages: AuthProvider and the login page *)

\* loadUser, on mount and after a login, asks /api/auth/me.  api() does not
\* refresh for that path: any failure shows the page as signed out.
LoadUser(t) ==
  /\ screen[t] = "loading"
  /\ screen' = [screen EXCEPT ![t] = IF jar.access THEN "in" ELSE "out"]
  /\ UNCHANGED <<origin, live, jar, call, flight, exit, faults, stray, left>>

\* The page is opened anew once its requests have been answered.
Reload(t) ==
  /\ screen[t] # "loading"
  /\ flight[t] = Quiet /\ exit[t] = Quiet
  /\ \A c \in Calls : TabOf[c] = t => call[c] \notin Underway
  /\ screen' = [screen EXCEPT ![t] = "loading"]
  /\ UNCHANGED <<origin, live, jar, call, flight, exit, faults, stray, left>>

Logins == {k \in Tokens : origin[k] = k}

\* AuthService.login, with the right password.  Nobody can name the new token
\* before the answer brings the cookies, so the two are one step.
Login(t) ==
  LET k == Len(origin) + 1
  IN  /\ screen[t] = "out"
      /\ Cardinality(Logins) < MaxLogins
      /\ origin' = Append(origin, k)
      /\ live' = live \union {k}
      /\ jar' = [access |-> TRUE, refresh |-> k]
      /\ screen' = [screen EXCEPT ![t] = "loading"]
      /\ UNCHANGED <<call, flight, exit, faults, stray, left>>

\* Logout sends the cookie of this moment, revokes that token, and with the
\* answer the cookies go and the page shows nobody.
SendLogout(t) ==
  /\ screen[t] = "in" /\ exit[t] = Quiet
  /\ exit' = [exit EXCEPT ![t] = [at |-> "sent", token |-> jar.refresh]]
  /\ left' = TRUE
  /\ UNCHANGED <<origin, live, jar, call, flight, screen, faults, stray>>

RevokeAtLogout(t) ==
  /\ exit[t].at = "sent"
  /\ live' = live \ {exit[t].token}
  /\ exit' = [exit EXCEPT ![t].at = "revoked"]
  /\ UNCHANGED <<origin, jar, call, flight, screen, faults, stray, left>>

LoggedOut(t) ==
  /\ exit[t].at = "revoked"
  /\ jar' = [access |-> FALSE, refresh |-> 0]
  /\ exit' = [exit EXCEPT ![t] = Quiet]
  /\ screen' = [screen EXCEPT ![t] = "out"]
  /\ UNCHANGED <<origin, live, call, flight, faults, stray, left>>

-----------------------------------------------------------------------------
(* api() *)

Send(c) ==
  /\ call[c] = "idle"
  /\ screen[TabOf[c]] = "in"
  /\ call' = [call EXCEPT ![c] = IF jar.access THEN "valid" ELSE "expired"]
  /\ UNCHANGED <<origin, live, jar, flight, screen, exit, faults, stray, left>>

\* JwtAuthGuard lets the request through.
Served(c) ==
  /\ call[c] \in {"valid", "again"}
  /\ call' = [call EXCEPT ![c] = "ok"]
  /\ UNCHANGED <<origin, live, jar, flight, screen, exit, faults, stray, left>>

\* A 401: the call joins the refresh of its page, starts one, or takes the
\* verdict of one that has just ended.
Unauthorized(c) ==
  LET t == TabOf[c]
  IN  /\ call[c] = "expired"
      /\ \/ /\ flight[t] = Quiet
            /\ flight' = [flight EXCEPT ![t] = [at |-> "sent", token |-> jar.refresh]]
            /\ call' = [call EXCEPT ![c] = "waiting"]
         \/ /\ flight[t].at \in Serving
            /\ call' = [call EXCEPT ![c] = "waiting"]
            /\ UNCHANGED flight
         \/ /\ flight[t].at \in Verdict
            /\ call' = [call EXCEPT ![c] =
                 IF flight[t].at = "ok" /\ jar.access THEN "again" ELSE "refused"]
            /\ UNCHANGED flight
      /\ UNCHANGED <<origin, live, jar, screen, exit, faults, stray, left>>

\* All calls of the page that wait for the refresh go on together.
Woken(t, state) ==
  [c \in Calls |-> IF TabOf[c] = t /\ call[c] = "waiting" THEN state ELSE call[c]]

Fails(t) ==
  /\ flight' = [flight EXCEPT ![t] = [at |-> "failed", token |-> 0]]
  /\ call' = Woken(t, "refused")

-----------------------------------------------------------------------------
(* POST /api/auth/refresh: AuthService.refresh *)

Verify(t) ==
  /\ flight[t].at = "sent"
  /\ flight[t].token \in live
  /\ flight' = [flight EXCEPT ![t].at = "verified"]
  /\ UNCHANGED <<origin, live, jar, call, screen, exit, faults, stray, left>>

RefuseRefresh(t) ==
  /\ flight[t].at = "sent"
  /\ flight[t].token \notin live
  /\ Fails(t)
  /\ UNCHANGED <<origin, live, jar, screen, exit, faults, stray, left>>

\* Mutant of Revoke: the token is left to expire on its own.
MutantRevokeNothing(t) ==
  /\ flight[t].at = "verified"
  /\ flight' = [flight EXCEPT ![t].at = "revoked"]
  /\ UNCHANGED <<origin, live, jar, call, screen, exit, faults, stray, left>>

Revoke(t) ==
  /\ flight[t].at = "verified"
  /\ live' = live \ {flight[t].token}
  /\ flight' = [flight EXCEPT ![t].at = "revoked"]
  /\ UNCHANGED <<origin, jar, call, screen, exit, faults, stray, left>>

Issue(t) ==
  LET k == Len(origin) + 1
  IN  /\ flight[t].at = "revoked"
      /\ origin' = Append(origin, origin[flight[t].token])
      /\ live' = live \union {k}
      /\ flight' = [flight EXCEPT ![t] = [at |-> "issued", token |-> k]]
      /\ UNCHANGED <<jar, call, screen, exit, faults, stray, left>>

\* Mutant of Settle: the browser keeps the old refresh cookie.
MutantSettleAccessOnly(t) ==
  /\ flight[t].at = "issued"
  /\ jar' = [jar EXCEPT !.access = TRUE]
  /\ flight' = [flight EXCEPT ![t].at = "ok"]
  /\ call' = Woken(t, "again")
  /\ UNCHANGED <<origin, live, screen, exit, faults, stray, left>>

\* Mutant of Settle: the calls that wait for the refresh are not woken.
MutantSettleWakesNobody(t) ==
  /\ flight[t].at = "issued"
  /\ jar' = [access |-> TRUE, refresh |-> flight[t].token]
  /\ flight' = [flight EXCEPT ![t].at = "ok"]
  /\ UNCHANGED <<origin, live, call, screen, exit, faults, stray, left>>

\* The answer arrives: the cookies are replaced and the calls are sent again.
Settle(t) ==
  /\ flight[t].at = "issued"
  /\ jar' = [access |-> TRUE, refresh |-> flight[t].token]
  /\ flight' = [flight EXCEPT ![t].at = "ok"]
  /\ call' = Woken(t, "again")
  /\ UNCHANGED <<origin, live, screen, exit, faults, stray, left>>

\* The timer of refreshSession.
Clear(t) ==
  /\ flight[t].at \in Verdict
  /\ flight' = [flight EXCEPT ![t] = Quiet]
  /\ UNCHANGED <<origin, live, jar, call, screen, exit, faults, stray, left>>

-----------------------------------------------------------------------------
(* What may go wrong, and time *)

\* The answer is lost, at any point: the page takes the refresh for failed and
\* may start another with the same cookie. Its handler goes on, or it has died
\* and takes none of the steps below.
LoseRefresh(t) ==
  /\ faults < MaxFaults
  /\ flight[t].at \in Serving
  /\ stray' = Append(stray, flight[t])
  /\ Fails(t)
  /\ faults' = faults + 1
  /\ UNCHANGED <<origin, live, jar, screen, exit, left>>

LoseLogout(t) ==
  /\ faults < MaxFaults
  /\ exit[t] # Quiet
  /\ stray' = Append(stray, [at |-> IF exit[t].at = "sent" THEN "leaving" ELSE "left",
                             token |-> exit[t].token])
  /\ exit' = [exit EXCEPT ![t] = Quiet]
  /\ screen' = [screen EXCEPT ![t] = "out"]
  /\ faults' = faults + 1
  /\ UNCHANGED <<origin, live, jar, call, flight, left>>

\* What is left of such a handler: a refresh verifies, revokes and issues, a
\* logout revokes.
GoesOn(i, stage) == stray' = [stray EXCEPT ![i].at = stage]

VerifyUnheard(i) ==
  /\ stray[i].at = "sent"
  /\ stray[i].token \in live
  /\ GoesOn(i, "verified")
  /\ UNCHANGED <<origin, live, jar, call, flight, screen, exit, faults, left>>

RevokeUnheard(i) ==
  /\ \/ stray[i].at = "verified" /\ GoesOn(i, "revoked")
     \/ stray[i].at = "leaving" /\ GoesOn(i, "left")
  /\ live' = live \ {stray[i].token}
  /\ UNCHANGED <<origin, jar, call, flight, screen, exit, faults, left>>

IssueUnheard(i) ==
  LET k == Len(origin) + 1
  IN  /\ stray[i].at = "revoked"
      /\ origin' = Append(origin, origin[stray[i].token])
      /\ live' = live \union {k}
      /\ stray' = [stray EXCEPT ![i] = [at |-> "issued", token |-> k]]
      /\ UNCHANGED <<jar, call, flight, screen, exit, faults, left>>

\* The access token runs out, also for requests on their way.  It lasts minutes,
\* so it does not run out between a refresh and the calls sent again after it, or
\* between a login and the page that it opens.
Expire ==
  /\ jar.access
  /\ \A t \in Tabs : screen[t] # "loading"
  /\ \A t \in Tabs : flight[t] = Quiet
  /\ \A c \in Calls : call[c] # "again"
  /\ jar' = [jar EXCEPT !.access = FALSE]
  /\ call' = [c \in Calls |-> IF call[c] = "valid" THEN "expired" ELSE call[c]]
  /\ UNCHANGED <<origin, live, flight, screen, exit, faults, stray, left>>

-----------------------------------------------------------------------------
Answered(c) == Served(c) \/ Unauthorized(c)
Refresh(t) ==
  \/ Verify(t) \/ RefuseRefresh(t) \/ Revoke(t) \/ Issue(t) \/ Settle(t) \/ Clear(t)

Next ==
  \/ \E c \in Calls : Send(c) \/ Answered(c)
  \/ \E t \in Tabs :
       \/ LoadUser(t) \/ Reload(t) \/ Login(t)
       \/ SendLogout(t) \/ RevokeAtLogout(t) \/ LoggedOut(t)
       \/ Refresh(t) \/ LoseRefresh(t) \/ LoseLogout(t)
  \/ \E i \in 1..Len(stray) : VerifyUnheard(i) \/ RevokeUnheard(i) \/ IssueUnheard(i)
  \/ Expire

Spec == Init /\ [][Next]_vars

\* The server answers what it has been asked, and the page's timers fire. Nothing
\* makes a handler go on whose answer is lost.
FairSpec ==
  /\ Spec
  /\ \A c \in Calls : WF_vars(Answered(c))
  /\ \A t \in Tabs : WF_vars(Refresh(t))

-----------------------------------------------------------------------------
(* Properties *)

\* The tokens whose answer was lost: no page has or will have them.
Unheard == {stray[i].token : i \in {j \in 1..Len(stray) : stray[j].at = "issued"}}

\* Rotation: of the tokens that descend from one login at most one is live that a
\* page can present, as each refresh revokes the token it was given before it
\* issues another (AuthService.refresh). A second live token of a login is the
\* unheard answer of a refresh the page gave up on, which verified the cookie
\* before or while the page refreshed with it again; without a fault there is none.
OneLiveTokenPerLogin ==
  \A j, k \in live \ Unheard : origin[j] = origin[k] => j = k

\* "Everyone waits on the same one": a page that fires any number of requests
\* with an expired token, some of whose 401s come after the refresh, never ends
\* its own session; no call is refused without a fault or a logout.
NeverLogsItselfOut ==
  (faults = 0 /\ ~left) =>
    /\ \A c \in Calls : call[c] # "refused"
    /\ \A t \in Tabs : flight[t].at # "failed"

\* The promise every caller of api() awaits is settled, whatever becomes of the
\* refresh it waits for.
EveryCallSettles ==
  \A c \in Calls : (call[c] \in Underway) ~> (call[c] \in {"ok", "refused"})

\* "The user only sees a login redirect if that refresh also fails": who has not
\* logged out and is shown as signed out has no session left to refresh.
SignedOutWithoutSession ==
  ~left => \A t \in Tabs : screen[t] = "out" => jar.refresh \notin live
=============================================================================
