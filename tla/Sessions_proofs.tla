--------------------------- MODULE Sessions_proofs ---------------------------
(***************************************************************************)
(* Proofs about Sessions for any number of calls, logins and faults: the   *)
(* types for any number of pages, and for a single page the rotation of    *)
(* refresh tokens, through answers that are lost while their handlers go   *)
(* on, and that the page never ends its own session.                       *)
(***************************************************************************)
EXTENDS Sessions, TLAPS

StrayStage == Serving \union {"leaving", "left"}

\* What a handler goes on with: a token it has been given or has issued.
Strays(log, tokens) ==
  /\ log \in Seq([at : StrayStage, token : Nat])
  /\ \A i \in 1..Len(log) :
       log[i].at \in {"verified", "revoked", "issued"} => log[i].token \in tokens

\* What a step leaves of the types of the log of tokens.
LEMMA AppendTypes ==
  ASSUME TypeOK, NEW o \in 1..(Len(origin) + 1)
  PROVE  /\ Append(origin, o) \in Seq(Nat)
         /\ DOMAIN Append(origin, o) = Tokens \union {Len(origin) + 1}
         /\ \A k \in Tokens : Append(origin, o)[k] = origin[k]
         /\ Append(origin, o)[Len(origin) + 1] = o
         /\ Tokens = 1..Len(origin)
         /\ Len(origin) \in Nat
         /\ \A k \in DOMAIN Append(origin, o) : Append(origin, o)[k] \in 1..k
<1>1. origin \in Seq(Nat) /\ Len(origin) \in Nat /\ o \in Nat
  BY DEF TypeOK
<1>2. Tokens = 1..Len(origin)
  BY <1>1 DEF Tokens
<1>3. DOMAIN Append(origin, o) = 1..(Len(origin) + 1)
  BY <1>1
<1>4. \A k \in 1..Len(origin) : Append(origin, o)[k] = origin[k]
  BY <1>1
<1>5. Append(origin, o)[Len(origin) + 1] = o
  BY <1>1
<1>6. \A k \in 1..Len(origin) : origin[k] \in 1..k
  BY <1>2 DEF TypeOK
<1>7. Append(origin, o) \in Seq(Nat)
  BY <1>1
<1> QED
  BY <1>1, <1>2, <1>3, <1>4, <1>5, <1>6, <1>7

LEMMA TypeInit == Init => TypeOK
<1> SUFFICES ASSUME Init PROVE TypeOK
  OBVIOUS
<1>1. origin = << >> /\ origin \in Seq(Nat) /\ Tokens = {}
  BY DEF Init, Tokens
<1>2. jar \in [access : BOOLEAN, refresh : {0} \union Tokens]
  BY DEF Init
<1>3. /\ flight \in [Tabs -> [at : {"none"} \union Serving \union Verdict,
                              token : {0} \union Tokens]]
      /\ \A t \in Tabs : flight[t].at = "none"
      /\ exit \in [Tabs -> [at : {"none", "sent", "revoked"},
                            token : {0} \union Tokens]]
  BY DEF Init, Quiet
<1>4. /\ call \in [Calls -> {"idle", "ok", "refused"} \union Underway]
      /\ screen \in [Tabs -> {"loading", "in", "out"}]
      /\ live \subseteq Tokens /\ faults \in Nat /\ left \in BOOLEAN
  BY DEF Init
<1>5. stray = << >> /\ stray \in Seq([at : Serving \union {"leaving", "left"}, token : Nat])
  BY DEF Init
<1> QED
  BY <1>1, <1>2, <1>3, <1>4, <1>5 DEF TypeOK

\* A step that issues no token keeps the types if what it writes has them.
LEMMA TypeFrame ==
  ASSUME TypeOK, origin' = origin, live' \subseteq live,
         jar' \in [access : BOOLEAN, refresh : {0} \union Tokens],
         call' \in [Calls -> {"idle", "ok", "refused"} \union Underway],
         flight' \in [Tabs -> [at : {"none"} \union Serving \union Verdict,
                               token : {0} \union Tokens]],
         \A t \in Tabs : flight'[t].at \in {"verified", "revoked", "issued"}
                            => flight'[t].token \in Tokens,
         screen' \in [Tabs -> {"loading", "in", "out"}],
         exit' \in [Tabs -> [at : {"none", "sent", "revoked"},
                             token : {0} \union Tokens]],
         faults' \in Nat, left' \in BOOLEAN, Strays(stray', Tokens)
  PROVE  TypeOK'
BY DEF TypeOK, Tokens, Strays, StrayStage

\* What a handler does for, unheard or not, is a stage and a token.
LEMMA StrayTyped ==
  ASSUME NEW S, NEW log \in Seq(S), NEW i \in 1..Len(log)
  PROVE  log[i] \in S
OBVIOUS

\* One more handler goes on unheard, or one of them takes a step.
LEMMA StrayAdded ==
  ASSUME NEW log, NEW tokens, Strays(log, tokens), NEW r \in [at : StrayStage, token : Nat],
         r.at \in {"verified", "revoked", "issued"} => r.token \in tokens
  PROVE  /\ Strays(Append(log, r), tokens)
         /\ Len(Append(log, r)) = Len(log) + 1 /\ Len(log) \in Nat
         /\ \A i \in 1..Len(log) : Append(log, r)[i] = log[i]
         /\ Append(log, r)[Len(log) + 1] = r
BY DEF Strays

LEMMA StrayMoved ==
  ASSUME NEW log, NEW tokens, Strays(log, tokens), NEW i \in 1..Len(log),
         NEW r \in [at : StrayStage, token : Nat],
         r.at \in {"verified", "revoked", "issued"} => r.token \in tokens
  PROVE  /\ Strays([log EXCEPT ![i] = r], tokens)
         /\ Len([log EXCEPT ![i] = r]) = Len(log)
         /\ [log EXCEPT ![i] = r][i] = r
         /\ \A j \in 1..Len(log) : j # i => [log EXCEPT ![i] = r][j] = log[j]
BY DEF Strays

LEMMA TypeStep == TypeOK /\ [Next]_vars => TypeOK'
<1> SUFFICES ASSUME TypeOK, [Next]_vars PROVE TypeOK'
  OBVIOUS
<1> USE SessionAssumption
<1>t. /\ live \subseteq Tokens
      /\ jar \in [access : BOOLEAN, refresh : {0} \union Tokens]
      /\ call \in [Calls -> {"idle", "ok", "refused"} \union Underway]
      /\ flight \in [Tabs -> [at : {"none"} \union Serving \union Verdict,
                              token : {0} \union Tokens]]
      /\ \A t \in Tabs : flight[t].at \in {"verified", "revoked", "issued"}
                           => flight[t].token \in Tokens
      /\ screen \in [Tabs -> {"loading", "in", "out"}]
      /\ exit \in [Tabs -> [at : {"none", "sent", "revoked"},
                            token : {0} \union Tokens]]
      /\ faults \in Nat /\ left \in BOOLEAN
  BY DEF TypeOK
<1>s. Strays(stray, Tokens) /\ \A k \in {0} \union Tokens : k \in Nat
  BY DEF TypeOK, Strays, StrayStage, Tokens
<1>0. CASE UNCHANGED vars
  BY <1>0, <1>t, <1>s, TypeFrame DEF vars
<1>1. ASSUME NEW c \in Calls, Send(c) \/ Answered(c) PROVE TypeOK'
  <2>1. /\ origin' = origin /\ live' = live /\ jar' = jar /\ screen' = screen
        /\ exit' = exit /\ faults' = faults /\ left' = left /\ stray' = stray
    BY <1>1 DEF Send, Answered, Served, Unauthorized
  <2>2. call' \in [Calls -> {"idle", "ok", "refused"} \union Underway]
    BY <1>1, <1>t DEF Send, Answered, Served, Unauthorized, Underway, InFlight
  <2>3. flight' \in [Tabs -> [at : {"none"} \union Serving \union Verdict,
                              token : {0} \union Tokens]]
    BY <1>1, <1>t DEF Send, Answered, Served, Unauthorized, Serving
  <2>4. \A t \in Tabs : flight'[t].at \in {"verified", "revoked", "issued"}
                           => flight'[t].token \in Tokens
    <3>1. \/ flight' = flight
          \/ flight' = [flight EXCEPT ![TabOf[c]] =
                          [at |-> "sent", token |-> jar.refresh]]
      BY <1>1 DEF Send, Answered, Served, Unauthorized
    <3> QED
      BY <1>t, <3>1
  <2> QED
    BY <1>t, <1>s, <2>1, <2>2, <2>3, <2>4, TypeFrame
<1>2. ASSUME NEW t \in Tabs,
             LoadUser(t) \/ Reload(t) \/ SendLogout(t) \/ RevokeAtLogout(t)
               \/ LoggedOut(t) \/ LoseLogout(t)
      PROVE  TypeOK'
  <2>1. origin' = origin /\ live' \subseteq live /\ call' = call /\ flight' = flight
    BY <1>2 DEF LoadUser, Reload, SendLogout, RevokeAtLogout, LoggedOut, LoseLogout
  <2>4. jar' \in [access : BOOLEAN, refresh : {0} \union Tokens]
    <3>1. jar' = jar \/ jar' = [access |-> FALSE, refresh |-> 0]
      BY <1>2
      DEF LoadUser, Reload, SendLogout, RevokeAtLogout, LoggedOut, LoseLogout
    <3>2. [access |-> FALSE, refresh |-> 0]
            \in [access : BOOLEAN, refresh : {0} \union Tokens]
      OBVIOUS
    <3> QED
      BY <1>t, <3>1, <3>2, Zenon
  <2>5. screen' \in [Tabs -> {"loading", "in", "out"}] /\ faults' \in Nat
    BY <1>2, <1>t
    DEF LoadUser, Reload, SendLogout, RevokeAtLogout, LoggedOut, LoseLogout
  <2>2. left' \in BOOLEAN
    <3>1. left' = left \/ left' = TRUE
      BY <1>2
      DEF LoadUser, Reload, SendLogout, RevokeAtLogout, LoggedOut, LoseLogout
    <3> QED
      BY <1>t, <3>1
  <2>3. exit' \in [Tabs -> [at : {"none", "sent", "revoked"},
                            token : {0} \union Tokens]]
    BY <1>2, <1>t
    DEF LoadUser, Reload, SendLogout, RevokeAtLogout, LoggedOut, LoseLogout, Quiet
  <2>6. Strays(stray', Tokens)
    <3>1. CASE stray' = stray
      BY <1>s, <3>1
    <3>2. CASE LoseLogout(t)
      <4> DEFINE r == [at |-> IF exit[t].at = "sent" THEN "leaving" ELSE "left",
                       token |-> exit[t].token]
      <4>1. r \in [at : StrayStage, token : Nat] /\ r.at \in {"leaving", "left"}
        BY <1>t, <1>s DEF StrayStage
      <4>2. stray' = Append(stray, r)
        BY <3>2 DEF LoseLogout
      <4> HIDE DEF r
      <4> QED
        BY <1>s, <4>1, <4>2, StrayAdded
    <3> QED
      BY <1>2, <3>1, <3>2 DEF LoadUser, Reload, SendLogout, RevokeAtLogout, LoggedOut
  <2> QED
    BY <1>t, <2>1, <2>2, <2>3, <2>4, <2>5, <2>6, TypeFrame
<1>3. ASSUME NEW t \in Tabs,
             Verify(t) \/ RefuseRefresh(t) \/ Revoke(t) \/ Settle(t) \/ Clear(t)
               \/ LoseRefresh(t)
      PROVE  TypeOK'
  <2>1. origin' = origin /\ live' \subseteq live /\ screen' = screen /\ exit' = exit
        /\ left' = left /\ faults' \in Nat
    BY <1>3, <1>t DEF Verify, RefuseRefresh, Revoke, Settle, Clear, LoseRefresh
  <2>2. jar' \in [access : BOOLEAN, refresh : {0} \union Tokens]
    <3>1. jar' = jar \/ jar' = [access |-> TRUE, refresh |-> flight[t].token]
      BY <1>3 DEF Verify, RefuseRefresh, Revoke, Settle, Clear, LoseRefresh
    <3>2. \A k \in {0} \union Tokens :
            [access |-> TRUE, refresh |-> k] \in [access : BOOLEAN, refresh : {0} \union Tokens]
      OBVIOUS
    <3>3. flight[t].token \in {0} \union Tokens
      BY <1>t
    <3>4. [access |-> TRUE, refresh |-> flight[t].token]
            \in [access : BOOLEAN, refresh : {0} \union Tokens]
      BY <3>2, <3>3, Zenon
    <3> QED
      BY <1>t, <3>1, <3>4, Zenon
  <2>3. call' \in [Calls -> {"idle", "ok", "refused"} \union Underway]
    BY <1>3, <1>t
    DEF Verify, RefuseRefresh, Revoke, Settle, Clear, LoseRefresh, Fails, Woken,
        Underway, InFlight
  <2>4. flight' \in [Tabs -> [at : {"none"} \union Serving \union Verdict,
                              token : {0} \union Tokens]]
    <3>1. CASE \E a \in {"verified", "revoked", "ok"} :
                 flight' = [flight EXCEPT ![t].at = a]
      BY <1>t, <3>1 DEF Serving, Verdict
    <3>2. CASE flight' = [flight EXCEPT ![t] = [at |-> "failed", token |-> 0]]
      BY <1>t, <3>2 DEF Serving, Verdict
    <3>3. CASE flight' = [flight EXCEPT ![t] = [at |-> "none", token |-> 0]]
      BY <1>t, <3>3 DEF Serving, Verdict
    <3>4. CASE Verify(t) \/ Revoke(t)
      BY <3>1, <3>4 DEF Verify, Revoke
    <3>5. CASE RefuseRefresh(t) \/ LoseRefresh(t)
      BY <3>2, <3>5 DEF RefuseRefresh, LoseRefresh, Fails
    <3>6. CASE Settle(t) \/ Clear(t)
      BY <3>1, <3>3, <3>6 DEF Settle, Clear, Quiet
    <3> QED
      BY <1>3, <3>4, <3>5, <3>6
  <2>5. \A u \in Tabs : flight'[u].at \in {"verified", "revoked", "issued"}
                           => flight'[u].token \in Tokens
    <3>1. CASE Verify(t) \/ Revoke(t)
      <4>1. PICK a : flight' = [flight EXCEPT ![t].at = a]
        BY <3>1 DEF Verify, Revoke
      <4>2. flight[t].token \in Tokens
        BY <1>t, <3>1 DEF Verify, Revoke
      <4>3. \A u \in Tabs : flight'[u].token = flight[u].token
                             /\ (u # t => flight'[u].at = flight[u].at)
        BY <1>t, <4>1
      <4> QED
        BY <1>t, <4>2, <4>3
    <3>2. CASE RefuseRefresh(t) \/ LoseRefresh(t)
      BY <1>t, <3>2 DEF RefuseRefresh, LoseRefresh, Fails
    <3>3. CASE Settle(t) \/ Clear(t)
      BY <1>t, <3>3 DEF Settle, Clear, Quiet
    <3> QED
      BY <1>3, <3>1, <3>2, <3>3
  <2>6. Strays(stray', Tokens)
    <3>1. CASE stray' = stray
      BY <1>s, <3>1
    <3>2. CASE LoseRefresh(t)
      <4>1. /\ flight[t] \in [at : StrayStage, token : Nat]
            /\ flight[t].at \in {"verified", "revoked", "issued"} => flight[t].token \in Tokens
        BY <1>t, <1>s, <3>2 DEF LoseRefresh, StrayStage, Serving
      <4> QED
        BY <1>s, <3>2, <4>1, StrayAdded DEF LoseRefresh
    <3> QED
      BY <1>3, <3>1, <3>2 DEF Verify, RefuseRefresh, Revoke, Settle, Clear
  <2> QED
    BY <1>t, <2>1, <2>2, <2>3, <2>4, <2>5, <2>6, TypeFrame
<1>4. ASSUME NEW t \in Tabs, Login(t) PROVE TypeOK'
  <2> DEFINE k == Len(origin) + 1
  <2>1. k \in 1..k
    BY DEF TypeOK
  <2>2. /\ origin' \in Seq(Nat) /\ Tokens' = Tokens \union {k}
        /\ \A j \in Tokens' : origin'[j] \in 1..j
    BY <1>4, <2>1, AppendTypes DEF Login, Tokens
  <2> QED
    BY <1>4, <1>t, <1>s, <2>2 DEF Login, TypeOK, Strays, StrayStage
<1>5. ASSUME NEW t \in Tabs, Issue(t) PROVE TypeOK'
  <2> DEFINE k == Len(origin) + 1
  <2>1. origin[flight[t].token] \in 1..k
    <3>1. flight[t].token \in 1..Len(origin) /\ Len(origin) \in Nat
      BY <1>5, <1>t DEF Issue, TypeOK, Tokens
    <3> QED
      BY <3>1 DEF TypeOK, Tokens
  <2>2. /\ origin' \in Seq(Nat) /\ Tokens' = Tokens \union {k}
        /\ \A j \in Tokens' : origin'[j] \in 1..j
    BY <1>5, <2>1, AppendTypes DEF Issue, Tokens
  <2>3. flight' \in [Tabs -> [at : {"none"} \union Serving \union Verdict,
                              token : {0} \union Tokens']]
    BY <1>5, <1>t, <2>2 DEF Issue, Serving
  <2>4. \A u \in Tabs : flight'[u].at \in {"verified", "revoked", "issued"}
                           => flight'[u].token \in Tokens'
    BY <1>5, <1>t, <2>2 DEF Issue
  <2> QED
    BY <1>5, <1>t, <1>s, <2>2, <2>3, <2>4 DEF Issue, TypeOK, Strays, StrayStage
<1>6. CASE Expire
  <2>1. /\ jar' \in [access : BOOLEAN, refresh : {0} \union Tokens]
        /\ call' \in [Calls -> {"idle", "ok", "refused"} \union Underway]
    BY <1>6, <1>t DEF Expire, Underway, InFlight
  <2> QED
    BY <1>6, <1>t, <1>s, <2>1, TypeFrame DEF Expire
<1>7. ASSUME NEW i \in 1..Len(stray), VerifyUnheard(i) \/ RevokeUnheard(i) PROVE TypeOK'
  <2>1. PICK a \in {"verified", "revoked", "left"} :
          GoesOn(i, a) /\ (a # "left" => stray[i].token \in Tokens)
    BY <1>7, <1>t, <1>s DEF VerifyUnheard, RevokeUnheard, Strays
  <2>0. stray[i] \in [at : StrayStage, token : Nat]
    BY <1>s, StrayTyped DEF Strays
  <2> DEFINE r == [stray[i] EXCEPT !.at = a]
  <2>3. r \in [at : StrayStage, token : Nat] /\ r.at = a /\ r.token = stray[i].token
    BY <2>0, <2>1 DEF StrayStage, Serving
  <2>4. stray' = [stray EXCEPT ![i] = r]
    BY <2>1 DEF GoesOn
  <2> HIDE DEF r
  <2>5. Strays(stray', Tokens)
    BY <1>s, <2>1, <2>3, <2>4, StrayMoved
  <2> QED
    BY <1>7, <1>t, <2>5, TypeFrame DEF VerifyUnheard, RevokeUnheard
<1>8. ASSUME NEW i \in 1..Len(stray), IssueUnheard(i) PROVE TypeOK'
  <2> DEFINE k == Len(origin) + 1
  <2>1. origin[stray[i].token] \in 1..k
    <3>1. stray[i].token \in 1..Len(origin) /\ Len(origin) \in Nat
      BY <1>8, <1>s DEF IssueUnheard, TypeOK, Tokens, Strays
    <3> QED
      BY <3>1 DEF TypeOK, Tokens
  <2>2. /\ origin' \in Seq(Nat) /\ Tokens' = Tokens \union {k}
        /\ \A j \in Tokens' : origin'[j] \in 1..j
    BY <1>8, <2>1, AppendTypes DEF IssueUnheard, Tokens
  <2>3. Strays(stray, Tokens') /\ k \in Nat
    BY <1>s, <2>2 DEF Strays, TypeOK
  <2> DEFINE r == [at |-> "issued", token |-> k]
  <2>4. r \in [at : StrayStage, token : Nat] /\ r.token \in Tokens'
    BY <2>2, <2>3 DEF StrayStage, Serving
  <2>5. Strays(stray', Tokens')
    <3> HIDE DEF r
    <3>1. stray' = [stray EXCEPT ![i] = r]
      BY <1>8 DEF IssueUnheard, r
    <3> QED
      BY <2>3, <2>4, <3>1, StrayMoved
  <2> QED
    BY <1>8, <1>t, <2>2, <2>5 DEF IssueUnheard, TypeOK, Strays, StrayStage
<1> QED
  BY <1>0, <1>1, <1>2, <1>3, <1>4, <1>5, <1>6, <1>7, <1>8 DEF Next, Refresh

\* Whatever the pages, the calls and the faults, the state keeps its types.
THEOREM TypeCorrect == Spec => []TypeOK
<1> QED
  BY TypeInit, TypeStep, PTL DEF Spec

-----------------------------------------------------------------------------
(* One page *)

OnePage == \A t, u \in Tabs : t = u

\* The live tokens somebody can present.
Heard == live \ Unheard

\* A refresh under way is alone with its chain of tokens: the token it presented
\* is the only one of them that may be live, and once revoked none is.
ChainHeld ==
  \A t \in Tabs :
    /\ flight[t].at = "verified" =>
         \A k \in Heard : origin[k] = origin[flight[t].token] => k = flight[t].token
    /\ flight[t].at = "revoked" =>
         \A k \in Heard : origin[k] # origin[flight[t].token]

\* What the page presents, or is about to be given, is no answer that was lost.
PresentsHeard ==
  /\ jar.refresh \notin Unheard
  /\ \A t \in Tabs : flight[t].at \in Serving => flight[t].token \notin Unheard
  /\ \A t \in Tabs : flight[t].at = "issued" => flight[t].token # jar.refresh

RInv == TypeOK /\ OneLiveTokenPerLogin /\ ChainHeld /\ PresentsHeard

LEMMA UnheardTokens ==
  ASSUME TypeOK
  PROVE  Unheard \subseteq Tokens /\ 0 \notin Tokens /\ Len(origin) + 1 \notin Tokens
<1>1. Tokens = 1..Len(origin) /\ Len(origin) \in Nat
  BY DEF TypeOK, Tokens
<1> QED
  BY <1>1 DEF TypeOK, Unheard

\* A lost answer adds its token, if it has one by then.
LEMMA UnheardAdded ==
  ASSUME TypeOK, NEW r \in [at : StrayStage, token : Nat], stray' = Append(stray, r),
         r.at \in {"verified", "revoked", "issued"} => r.token \in Tokens
  PROVE  Unheard' = Unheard \union (IF r.at = "issued" THEN {r.token} ELSE {})
<1>1. Strays(stray, Tokens)
  BY DEF TypeOK, Strays, StrayStage
<1>2. /\ Len(stray') = Len(stray) + 1 /\ Len(stray) \in Nat
      /\ \A i \in 1..Len(stray) : stray'[i] = stray[i]
      /\ stray'[Len(stray) + 1] = r
  BY <1>1, StrayAdded
<1>3. 1..Len(stray') = 1..Len(stray) \union {Len(stray) + 1}
  BY <1>2
<1> QED
  BY <1>2, <1>3 DEF Unheard

\* And so does a handler that goes on until it has issued one.
LEMMA UnheardMoved ==
  ASSUME TypeOK, NEW i \in 1..Len(stray), NEW r \in [at : StrayStage, token : Nat],
         stray' = [stray EXCEPT ![i] = r], stray[i].at # "issued"
  PROVE  Unheard' = Unheard \union (IF r.at = "issued" THEN {r.token} ELSE {})
<1>1. stray \in Seq([at : StrayStage, token : Nat])
  BY DEF TypeOK, StrayStage
<1>2. /\ Len(stray') = Len(stray) /\ stray'[i] = r
      /\ \A j \in 1..Len(stray) : j # i => stray'[j] = stray[j]
  BY <1>1
<1> QED
  BY <1>2 DEF Unheard

\* What issues nothing a page will have and moves no refresh on: of the tokens
\* that can be presented some may go.
LEMMA ChainKept ==
  ASSUME RInv, \A k \in Tokens : origin'[k] = origin[k], Heard' \subseteq Heard,
         \A t \in Tabs : \/ flight'[t] = flight[t]
                         \/ flight'[t].at \notin {"verified", "revoked"}
  PROVE  OneLiveTokenPerLogin' /\ ChainHeld'
<1>1. Heard \subseteq Tokens
  BY DEF RInv, TypeOK, Heard
<1>2. \A t \in Tabs : flight[t].at \in {"verified", "revoked"} => flight[t].token \in Tokens
  BY DEF RInv, TypeOK
<1>3. OneLiveTokenPerLogin'
  <2>1. \A j, k \in Heard : origin[j] = origin[k] => j = k
    BY DEF RInv, OneLiveTokenPerLogin, Heard
  <2>2. \A j, k \in Heard' : origin'[j] = origin'[k] => j = k
    BY <1>1, <2>1
  <2> QED
    BY <2>2 DEF OneLiveTokenPerLogin, Heard
<1>4. ChainHeld'
  <2> HIDE DEF Heard
  <2> SUFFICES ASSUME NEW t \in Tabs
               PROVE  /\ flight'[t].at = "verified" =>
                           \A k \in Heard' : origin'[k] = origin'[flight'[t].token]
                                               => k = flight'[t].token
                      /\ flight'[t].at = "revoked" =>
                           \A k \in Heard' : origin'[k] # origin'[flight'[t].token]
    BY DEF ChainHeld
  <2>1. CASE flight'[t] = flight[t]
    BY <1>1, <1>2, <2>1 DEF RInv, ChainHeld
  <2>2. CASE flight'[t].at \notin {"verified", "revoked"}
    BY <2>2
  <2> QED
    BY <2>1, <2>2
<1> QED
  BY <1>3, <1>4

\* The cookie and the refreshes under way keep clear of the answers lost.
LEMMA PresentsKept ==
  ASSUME RInv, Unheard' = Unheard,
         jar'.refresh \in {0, jar.refresh},
         \A t \in Tabs : \/ flight'[t] = flight[t]
                         \/ flight'[t].token = flight[t].token /\ flight[t].at \in Serving
                              /\ flight'[t].at # "issued"
                         \/ flight'[t].token = jar.refresh /\ flight'[t].at # "issued"
                         \/ flight'[t].at \notin Serving
  PROVE  PresentsHeard'
<1>1. \A t \in Tabs : flight[t].at = "issued" => flight[t].token \in Tokens
  BY DEF RInv, TypeOK
<1>2. 0 \notin Unheard /\ 0 \notin Tokens
  BY UnheardTokens DEF RInv
<1> QED
  BY <1>1, <1>2 DEF RInv, PresentsHeard, Serving

LEMMA RotationStep == OnePage /\ RInv /\ [Next]_vars => RInv'
<1> SUFFICES ASSUME OnePage, RInv, [Next]_vars PROVE RInv'
  OBVIOUS
<1>t. TypeOK' /\ TypeOK
  BY TypeStep DEF RInv
<1>l. live \subseteq Tokens /\ \A k \in Tokens : origin[k] \in 1..k
  BY <1>t DEF TypeOK
<1>k. /\ Unheard \subseteq Tokens /\ 0 \notin Tokens /\ Len(origin) + 1 \notin Tokens
      /\ jar.refresh \in {0} \union Tokens
      /\ \A t \in Tabs : flight[t].token \in {0} \union Tokens
  BY <1>t, UnheardTokens DEF TypeOK
<1>n. {0} \union Tokens \subseteq Nat
  BY <1>t DEF TypeOK, Tokens
<1>e. /\ flight \in [Tabs -> [at : {"none"} \union Serving \union Verdict,
                              token : {0} \union Tokens]]
      /\ jar \in [access : BOOLEAN, refresh : {0} \union Tokens]
  BY <1>t DEF TypeOK
<1>f. ASSUME origin' = origin, live' \subseteq live, stray' = stray,
             jar'.refresh \in {0, jar.refresh},
             \A t \in Tabs : \/ flight'[t] = flight[t]
                             \/ flight'[t].token = jar.refresh /\ flight'[t].at = "sent"
                             \/ flight'[t].at \notin Serving
      PROVE  RInv'
  <2>1. Unheard' = Unheard /\ Heard' \subseteq Heard
    BY <1>f DEF Unheard, Heard
  <2>2. OneLiveTokenPerLogin' /\ ChainHeld'
    BY <1>f, <2>1, ChainKept DEF Serving
  <2>3. PresentsHeard'
    BY <1>f, <2>1, PresentsKept
  <2> QED
    BY <1>t, <2>2, <2>3 DEF RInv
<1>0. CASE UNCHANGED vars
  BY <1>0, <1>f DEF vars
<1>1. ASSUME NEW c \in Calls, Send(c) \/ Answered(c) PROVE RInv'
  <2>1. \A t \in Tabs : \/ flight'[t] = flight[t]
                        \/ flight'[t].token = jar.refresh /\ flight'[t].at = "sent"
    BY <1>1, <1>e, SessionAssumption DEF Send, Answered, Served, Unauthorized
  <2> QED
    BY <1>1, <1>f, <2>1 DEF Send, Answered, Served, Unauthorized
<1>2. ASSUME NEW t \in Tabs,
             LoadUser(t) \/ Reload(t) \/ SendLogout(t) \/ RevokeAtLogout(t) \/ LoggedOut(t)
      PROVE  RInv'
  BY <1>2, <1>f DEF LoadUser, Reload, SendLogout, RevokeAtLogout, LoggedOut
<1>3. ASSUME NEW t \in Tabs, RefuseRefresh(t) \/ Clear(t) PROVE RInv'
  <2>1. \A u \in Tabs : flight'[u] = flight[u] \/ flight'[u].at \notin Serving
    BY <1>3, <1>e DEF RefuseRefresh, Clear, Fails, Quiet, Serving
  <2> QED
    BY <1>3, <1>f, <2>1 DEF RefuseRefresh, Clear
<1>4. ASSUME NEW t \in Tabs, Verify(t) PROVE RInv'
  <2>1. /\ \A u \in Tabs : u = t
        /\ flight' = [flight EXCEPT ![t].at = "verified"]
        /\ flight[t].at = "sent" /\ flight[t].token \in live
        /\ live' = live /\ origin' = origin /\ stray' = stray /\ jar' = jar
    BY <1>4 DEF OnePage, Verify
  <2>2. flight'[t].at = "verified" /\ flight'[t].token = flight[t].token
    BY <2>1, <1>e
  <2>3. Unheard' = Unheard /\ Heard' = Heard
    BY <2>1 DEF Unheard, Heard
  <2>4. flight[t].token \in Heard
    BY <2>1 DEF RInv, PresentsHeard, Heard, Serving
  <2>5. \A j, k \in Heard : origin[j] = origin[k] => j = k
    BY DEF RInv, OneLiveTokenPerLogin, Heard
  <2>6. PresentsHeard'
    BY <2>1, <2>2, <2>3, PresentsKept DEF Serving
  <2>7. OneLiveTokenPerLogin' /\ ChainHeld'
    <3> HIDE DEF Heard
    <3>1. ChainHeld'
      BY <2>1, <2>2, <2>3, <2>4, <2>5 DEF ChainHeld
    <3>2. OneLiveTokenPerLogin'
      BY <2>1, <2>3, <2>5 DEF OneLiveTokenPerLogin, Heard
    <3> QED
      BY <3>1, <3>2
  <2> QED
    BY <1>t, <2>6, <2>7 DEF RInv
<1>5. ASSUME NEW t \in Tabs, Revoke(t) PROVE RInv'
  <2>1. /\ \A u \in Tabs : u = t
        /\ flight[t].at = "verified"
        /\ flight' = [flight EXCEPT ![t].at = "revoked"]
        /\ live' = live \ {flight[t].token} /\ origin' = origin
        /\ stray' = stray /\ jar' = jar
    BY <1>5 DEF OnePage, Revoke
  <2>2. flight'[t].at = "revoked" /\ flight'[t].token = flight[t].token
    BY <2>1, <1>e
  <2>3. Unheard' = Unheard /\ Heard' = Heard \ {flight[t].token}
    BY <2>1 DEF Unheard, Heard
  <2>4. \A k \in Heard : origin[k] = origin[flight[t].token] => k = flight[t].token
    BY <2>1 DEF RInv, ChainHeld
  <2>5. \A j, k \in Heard : origin[j] = origin[k] => j = k
    BY DEF RInv, OneLiveTokenPerLogin, Heard
  <2>6. PresentsHeard'
    BY <2>1, <2>2, <2>3, PresentsKept DEF Serving
  <2>7. ChainHeld'
    BY <2>1, <2>2, <2>3, <2>4 DEF ChainHeld
  <2>8. OneLiveTokenPerLogin'
    BY <2>1, <2>3, <2>5 DEF OneLiveTokenPerLogin, Heard
  <2> QED
    BY <1>t, <2>6, <2>7, <2>8 DEF RInv
<1>6. ASSUME NEW t \in Tabs, Issue(t) PROVE RInv'
  <2> DEFINE new == Len(origin) + 1
             old == flight[t].token
  <2>1. /\ \A u \in Tabs : u = t
        /\ flight[t].at = "revoked" /\ old \in Tokens
        /\ flight' = [flight EXCEPT ![t] = [at |-> "issued", token |-> new]]
        /\ live' = live \union {new} /\ origin' = Append(origin, origin[old])
        /\ stray' = stray /\ jar' = jar
    BY <1>6 DEF OnePage, Issue, RInv, TypeOK
  <2>2. origin[old] \in 1..new
    <3>1. old \in 1..Len(origin) /\ Len(origin) \in Nat
      BY <2>1, <1>t DEF TypeOK, Tokens
    <3> QED
      BY <2>1, <3>1, <1>l
  <2>3. /\ \A k \in Tokens : origin'[k] = origin[k]
        /\ origin'[new] = origin[old] /\ new \notin Tokens
    BY <2>1, <2>2, <1>k, <1>t, AppendTypes
  <2>4. \A k \in Heard : origin[k] # origin[old] /\ k \in Tokens
    BY <2>1, <1>l DEF RInv, ChainHeld, Heard
  <2>5. Unheard' = Unheard /\ Heard' = Heard \union {new}
    BY <2>1, <2>3, <1>k DEF Unheard, Heard
  <2>6. OneLiveTokenPerLogin'
    <3>1. \A j, k \in Heard : origin[j] = origin[k] => j = k
      BY DEF RInv, OneLiveTokenPerLogin, Heard
    <3> HIDE DEF new, old
    <3>2. \A j, k \in Heard' : origin'[j] = origin'[k] => j = k
      BY <2>3, <2>4, <2>5, <3>1
    <3> QED
      BY <3>2 DEF OneLiveTokenPerLogin, Heard
  <2>7. flight'[t].at = "issued" /\ flight'[t].token = new
    BY <2>1, <1>e
  <2>8. ChainHeld'
    BY <2>1, <2>7 DEF ChainHeld
  <2>9. PresentsHeard'
    <3>1. new # jar.refresh /\ new \notin Unheard
      BY <1>k, <2>3
    <3> HIDE DEF new, old
    <3> QED
      BY <2>1, <2>5, <2>7, <3>1 DEF RInv, PresentsHeard
  <2> QED
    BY <1>t, <2>6, <2>8, <2>9 DEF RInv
<1>7. ASSUME NEW t \in Tabs, Login(t) PROVE RInv'
  <2> DEFINE new == Len(origin) + 1
  <2>1. /\ flight' = flight /\ stray' = stray /\ jar'.refresh = new
        /\ live' = live \union {new} /\ origin' = Append(origin, new)
    BY <1>7 DEF Login
  <2>2. new \in 1..new
    BY <1>t DEF TypeOK
  <2>3. /\ \A k \in Tokens : origin'[k] = origin[k] /\ origin[k] # new
        /\ origin'[new] = new /\ new \notin Tokens
    <3>1. /\ \A k \in Tokens : origin'[k] = origin[k]
          /\ origin'[new] = new /\ Tokens = 1..Len(origin) /\ Len(origin) \in Nat
      BY <2>1, <2>2, <1>t, AppendTypes
    <3> QED
      BY <3>1, <1>l
  <2>4. Unheard' = Unheard /\ Heard' = Heard \union {new} /\ Heard \subseteq Tokens
    BY <2>1, <2>3, <1>k, <1>l DEF Unheard, Heard
  <2>5. OneLiveTokenPerLogin'
    <3>1. \A j, k \in Heard : origin[j] = origin[k] => j = k
      BY DEF RInv, OneLiveTokenPerLogin, Heard
    <3> HIDE DEF new
    <3>2. \A j, k \in Heard' : origin'[j] = origin'[k] => j = k
      BY <2>3, <2>4, <3>1
    <3> QED
      BY <3>2 DEF OneLiveTokenPerLogin, Heard
  <2>6. \A u \in Tabs : flight[u].at \in {"verified", "revoked", "issued"}
                           => flight[u].token \in Tokens
    BY <1>t DEF TypeOK
  <2>7. ChainHeld'
    <3> HIDE DEF new, Heard
    <3> SUFFICES ASSUME NEW u \in Tabs, flight[u].at \in {"verified", "revoked"}, NEW k \in Heard'
                 PROVE  /\ flight[u].at = "verified" =>
                             (origin'[k] = origin'[flight[u].token] => k = flight[u].token)
                        /\ flight[u].at = "revoked" => origin'[k] # origin'[flight[u].token]
      BY <2>1 DEF ChainHeld
    <3>1. origin'[flight[u].token] = origin[flight[u].token] /\ origin[flight[u].token] # new
      BY <2>3, <2>6
    <3>2. CASE k = new
      BY <2>3, <3>1, <3>2
    <3>3. CASE k \in Heard
      <4>1. origin'[k] = origin[k]
        BY <2>3, <2>4, <3>3
      <4> QED
        BY <3>1, <3>3, <4>1 DEF RInv, ChainHeld
    <3> QED
      BY <2>4, <3>2, <3>3
  <2>8. PresentsHeard'
    <3> HIDE DEF new
    <3> QED
      BY <2>1, <2>3, <2>4, <2>6, <1>k DEF RInv, PresentsHeard
  <2> QED
    BY <1>t, <2>5, <2>7, <2>8 DEF RInv
<1>8. CASE Expire
  <2>1. jar'.refresh = jar.refresh
    BY <1>8, <1>e DEF Expire
  <2> QED
    BY <1>8, <1>f, <2>1 DEF Expire
<1>9. ASSUME NEW t \in Tabs, Settle(t) PROVE RInv'
  <2>1. /\ \A u \in Tabs : u = t
        /\ flight[t].at = "issued" /\ flight' = [flight EXCEPT ![t].at = "ok"]
        /\ jar'.refresh = flight[t].token
        /\ live' = live /\ origin' = origin /\ stray' = stray
    BY <1>9 DEF OnePage, Settle
  <2>2. flight'[t].at = "ok"
    BY <2>1, <1>e
  <2>3. Unheard' = Unheard /\ Heard' = Heard
    BY <2>1 DEF Unheard, Heard
  <2>4. OneLiveTokenPerLogin' /\ ChainHeld'
    BY <2>1, <2>2, <2>3, ChainKept
  <2>5. PresentsHeard'
    BY <2>1, <2>2, <2>3 DEF RInv, PresentsHeard, Serving
  <2> QED
    BY <1>t, <2>4, <2>5 DEF RInv
<1>10. ASSUME NEW t \in Tabs, LoseRefresh(t) PROVE RInv'
  <2>1. /\ \A u \in Tabs : u = t
        /\ flight[t].at \in Serving /\ stray' = Append(stray, flight[t])
        /\ flight' = [flight EXCEPT ![t] = [at |-> "failed", token |-> 0]]
        /\ live' = live /\ origin' = origin /\ jar' = jar
    BY <1>10 DEF OnePage, LoseRefresh, Fails
  <2>2. flight'[t].at = "failed"
    BY <2>1, <1>e
  <2>3. Unheard' = Unheard \union (IF flight[t].at = "issued" THEN {flight[t].token} ELSE {})
    <3>0. flight[t] \in [at : {"none"} \union Serving \union Verdict, token : {0} \union Tokens]
      BY <1>e
    <3>1. /\ flight[t] \in [at : StrayStage, token : Nat]
          /\ flight[t].at \in {"verified", "revoked", "issued"} => flight[t].token \in Tokens
      <4>1. flight[t] \in [at : StrayStage, token : Nat]
        <5> HIDE DEF Tokens, Serving
        <5> QED
          BY <1>n, <2>1, <3>0 DEF StrayStage
      <4> QED
        BY <1>t, <4>1 DEF TypeOK
    <3> QED
      BY <1>t, <2>1, <3>1, UnheardAdded
  <2>4. Heard' \subseteq Heard
    BY <2>1, <2>3 DEF Heard
  <2>5. OneLiveTokenPerLogin' /\ ChainHeld'
    BY <2>1, <2>2, <2>4, ChainKept
  <2>6. PresentsHeard'
    BY <2>1, <2>2, <2>3 DEF RInv, PresentsHeard, Serving
  <2> QED
    BY <1>t, <2>5, <2>6 DEF RInv
<1>11. ASSUME NEW t \in Tabs, LoseLogout(t) PROVE RInv'
  <2> DEFINE r == [at |-> IF exit[t].at = "sent" THEN "leaving" ELSE "left",
                   token |-> exit[t].token]
  <2>1. /\ stray' = Append(stray, r) /\ flight' = flight
        /\ live' = live /\ origin' = origin /\ jar' = jar
    BY <1>11 DEF LoseLogout
  <2>2. r \in [at : StrayStage, token : Nat] /\ r.at \in {"leaving", "left"}
    <3>1. exit[t].token \in {0} \union Tokens
      BY <1>t DEF TypeOK
    <3> QED
      BY <1>n, <3>1 DEF StrayStage
  <2>3. Unheard' = Unheard
    <3> HIDE DEF r
    <3> QED
      BY <1>t, <2>1, <2>2, UnheardAdded
  <2>4. Heard' = Heard
    BY <2>1, <2>3 DEF Heard
  <2> QED
    BY <1>t, <2>1, <2>3, <2>4, ChainKept, PresentsKept DEF RInv
<1>12. ASSUME NEW i \in 1..Len(stray), VerifyUnheard(i) \/ RevokeUnheard(i) PROVE RInv'
  <2>1. PICK a \in {"verified", "revoked", "left"} : GoesOn(i, a)
    BY <1>12 DEF VerifyUnheard, RevokeUnheard
  <2> DEFINE r == [stray[i] EXCEPT !.at = a]
  <2>2. stray[i] \in [at : StrayStage, token : Nat]
    BY <1>t, StrayTyped DEF TypeOK, StrayStage
  <2>3. r \in [at : StrayStage, token : Nat] /\ r.at = a
    BY <2>1, <2>2 DEF StrayStage, Serving
  <2>4. stray' = [stray EXCEPT ![i] = r]
    BY <2>1 DEF GoesOn
  <2>5. stray[i].at # "issued"
    BY <1>12 DEF VerifyUnheard, RevokeUnheard
  <2> HIDE DEF r
  <2>6. Unheard' = Unheard
    BY <1>t, <2>1, <2>3, <2>4, <2>5, UnheardMoved
  <2>7. /\ live' \subseteq live /\ origin' = origin /\ jar' = jar /\ flight' = flight
    BY <1>12 DEF VerifyUnheard, RevokeUnheard
  <2>8. Heard' \subseteq Heard
    BY <2>6, <2>7 DEF Heard
  <2> QED
    BY <1>t, <2>6, <2>7, <2>8, ChainKept, PresentsKept DEF RInv
<1>13. ASSUME NEW i \in 1..Len(stray), IssueUnheard(i) PROVE RInv'
  <2> DEFINE new == Len(origin) + 1
             r == [at |-> "issued", token |-> new]
  <2>1. /\ stray[i].at = "revoked" /\ stray' = [stray EXCEPT ![i] = r]
        /\ live' = live \union {new} /\ origin' = Append(origin, origin[stray[i].token])
        /\ jar' = jar /\ flight' = flight
    BY <1>13 DEF IssueUnheard
  <2>2. r \in [at : StrayStage, token : Nat] /\ r.at = "issued" /\ r.token = new
    BY <1>t DEF TypeOK, StrayStage, Serving
  <2>3. Unheard' = Unheard \union {new}
    <3> HIDE DEF r
    <3> QED
      BY <1>t, <2>1, <2>2, UnheardMoved
  <2>4. origin[stray[i].token] \in 1..new
    <3>1. stray[i].token \in 1..Len(origin) /\ Len(origin) \in Nat
      BY <1>t, <2>1 DEF TypeOK, Tokens
    <3> QED
      BY <3>1, <1>l DEF Tokens
  <2>5. \A k \in Tokens : origin'[k] = origin[k]
    BY <1>t, <2>1, <2>4, AppendTypes
  <2>6. Heard' \subseteq Heard
    BY <2>1, <2>3 DEF Heard
  <2>7. OneLiveTokenPerLogin' /\ ChainHeld'
    BY <2>1, <2>5, <2>6, ChainKept
  <2>8. PresentsHeard'
    <3>1. new # jar.refresh /\ \A t \in Tabs : new # flight[t].token
      BY <1>k, <1>t DEF TypeOK
    <3> HIDE DEF new
    <3> QED
      BY <2>1, <2>3, <3>1 DEF RInv, PresentsHeard
  <2> QED
    BY <1>t, <2>7, <2>8 DEF RInv
<1> QED
  BY <1>0, <1>1, <1>2, <1>3, <1>4, <1>5, <1>6, <1>7, <1>8, <1>9, <1>10, <1>11, <1>12, <1>13
  DEF Next, Refresh

\* Rotation leaves at most one live token of a login that a page can present, for
\* any number of calls, logins and logouts of one page and any number of answers
\* lost while their handlers go on (AuthService.refresh, refreshSession).
THEOREM TokensRotate == OnePage => (Spec => []OneLiveTokenPerLogin)
<1> SUFFICES ASSUME OnePage PROVE Spec => []OneLiveTokenPerLogin
  OBVIOUS
<1>1. Init => RInv
  <2>1. Init => Unheard = {} /\ live = {} /\ jar.refresh = 0
    BY DEF Init, Unheard
  <2> QED
    BY <2>1, TypeInit
    DEF Init, RInv, OneLiveTokenPerLogin, ChainHeld, PresentsHeard, Quiet, Serving
<1>2. RInv /\ [Next]_vars => RInv'
  BY RotationStep
<1>3. RInv => OneLiveTokenPerLogin
  BY DEF RInv
<1> QED
  BY <1>1, <1>2, <1>3, PTL DEF Spec

-----------------------------------------------------------------------------
(* The page keeps its session *)

Undisturbed == faults = 0 /\ ~left

\* What a refresh under way may count on while nothing has gone wrong and nobody
\* has logged out: the cookie is live, or its successor is on its way.
FlightHealthy(t) ==
  /\ flight[t].at # "failed"
  /\ flight[t].at \in {"none", "ok"} => jar.refresh = 0 \/ jar.refresh \in live
  /\ flight[t].at \in {"sent", "verified"} =>
       flight[t].token = jar.refresh /\ jar.refresh \in live
  /\ flight[t].at = "issued" => flight[t].token \in live
  /\ flight[t].at = "ok" => jar.access = TRUE

Healthy ==
  /\ jar.access = TRUE => jar.refresh # 0
  /\ \A t \in Tabs : /\ exit[t] = Quiet
                     /\ screen[t] = "in" => jar.refresh # 0
                     /\ flight[t] # Quiet => screen[t] = "in"
                     /\ FlightHealthy(t)
  /\ \A c \in Calls : /\ call[c] # "refused"
                      /\ call[c] \in Underway => screen[TabOf[c]] = "in"

SInv == TypeOK /\ (Undisturbed => Healthy /\ stray = << >>)

LEMMA HealthStep == OnePage /\ SInv /\ [Next]_vars => SInv'
<1> SUFFICES ASSUME OnePage, SInv, [Next]_vars, Undisturbed'
             PROVE  Healthy' /\ stray' = << >>
  BY TypeStep DEF SInv
<1> USE SessionAssumption
<1>t. /\ call \in [Calls -> {"idle", "ok", "refused"} \union Underway]
      /\ flight \in [Tabs -> [at : {"none"} \union Serving \union Verdict,
                              token : {0} \union Tokens]]
      /\ screen \in [Tabs -> {"loading", "in", "out"}]
      /\ exit \in [Tabs -> [at : {"none", "sent", "revoked"},
                            token : {0} \union Tokens]]
      /\ faults \in Nat /\ 0 \notin Tokens /\ live \subseteq Tokens
  BY DEF SInv, TypeOK, Tokens
\* A fault or a logout, once it has happened, is never forgotten.
<1>u. Undisturbed
  <2>1. (faults' = faults \/ faults' = faults + 1) /\ (left' = left \/ left' = TRUE)
    BY DEF Next, vars, Send, Answered, Served, Unauthorized, LoadUser, Reload, Login,
           SendLogout, RevokeAtLogout, LoggedOut, Refresh, Verify, RefuseRefresh,
           Revoke, Issue, Settle, Clear, LoseRefresh, LoseLogout, VerifyUnheard,
           RevokeUnheard, IssueUnheard, Expire
  <2>2. faults' = 0 /\ left' # TRUE
    BY DEF Undisturbed
  <2> QED
    BY <2>1, <2>2, <1>t DEF Undisturbed
<1>h. Healthy /\ stray = << >>
  BY <1>u DEF SInv
<1>0. CASE UNCHANGED vars
  BY <1>0, <1>h DEF vars, Healthy, FlightHealthy
<1>1. ASSUME NEW c \in Calls, Send(c) PROVE Healthy'
  <2>1. /\ screen[TabOf[c]] = "in" /\ screen' = screen /\ flight' = flight
        /\ jar' = jar /\ live' = live /\ exit' = exit
        /\ \E a \in {"valid", "expired"} : call' = [call EXCEPT ![c] = a]
    BY <1>1 DEF Send
  <2> QED
    BY <2>1, <1>t, <1>h DEF Healthy, FlightHealthy
<1>2. ASSUME NEW c \in Calls, Served(c) PROVE Healthy'
  BY <1>2, <1>t, <1>h DEF Served, Healthy, FlightHealthy, Underway, InFlight
<1>3. ASSUME NEW c \in Calls, Unauthorized(c) PROVE Healthy'
  <2> DEFINE t == TabOf[c]
  <2>1. /\ screen[t] = "in" /\ screen' = screen /\ jar' = jar /\ live' = live
        /\ exit' = exit /\ t \in Tabs /\ jar.refresh # 0
    BY <1>3, <1>t, <1>h DEF Unauthorized, Healthy, Underway, InFlight
  <2>2. CASE /\ flight[t] = Quiet
             /\ flight' = [flight EXCEPT ![t] = [at |-> "sent", token |-> jar.refresh]]
             /\ call' = [call EXCEPT ![c] = "waiting"]
    <3>1. jar.refresh \in live
      BY <2>1, <2>2, <1>h DEF Healthy, FlightHealthy, Quiet
    <3> QED
      BY <2>1, <2>2, <3>1, <1>t, <1>h DEF Healthy, FlightHealthy
  <2>3. CASE flight' = flight /\ call' = [call EXCEPT ![c] = "waiting"]
    BY <2>1, <2>3, <1>t, <1>h DEF Healthy, FlightHealthy
  <2>4. CASE /\ flight[t].at \in Verdict /\ flight' = flight
             /\ call' = [call EXCEPT ![c] =
                  IF flight[t].at = "ok" /\ jar.access THEN "again" ELSE "refused"]
    <3>1. flight[t].at = "ok" /\ jar.access
      BY <2>1, <2>4, <1>h DEF Healthy, FlightHealthy, Verdict
    <3>2. call' = [call EXCEPT ![c] = "again"]
      BY <2>4, <3>1
    <3> QED
      BY <2>1, <2>4, <3>2, <1>t, <1>h DEF Healthy, FlightHealthy
  <2> QED
    BY <1>3, <2>2, <2>3, <2>4 DEF Unauthorized
<1>4. ASSUME NEW t \in Tabs, LoadUser(t) PROVE Healthy'
  <2>1. flight[t] = Quiet /\ \A u \in Tabs : u = t
    BY <1>4, <1>h DEF LoadUser, Healthy, OnePage
  <2>2. /\ \A c \in Calls : call[c] \notin Underway
        /\ flight' = flight /\ call' = call /\ jar' = jar /\ live' = live /\ exit' = exit
    BY <1>4, <1>h, <2>1 DEF LoadUser, Healthy
  <2>3. screen'[t] = "in" => jar.access = TRUE
    BY <1>4, <1>t DEF LoadUser
  <2> QED
    BY <2>1, <2>2, <2>3, <1>h DEF Healthy, FlightHealthy
<1>5. ASSUME NEW t \in Tabs, Reload(t) PROVE Healthy'
  <2>1. \A u \in Tabs : u = t
    BY DEF OnePage
  <2>2. \A c \in Calls : call[c] \notin Underway
    BY <1>5, <2>1 DEF Reload
  <2> QED
    BY <1>5, <2>1, <2>2, <1>t, <1>h DEF Reload, Healthy, FlightHealthy
<1>6. ASSUME NEW t \in Tabs, Login(t) PROVE Healthy'
  <2> DEFINE new == Len(origin) + 1
  <2>1. \A u \in Tabs : u = t /\ flight[u] = Quiet
    BY <1>6, <1>h DEF Login, Healthy, OnePage
  <2>2. \A c \in Calls : call[c] \notin Underway
    BY <1>6, <1>h, <2>1 DEF Login, Healthy
  <2>3. /\ new # 0 /\ new \in live' /\ jar' = [access |-> TRUE, refresh |-> new]
        /\ flight' = flight /\ call' = call /\ exit' = exit /\ screen'[t] = "loading"
    BY <1>6, <1>t DEF Login, SInv, TypeOK
  <2> QED
    BY <2>1, <2>2, <2>3, <1>h DEF Healthy, FlightHealthy, Quiet
<1>7. ASSUME NEW t \in Tabs, RevokeAtLogout(t) \/ LoggedOut(t) PROVE FALSE
  BY <1>7, <1>h DEF RevokeAtLogout, LoggedOut, Healthy, Quiet
<1>8. ASSUME NEW t \in Tabs, SendLogout(t) \/ LoseLogout(t) \/ LoseRefresh(t)
      PROVE  FALSE
  BY <1>8, <1>u, <1>t DEF SendLogout, LoseLogout, LoseRefresh, Undisturbed
<1>9. ASSUME NEW t \in Tabs, Refresh(t) PROVE Healthy'
  <2>0. \A u \in Tabs : u = t
    BY DEF OnePage
  <2>1. CASE Verify(t)
    BY <2>0, <2>1, <1>t, <1>h DEF Verify, Healthy, FlightHealthy, Quiet
  <2>2. CASE RefuseRefresh(t)
    BY <2>2, <1>h DEF RefuseRefresh, Healthy, FlightHealthy
  <2>3. CASE Revoke(t)
    BY <2>0, <2>3, <1>t, <1>h DEF Revoke, Healthy, FlightHealthy, Quiet
  <2>4. CASE Issue(t)
    BY <2>0, <2>4, <1>t, <1>h DEF Issue, Healthy, FlightHealthy, Quiet
  <2>5. CASE Settle(t)
    <3>1. /\ flight'[t].at = "ok" /\ flight[t] # Quiet /\ screen[t] = "in"
          /\ jar' = [access |-> TRUE, refresh |-> flight[t].token]
          /\ flight[t].token \in live
          /\ live' = live /\ screen' = screen /\ exit' = exit
      BY <2>5, <1>t, <1>h DEF Settle, Healthy, FlightHealthy, Quiet
    <3>2. \A c \in Calls : call'[c] # "refused" /\ screen'[TabOf[c]] = "in"
      BY <2>0, <2>5, <3>1, <1>t, <1>h DEF Settle, Woken, Healthy
    <3>3. FlightHealthy(t)'
      BY <3>1 DEF FlightHealthy
    <3> QED
      BY <2>0, <3>1, <3>2, <3>3, <1>t, <1>h DEF Healthy
  <2>6. CASE Clear(t)
    BY <2>0, <2>6, <1>t, <1>h DEF Clear, Healthy, FlightHealthy, Quiet, Verdict
  <2> QED
    BY <1>9, <2>1, <2>2, <2>3, <2>4, <2>5, <2>6 DEF Refresh
<1>10. CASE Expire
  <2>1. /\ jar'.access = FALSE /\ jar'.refresh = jar.refresh /\ live' = live
        /\ \A t \in Tabs : flight[t] = Quiet
        /\ flight' = flight /\ screen' = screen /\ exit' = exit /\ stray' = stray
    BY <1>10 DEF Expire, SInv, TypeOK
  <2>2. \A c \in Calls : \/ call'[c] = call[c]
                         \/ call[c] = "valid" /\ call'[c] = "expired"
    BY <1>10 DEF Expire
  <2> QED
    BY <2>1, <2>2, <1>h DEF Healthy, FlightHealthy, Quiet, Underway, InFlight
<1>11. 1..Len(stray) = {}
  BY <1>h
<1>12. stray' = << >>
  BY <1>7, <1>8, <1>11, <1>h
  DEF Next, vars, Send, Answered, Served, Unauthorized, LoadUser, Reload, Login, Refresh,
      Verify, RefuseRefresh, Revoke, Issue, Settle, Clear, Expire
<1> QED
  BY <1>12, <1>0, <1>1, <1>2, <1>3, <1>4, <1>5, <1>6, <1>7, <1>8, <1>9, <1>10, <1>11
  DEF Next, Answered

\* However many requests a page fires with an expired token and however late
\* their answers come, it does not end its own session (refreshSession).
THEOREM PageKeepsSession == OnePage => (Spec => []NeverLogsItselfOut)
<1> SUFFICES ASSUME OnePage PROVE Spec => []NeverLogsItselfOut
  OBVIOUS
<1>1. Init => SInv
  BY TypeInit
  DEF Init, SInv, Healthy, FlightHealthy, Quiet, Underway, InFlight
<1>2. SInv /\ [Next]_vars => SInv'
  BY HealthStep
<1>3. SInv => NeverLogsItselfOut
  BY DEF SInv, Healthy, FlightHealthy, NeverLogsItselfOut, Undisturbed
<1> QED
  BY <1>1, <1>2, <1>3, PTL DEF Spec
=============================================================================
