------------------------- MODULE AgentSessionProofs -------------------------
(***************************************************************************)
(* Theorems about AgentSession, for any callers and any login attempts.    *)
(* The inductive invariant says who may believe what about the session in  *)
(* use: the login in flight is the only one, a session that is not ready   *)
(* has denied somebody, and a caller's generation is at most the current   *)
(* one and names the current client when it is equal.                      *)
(***************************************************************************)
EXTENDS AgentSession, TLAPS

\* One login in flight, and no session is ready beside it.
Flight ==
  /\ \A i \in Logins : Pending(i) <=> i = sess.inflight
  /\ sess.inflight # None => ~sess.ready

\* The client is a login that succeeded, and there is one once any did.
Chosen ==
  /\ sess.client # None => logins[sess.client].state = "over"
  /\ \A i \in Logins : logins[i].state = "over" => sess.client # None
  /\ \A i \in Logins : logins[i].live => logins[i].state = "over"

\* While the agent serves, only a denial makes a session unready, and the
\* sessions before the current one have all denied somebody.
Dropped ==
  phase = "serving" =>
    /\ ~sess.ready /\ sess.client # None => logins[sess.client].denied
    /\ \A i \in Logins : logins[i].live /\ ~logins[i].denied => i = sess.client

\* What a caller holds.
Held(c) ==
  /\ call[c].at \in {"send", "reply"} =>
       /\ logins[call[c].client].state = "over"
       /\ call[c].gen <= sess.gen /\ (call[c].gen = sess.gen => call[c].client = sess.client)
  /\ call[c].at = "reply" /\ call[c].denied => logins[call[c].client].denied

\* What a retry may count on.
Newer(c) ==
  call[c].retry =>
    /\ call[c].after <= sess.gen
    /\ call[c].at = "ensure" /\ sess.ready => sess.gen > call[c].after
    /\ call[c].at = "wait" /\ logins[call[c].on].state = "over" => sess.gen > call[c].after
    /\ call[c].at \in {"send", "reply"} => call[c].gen > call[c].after

IInv == TypeOK /\ Flight /\ Chosen /\ Dropped /\ (\A c \in Everyone : Held(c) /\ Newer(c))

-----------------------------------------------------------------------------
(* The invariant *)

\* The attempt ensure starts is a new one.
LEMMA FreshIsNew ==
  ASSUME \E i \in Logins : logins[i].state = "none"
  PROVE  Fresh \in Logins /\ logins[Fresh].state = "none"
  BY DEF Fresh

\* At the start nobody is logged in.
LEMMA InitIInv == Init => IInv
  <1> SUFFICES ASSUME Init PROVE IInv
    OBVIOUS
  <1>1. TypeOK
    BY DEF Init, TypeOK, Sessions, Attempts, Calls, Idle, Everyone
  <1>2. Flight /\ Chosen /\ Dropped
    BY NoneAssumption DEF Init, Flight, Chosen, Dropped, Pending
  <1>3. \A c \in Everyone : Held(c) /\ Newer(c)
    BY <1>1 DEF Init, Held, Newer, Idle, TypeOK, Sessions
  <1> QED
    BY <1>1, <1>2, <1>3 DEF IInv

\* Steps that change one caller and nothing that others read.
LEMMA CallerStep ==
  ASSUME IInv, NEW c \in Everyone, NEW k \in Calls,
         call' = [call EXCEPT ![c] = k], UNCHANGED <<sess, logins, phase>>,
         leaving' \in Logins \cup {None}, begun' \in Nat, idled' \in Nat,
         k.at \in {"send", "reply"} =>
           /\ logins[k.client].state = "over"
           /\ k.gen <= sess.gen /\ (k.gen = sess.gen => k.client = sess.client),
         k.at = "reply" /\ k.denied => logins[k.client].denied,
         k.retry =>
           /\ k.after <= sess.gen
           /\ k.at = "ensure" /\ sess.ready => sess.gen > k.after
           /\ k.at = "wait" /\ logins[k.on].state = "over" => sess.gen > k.after
           /\ k.at \in {"send", "reply"} => k.gen > k.after
  PROVE  IInv'
  <1>1. TypeOK'
    BY DEF IInv, TypeOK
  <1>2. (Flight /\ Chosen /\ Dropped)'
    BY DEF IInv, Flight, Chosen, Dropped, Pending
  <1>3. ASSUME NEW d \in Everyone PROVE (Held(d) /\ Newer(d))'
    <2>1. CASE d = c
      <3>1. call'[d] = k
        BY <2>1 DEF IInv, TypeOK
      <3> QED
        BY <3>1 DEF Held, Newer
    <2>2. CASE d # c
      <3>1. call'[d] = call[d]
        BY <2>2 DEF IInv, TypeOK
      <3> QED
        BY <3>1 DEF IInv, Held, Newer
    <2> QED
      BY <2>1, <2>2
  <1> QED
    BY <1>1, <1>2, <1>3 DEF IInv

\* What a caller becomes when it leaves ensure: it takes client and generation
\* together, and is the startup's login when it takes neither.
LEMMA GrantedKeeps ==
  ASSUME IInv, NEW c \in Everyone, Granted(c), UNCHANGED <<sess, logins, phase, leaving, begun, idled>>,
         sess.client # None, call[c].retry => sess.gen > call[c].after
  PROVE  IInv'
  <1>1. call[c] \in Calls /\ sess \in Sessions
    BY DEF IInv, TypeOK
  <1>2. Idle \in Calls
    BY DEF Idle, Calls
  <1>3. CASE c = Starter
    <2>1. call' = [call EXCEPT ![c] = Idle]
      BY <1>3 DEF Granted, End
    <2> QED
      BY <1>2, <2>1, CallerStep DEF IInv, TypeOK, Idle
  <1>4. CASE c # Starter
    <2> DEFINE k == [call[c] EXCEPT !.at = "send", !.on = None, !.client = sess.client, !.gen = sess.gen]
    <2>1. call' = [call EXCEPT ![c] = k]
      BY <1>1, <1>4 DEF Granted, IInv, TypeOK, Calls
    <2>2. k \in Calls /\ k.at = "send" /\ k.gen = sess.gen /\ k.client = sess.client
          /\ k.retry = call[c].retry /\ k.after = call[c].after
      BY <1>1 DEF Calls, Sessions
    <2>3. k.retry => k.after <= sess.gen /\ k.gen > k.after
      BY <1>1, <2>2 DEF Sessions, Calls
    <2>4. k.gen <= sess.gen /\ logins[k.client].state = "over"
      BY <1>1, <2>2 DEF Sessions, IInv, Chosen
    <2> HIDE DEF k
    <2> QED
      BY <2>1, <2>2, <2>3, <2>4, CallerStep DEF IInv, TypeOK
  <1> QED
    BY <1>3, <1>4

\* A call that is over leaves nothing behind.
LEMMA EndKeeps ==
  ASSUME IInv, NEW c \in Everyone, End(c), UNCHANGED <<sess, logins, phase, leaving, begun, idled>>
  PROVE  IInv'
  <1>1. Idle \in Calls
    BY DEF Idle, Calls
  <1> QED
    BY <1>1, CallerStep DEF End, IInv, TypeOK, Idle

\* A request that has just come in.
LEMMA BeginKeeps == ASSUME IInv, NEW c \in Everyone, Begin(c) PROVE IInv'
  <1> DEFINE k == [Idle EXCEPT !.at = "ensure"]
  <1>1. k \in Calls /\ k.at = "ensure" /\ ~k.retry
    BY DEF Idle, Calls
  <1>2. call' = [call EXCEPT ![c] = k] /\ UNCHANGED <<sess, logins, phase, leaving, idled>> /\ begun' \in Nat
    BY DEF Begin, IInv, TypeOK
  <1> HIDE DEF k
  <1> QED
    BY <1>1, <1>2, CallerStep DEF IInv, TypeOK

\* A caller that goes to wait for a login which is not over.
LEMMA WaitKeeps ==
  ASSUME IInv, NEW c \in Everyone, NEW i \in Logins, Wait(c, i), call[c].at = "ensure", logins[i].state = "asked",
         UNCHANGED <<sess, logins, phase, leaving, begun, idled>>
  PROVE  IInv'
  <1> DEFINE k == [call[c] EXCEPT !.at = "wait", !.on = i]
  <1>1. call[c] \in Calls
    BY DEF IInv, TypeOK
  <1>2. call' = [call EXCEPT ![c] = k]
    BY <1>1 DEF Wait, IInv, TypeOK, Calls
  <1>3. k \in Calls /\ k.at = "wait" /\ k.on = i /\ k.retry = call[c].retry /\ k.after = call[c].after
    BY <1>1, NoneAssumption DEF Calls
  <1>4. k.retry => k.after <= sess.gen
    BY <1>3 DEF IInv, Newer
  <1> HIDE DEF k
  <1> QED
    BY <1>2, <1>3, <1>4, CallerStep DEF IInv, TypeOK

\* ensure with a session that is ready.
LEMMA EnsureReadyKeeps == ASSUME IInv, NEW c \in Everyone, EnsureReady(c) PROVE IInv'
  <1>1. sess.client # None
    BY DEF EnsureReady, IInv, TypeOK, Sessions
  <1>2. call[c].retry => sess.gen > call[c].after
    BY DEF EnsureReady, IInv, Newer
  <1> QED
    BY <1>1, <1>2, GrantedKeeps DEF EnsureReady

\* ensure with a login in flight.
LEMMA EnsureJoinsKeeps == ASSUME IInv, NEW c \in Everyone, EnsureJoins(c) PROVE IInv'
  BY WaitKeeps DEF EnsureJoins, IInv, TypeOK, Sessions, Flight, Pending

\* A login that was waited for has ended.
LEMMA WakeKeeps == ASSUME IInv, NEW c \in Everyone, Wake(c) PROVE IInv'
  <1>1. CASE logins[call[c].on].state = "failed" /\ End(c)
    BY <1>1, EndKeeps DEF Wake
  <1>2. CASE logins[call[c].on].state = "over" /\ Granted(c)
    <2>1. call[c] \in Calls /\ call[c].at = "wait" /\ call[c].on \in Logins
      BY DEF Wake, IInv, TypeOK, Calls
    <2>2. sess.client # None
      BY <1>2, <2>1 DEF IInv, Chosen
    <2>3. call[c].retry => sess.gen > call[c].after
      BY <1>2, <2>1 DEF IInv, Newer
    <2> QED
      BY <1>2, <2>2, <2>3, GrantedKeeps DEF Wake
  <1> QED
    BY <1>1, <1>2 DEF Wake

\* What a single attempt and the session may become, each column of it.
LEMMA AttemptColumns ==
  ASSUME TypeOK, NEW i \in Logins, NEW a \in Attempts, logins' = [logins EXCEPT ![i] = a]
  PROVE  /\ logins' \in [Logins -> Attempts]
         /\ logins'[i] = a
         /\ \A l \in Logins : l # i => logins'[l] = logins[l]
  BY DEF TypeOK

\* ensure with neither: the new attempt is the only one pending.
LEMMA EnsureLogsInKeeps == ASSUME IInv, NEW c \in Everyone, EnsureLogsIn(c) PROVE IInv'
  <1>1. PICK i \in Logins : i = Fresh /\ logins[i].state = "none"
    BY FreshIsNew DEF EnsureLogsIn
  <1> DEFINE a == [logins[i] EXCEPT !.state = "asked"]
             s == [sess EXCEPT !.inflight = i]
             k == [call[c] EXCEPT !.at = "wait", !.on = i]
  <1>2. logins[i] \in Attempts /\ sess \in Sessions /\ call[c] \in Calls
    BY DEF IInv, TypeOK
  <1>3. a \in Attempts /\ a.state = "asked" /\ a.live = logins[i].live /\ a.denied = logins[i].denied
    BY <1>2 DEF Attempts
  <1>4. s \in Sessions /\ s.inflight = i /\ s.client = sess.client /\ s.gen = sess.gen /\ s.ready = sess.ready
    BY <1>2 DEF Sessions
  <1>5. k \in Calls /\ k.at = "wait" /\ k.on = i /\ k.retry = call[c].retry /\ k.after = call[c].after
    BY <1>2, NoneAssumption DEF Calls
  <1>6. logins' = [logins EXCEPT ![i] = a]
    BY <1>1, <1>2 DEF EnsureLogsIn, Attempts, IInv, TypeOK
  <1>7. sess' = s /\ call' = [call EXCEPT ![c] = k]
    BY <1>1, <1>2 DEF EnsureLogsIn, Wait, IInv, TypeOK, Calls
  <1>8. UNCHANGED <<phase, leaving, begun, idled>> /\ ~sess.ready /\ sess.inflight = None /\ call[c].at = "ensure"
    BY DEF EnsureLogsIn
  <1> HIDE DEF a, s, k
  <1>9. /\ logins' \in [Logins -> Attempts] /\ logins'[i] = a
        /\ \A l \in Logins : l # i => logins'[l] = logins[l]
    BY <1>3, <1>6, AttemptColumns DEF IInv
  <1>10. call'[c] = k /\ \A d \in Everyone : d # c => call'[d] = call[d]
    BY <1>7 DEF IInv, TypeOK
  <1>11. TypeOK'
    BY <1>4, <1>5, <1>7, <1>8, <1>9 DEF IInv, TypeOK
  <1>12. Flight'
    BY <1>3, <1>4, <1>7, <1>8, <1>9, NoneAssumption DEF IInv, Flight, Pending
  <1>13. Chosen' /\ Dropped'
    BY <1>1, <1>2, <1>3, <1>4, <1>7, <1>8, <1>9 DEF IInv, Chosen, Dropped, Sessions
  <1>14. ASSUME NEW d \in Everyone PROVE Held(d)' /\ Newer(d)'
    <2>1. call[d] \in Calls
      BY DEF IInv, TypeOK
    <2>2. CASE d = c
      BY <1>3, <1>4, <1>5, <1>7, <1>8, <1>9, <1>10, <2>2 DEF IInv, Held, Newer
    <2>3. CASE d # c
      <3>1. call'[d] = call[d]
        BY <1>10, <2>3
      <3>2. Held(d)'
        BY <1>1, <1>3, <1>4, <1>7, <1>9, <2>1, <3>1 DEF IInv, Held, Calls
      <3>3. Newer(d)'
        BY <1>3, <1>4, <1>7, <1>9, <2>1, <3>1 DEF IInv, Newer, Calls
      <3> QED
        BY <3>2, <3>3
    <2> QED
      BY <2>2, <2>3
  <1> QED
    BY <1>11, <1>12, <1>13, <1>14 DEF IInv

\* A denial is remembered, and never forgotten.
LEMMA AnswerKeeps == ASSUME IInv, NEW c \in Everyone, Answer(c) PROVE IInv'
  <1> DEFINE i == call[c].client
  <1>1. PICK denied \in BOOLEAN :
          /\ logins' = [logins EXCEPT ![i].denied = @ \/ denied]
          /\ call' = [call EXCEPT ![c].at = "reply", ![c].denied = denied]
    BY DEF Answer
  <1>2. call[c] \in Calls /\ call[c].at = "send" /\ UNCHANGED <<sess, phase, leaving, begun, idled>>
    BY DEF IInv, TypeOK, Answer
  <1>3. i \in Logins
    BY <1>2 DEF Calls
  <1>4. logins[i] \in Attempts /\ sess \in Sessions
    BY <1>3 DEF IInv, TypeOK
  <1> DEFINE a == [logins[i] EXCEPT !.denied = logins[i].denied \/ denied]
             k == [call[c] EXCEPT !.at = "reply", !.denied = denied]
  <1>5. a \in Attempts /\ a.state = logins[i].state /\ a.live = logins[i].live /\ (a.denied <=> logins[i].denied \/ denied)
    BY <1>4 DEF Attempts
  <1>6. /\ k \in Calls /\ k.at = "reply" /\ k.denied = denied /\ k.client = i
        /\ k.gen = call[c].gen /\ k.retry = call[c].retry /\ k.after = call[c].after
    BY <1>2 DEF Calls
  <1>7. logins' = [logins EXCEPT ![i] = a] /\ call' = [call EXCEPT ![c] = k]
    BY <1>1, <1>2, <1>3, <1>4 DEF IInv, TypeOK, Calls, Attempts
  <1> HIDE DEF a, k, i
  <1>8. /\ logins' \in [Logins -> Attempts] /\ logins'[i] = a
        /\ \A l \in Logins : l # i => logins'[l] = logins[l]
    BY <1>3, <1>5, <1>7, AttemptColumns DEF IInv
  <1>9. call'[c] = k /\ \A d \in Everyone : d # c => call'[d] = call[d]
    BY <1>7 DEF IInv, TypeOK
  <1>10. \A l \in Logins : logins'[l].state = logins[l].state /\ logins'[l].live = logins[l].live
                            /\ (logins[l].denied => logins'[l].denied)
    BY <1>3, <1>5, <1>8
  <1>11. TypeOK'
    BY <1>2, <1>6, <1>7, <1>8 DEF IInv, TypeOK
  <1>12. Flight' /\ Chosen' /\ Dropped'
    BY <1>2, <1>4, <1>10 DEF IInv, Flight, Chosen, Dropped, Pending, Sessions
  <1>13. ASSUME NEW d \in Everyone PROVE Held(d)' /\ Newer(d)'
    <2>1. call[d] \in Calls
      BY DEF IInv, TypeOK
    <2>2. CASE d = c
      <3>1. call'[d] = k /\ call[d].at = "send" /\ call[c].client = i
        BY <1>2, <1>9, <2>2 DEF i
      <3> QED
        BY <1>2, <1>5, <1>6, <1>8, <2>2, <3>1 DEF IInv, Held, Newer
    <2>3. CASE d # c
      <3>1. call'[d] = call[d]
        BY <1>9, <2>3
      <3> QED
        BY <1>2, <1>10, <2>1, <3>1 DEF IInv, Held, Newer, Calls
    <2> QED
      BY <2>2, <2>3
  <1> QED
    BY <1>11, <1>12, <1>13 DEF IInv

\* The generation check: a session goes unready only if this caller was denied
\* by it, and not by one before it.
LEMMA RetryKeeps == ASSUME IInv, NEW c \in Everyone, Retry(c) PROVE IInv'
  <1> DEFINE s == [sess EXCEPT !.ready = sess.ready /\ sess.gen # call[c].gen]
             k == [Idle EXCEPT !.at = "ensure", !.retry = TRUE, !.after = call[c].gen]
  <1>1. sess \in Sessions /\ call[c] \in Calls
    BY DEF IInv, TypeOK
  <1>2. /\ call[c].at = "reply" /\ call[c].denied
        /\ UNCHANGED <<logins, phase, leaving, begun, idled>>
    BY DEF Retry
  <1>3. /\ s \in Sessions /\ s.client = sess.client /\ s.gen = sess.gen /\ s.inflight = sess.inflight
        /\ (s.ready <=> sess.ready /\ sess.gen # call[c].gen)
    BY <1>1 DEF Sessions
  <1>4. k \in Calls /\ k.at = "ensure" /\ k.retry /\ k.after = call[c].gen
    BY <1>1 DEF Calls, Idle
  <1>5. sess' = s /\ call' = [call EXCEPT ![c] = k]
    BY <1>1 DEF Retry, Expire, Sessions
  <1>6. call[c].gen <= sess.gen /\ (call[c].gen = sess.gen => call[c].client = sess.client)
        /\ logins[call[c].client].denied
    BY <1>2 DEF IInv, Held
  <1> HIDE DEF s, k
  <1>7. call'[c] = k /\ \A d \in Everyone : d # c => call'[d] = call[d]
    BY <1>5 DEF IInv, TypeOK
  <1>8. TypeOK'
    BY <1>2, <1>3, <1>4, <1>5 DEF IInv, TypeOK
  <1>9. Flight' /\ Chosen'
    BY <1>2, <1>3, <1>5 DEF IInv, Flight, Chosen, Pending
  <1>10. Dropped'
    BY <1>2, <1>3, <1>5, <1>6 DEF IInv, Dropped
  <1>11. ASSUME NEW d \in Everyone PROVE Held(d)' /\ Newer(d)'
    <2>1. CASE d = c
      <3>1. call'[d] = k
        BY <1>7, <2>1
      <3>2. sess.gen \in Nat /\ call[c].gen \in Nat
        BY <1>1 DEF Sessions, Calls
      <3> QED
        BY <1>3, <1>4, <1>5, <1>6, <3>1, <3>2 DEF Held, Newer
    <2>2. CASE d # c
      <3>1. call'[d] = call[d]
        BY <1>7, <2>2
      <3> QED
        BY <1>2, <1>3, <1>5, <3>1 DEF IInv, Held, Newer
    <2> QED
      BY <2>1, <2>2
  <1> QED
    BY <1>8, <1>9, <1>10, <1>11 DEF IInv

\* A login that succeeds replaces a session that denied somebody.
LEMMA LoggedInKeeps == ASSUME IInv, NEW i \in Logins, LoggedIn(i) PROVE IInv'
  <1> DEFINE a == [logins[i] EXCEPT !.state = "over", !.live = TRUE]
  <1>1. logins[i] \in Attempts /\ sess \in Sessions
    BY DEF IInv, TypeOK
  <1>2. a \in Attempts /\ a.state = "over" /\ a.denied = logins[i].denied
    BY <1>1 DEF Attempts
  <1>3. logins' = [logins EXCEPT ![i] = a]
    BY <1>1 DEF LoggedIn, Attempts, IInv, TypeOK
  <1>4. Pending(i) /\ UNCHANGED <<call, phase, leaving, begun, idled>>
    BY DEF LoggedIn
  <1>5. /\ sess' \in Sessions /\ sess'.client = i /\ sess'.gen = sess.gen + 1 /\ sess'.ready /\ sess'.inflight = None
    BY <1>1, NoneAssumption DEF LoggedIn, Sessions
  <1> HIDE DEF a
  <1>6. /\ logins' \in [Logins -> Attempts] /\ logins'[i] = a
        /\ \A l \in Logins : l # i => logins'[l] = logins[l]
    BY <1>2, <1>3, AttemptColumns DEF IInv
  <1>7. sess.inflight = i /\ ~sess.ready
    BY <1>4, NoneAssumption DEF IInv, Flight
  <1>8. TypeOK'
    BY <1>4, <1>5, <1>6 DEF IInv, TypeOK
  <1>9. Flight'
    BY <1>2, <1>5, <1>6, <1>7, NoneAssumption DEF IInv, Flight, Pending
  <1>10. Chosen'
    BY <1>2, <1>5, <1>6, NoneAssumption DEF IInv, Chosen
  <1>11. Dropped'
    <2>1. sess.client # i
      BY <1>4, NoneAssumption DEF IInv, Chosen, Pending
    <2>2. ASSUME phase = "serving", NEW l \in Logins, l # i, logins[l].live, ~logins[l].denied PROVE FALSE
      BY <1>7, <2>2, NoneAssumption DEF IInv, Dropped
    <2> QED
      BY <1>4, <1>5, <1>6, <2>2 DEF Dropped
  <1>12. ASSUME NEW c \in Everyone PROVE Held(c)' /\ Newer(c)'
    <2>1. call[c] \in Calls /\ sess.gen \in Nat
      BY <1>1 DEF IInv, TypeOK, Sessions
    <2>2. call[c].gen \in Nat /\ call[c].after \in Nat
      BY <2>1 DEF Calls
    <2>3. call[c].at \in {"send", "reply"} => call[c].client \in Logins
      BY <2>1 DEF Calls
    <2>4. Held(c)'
      BY <1>2, <1>4, <1>5, <1>6, <2>1, <2>2, <2>3 DEF IInv, Held
    <2>5. Newer(c)'
      BY <1>4, <1>5, <2>1, <2>2 DEF IInv, Newer
    <2> QED
      BY <2>4, <2>5
  <1> QED
    BY <1>8, <1>9, <1>10, <1>11, <1>12 DEF IInv

\* A login that fails leaves the session as it was.
LEMMA LoginFailsKeeps == ASSUME IInv, NEW i \in Logins, LoginFails(i) PROVE IInv'
  <1> DEFINE a == [state |-> "failed", live |-> FALSE, denied |-> FALSE]
             s == [sess EXCEPT !.inflight = None]
  <1>1. sess \in Sessions /\ a \in Attempts
    BY DEF IInv, TypeOK, Attempts
  <1>2. s \in Sessions /\ s.client = sess.client /\ s.gen = sess.gen /\ s.ready = sess.ready /\ s.inflight = None
    BY <1>1 DEF Sessions
  <1>3. /\ sess' = s /\ logins' = [logins EXCEPT ![i] = a] /\ Pending(i)
        /\ UNCHANGED <<call, phase, leaving, begun, idled>>
    BY DEF LoginFails
  <1>4. a.state = "failed" /\ ~a.live
    OBVIOUS
  <1> HIDE DEF a, s
  <1>5. /\ logins' \in [Logins -> Attempts] /\ logins'[i] = a
        /\ \A l \in Logins : l # i => logins'[l] = logins[l]
    BY <1>1, <1>3, AttemptColumns DEF IInv
  <1>6. sess.client # i
    BY <1>3, NoneAssumption DEF IInv, Chosen, Pending
  <1>7. TypeOK'
    BY <1>2, <1>3, <1>5 DEF IInv, TypeOK
  <1>8. Flight'
    BY <1>2, <1>3, <1>4, <1>5, NoneAssumption DEF IInv, Flight, Pending
  <1>9. Chosen' /\ Dropped'
    BY <1>1, <1>2, <1>3, <1>4, <1>5, <1>6 DEF IInv, Chosen, Dropped, Sessions
  <1>10. ASSUME NEW c \in Everyone PROVE Held(c)' /\ Newer(c)'
    <2>1. call[c] \in Calls
      BY DEF IInv, TypeOK
    <2>2. call[c].at \in {"send", "reply"} => call[c].client \in Logins
      BY <2>1 DEF Calls
    <2>3. call[c].at = "wait" => call[c].on \in Logins
      BY <2>1 DEF Calls
    <2>4. call[c].at \in {"send", "reply"} => call[c].client # i
      BY <1>3 DEF IInv, Held, Pending
    <2> QED
      BY <1>2, <1>3, <1>4, <1>5, <2>2, <2>3, <2>4 DEF IInv, Held, Newer
  <1> QED
    BY <1>7, <1>8, <1>9, <1>10 DEF IInv

\* A session that dies, at SAP's will or by the agent's logout.
LEMMA DeathKeeps ==
  ASSUME IInv, NEW i \in Logins, logins' = [logins EXCEPT ![i].live = FALSE],
         UNCHANGED <<sess, call, phase, begun>>, leaving' \in Logins \cup {None}, idled' \in Nat
  PROVE  IInv'
  <1> DEFINE a == [logins[i] EXCEPT !.live = FALSE]
  <1>1. logins[i] \in Attempts
    BY DEF IInv, TypeOK
  <1>2. a \in Attempts /\ a.state = logins[i].state /\ a.denied = logins[i].denied /\ ~a.live
    BY <1>1 DEF Attempts
  <1>3. logins' = [logins EXCEPT ![i] = a]
    BY <1>1 DEF Attempts, IInv, TypeOK
  <1> HIDE DEF a
  <1>4. /\ logins' \in [Logins -> Attempts] /\ logins'[i] = a
        /\ \A l \in Logins : l # i => logins'[l] = logins[l]
    BY <1>2, <1>3, AttemptColumns DEF IInv
  <1>5. \A l \in Logins : logins'[l].state = logins[l].state /\ logins'[l].denied = logins[l].denied
                           /\ (logins'[l].live => logins[l].live)
    BY <1>2, <1>4
  <1>6. TypeOK'
    BY <1>4 DEF IInv, TypeOK
  <1>7. sess \in Sessions
    BY DEF IInv, TypeOK
  <1>8. Flight' /\ Chosen' /\ Dropped'
    BY <1>5, <1>7 DEF IInv, Flight, Chosen, Dropped, Pending, Sessions
  <1>9. ASSUME NEW c \in Everyone PROVE Held(c)' /\ Newer(c)'
    <2>1. call[c] \in Calls
      BY DEF IInv, TypeOK
    <2>2. /\ call[c].at \in {"send", "reply"} => call[c].client \in Logins
          /\ call[c].at = "wait" => call[c].on \in Logins
      BY <2>1 DEF Calls
    <2> QED
      BY <1>5, <2>2 DEF IInv, Held, Newer
  <1> QED
    BY <1>6, <1>8, <1>9 DEF IInv

\* Logout makes the session unready without a denial, and ends the serving.
LEMMA LogoutKeeps == ASSUME IInv, Logout PROVE IInv'
  <1>1. sess \in Sessions
    BY DEF IInv, TypeOK
  <1>2. /\ sess' \in Sessions /\ sess'.client = sess.client /\ sess'.gen = sess.gen
        /\ sess'.inflight = sess.inflight /\ ~sess'.ready
    BY <1>1 DEF Logout, Sessions
  <1>3. UNCHANGED <<logins, call, begun, idled>> /\ phase' = "logout"
    BY DEF Logout
  <1>4. leaving' \in Logins \cup {None}
    BY <1>1 DEF Logout, Sessions
  <1>5. TypeOK'
    BY <1>2, <1>3, <1>4 DEF IInv, TypeOK
  <1>6. (Flight /\ Chosen /\ Dropped)'
    BY <1>2, <1>3 DEF IInv, Flight, Chosen, Dropped, Pending
  <1>7. \A c \in Everyone : Held(c)' /\ Newer(c)'
    BY <1>2, <1>3 DEF IInv, Held, Newer
  <1> QED
    BY <1>5, <1>6, <1>7 DEF IInv

-----------------------------------------------------------------------------
(* The theorems *)

\* Every step of a caller, of a login, of SAP and of the stop keeps the invariant.
LEMMA StepIInv == IInv /\ [Next]_vars => IInv'
  <1> SUFFICES ASSUME IInv, [Next]_vars PROVE IInv'
    OBVIOUS
  <1>1. ASSUME NEW c \in Everyone, Begin(c) PROVE IInv'
    BY <1>1, BeginKeeps
  <1>2. ASSUME NEW c \in Everyone, Step(c) PROVE IInv'
    <2>1. CASE EnsureReady(c)
      BY <2>1, EnsureReadyKeeps
    <2>2. CASE EnsureJoins(c)
      BY <2>2, EnsureJoinsKeeps
    <2>3. CASE EnsureLogsIn(c)
      BY <2>3, EnsureLogsInKeeps
    <2>4. CASE Wake(c)
      BY <2>4, WakeKeeps
    <2>5. CASE Answer(c)
      BY <2>5, AnswerKeeps
    <2>6. CASE NoAnswer(c)
      BY <2>6, EndKeeps DEF NoAnswer
    <2>7. CASE Retry(c)
      BY <2>7, RetryKeeps
    <2>8. CASE Reply(c)
      BY <2>8, EndKeeps DEF Reply
    <2> QED
      BY <1>2, <2>1, <2>2, <2>3, <2>4, <2>5, <2>6, <2>7, <2>8 DEF Step
  <1>3. ASSUME NEW i \in Logins, LoggedIn(i) PROVE IInv'
    BY <1>3, LoggedInKeeps
  <1>4. ASSUME NEW i \in Logins, LoginFails(i) PROVE IInv'
    BY <1>4, LoginFailsKeeps
  <1>5. ASSUME NEW i \in Logins, SapExpires(i) PROVE IInv'
    <2>1. UNCHANGED <<sess, call, phase, begun>> /\ leaving' \in Logins \cup {None} /\ idled' \in Nat
      BY <1>5 DEF SapExpires, IInv, TypeOK
    <2>2. logins' = [logins EXCEPT ![i].live = FALSE]
      BY <1>5 DEF SapExpires
    <2> QED
      BY <2>1, <2>2, DeathKeeps
  <1>6. CASE Logout
    BY <1>6, LogoutKeeps
  <1>7. CASE LoggedOut
    <2>1. leaving \in Logins /\ leaving' = None /\ UNCHANGED <<sess, call, phase, begun, idled>>
          /\ logins' = [logins EXCEPT ![leaving].live = FALSE]
      BY <1>7 DEF LoggedOut, IInv, TypeOK
    <2> QED
      BY <2>1, DeathKeeps DEF IInv, TypeOK
  <1>8. CASE UNCHANGED vars
    BY <1>8 DEF vars, IInv, TypeOK, Flight, Chosen, Dropped, Held, Newer, Pending
  <1> QED
    BY <1>1, <1>2, <1>3, <1>4, <1>5, <1>6, <1>7, <1>8 DEF Next, Settle

\* The invariant holds throughout.
LEMMA Invariance == Spec => []IInv
  <1> QED
    BY InitIInv, StepIInv, PTL DEF Spec

\* Every reachable state of the agent's session is well-formed.
THEOREM TypeCorrect == Spec => []TypeOK
  <1>1. IInv => TypeOK
    BY DEF IInv
  <1> QED
    BY <1>1, Invariance, PTL

\* However many callers and logins there are, while the agent serves it holds
\* at most one session that has not denied anybody.
THEOREM OneLicenceSlot == Spec => []OneSlot
  <1>1. IInv => OneSlot
    BY DEF IInv, Dropped, OneSlot
  <1> QED
    BY <1>1, Invariance, PTL

\* A retry never uses the session that was denied, nor an older one.
THEOREM RetriesMoveOn == Spec => []RetriedOnNewer
  <1>1. IInv => RetriedOnNewer
    BY DEF IInv, Newer, RetriedOnNewer, Everyone
  <1> QED
    BY <1>1, Invariance, PTL

\* Only a denial renews the session: one expiry is one login.
THEOREM OneLoginPerExpiry == Spec => RenewedOnDenial
  <1> DEFINE A == sess'.client # sess.client /\ sess.client # None /\ phase # "logout" => logins[sess.client].denied
  <1>1. IInv /\ [Next]_vars => [A]_vars
    <2> SUFFICES ASSUME IInv, Next, sess'.client # sess.client, sess.client # None, phase # "logout"
                 PROVE logins[sess.client].denied
      OBVIOUS
    <2>1. sess \in Sessions /\ phase = "serving"
      BY DEF IInv, TypeOK
    <2>2. PICK i \in Logins : LoggedIn(i)
      <3>1. ASSUME NEW c \in Everyone, Begin(c) \/ Step(c) PROVE sess'.client = sess.client
        BY <2>1, <3>1 DEF Begin, Step, EnsureReady, EnsureJoins, EnsureLogsIn, Wake, Answer, NoAnswer, Retry, Expire,
                          Reply, Sessions
      <3>2. ASSUME NEW i \in Logins, LoginFails(i) \/ SapExpires(i) PROVE sess'.client = sess.client
        BY <2>1, <3>2 DEF LoginFails, SapExpires, Sessions
      <3>3. ~Logout /\ ~LoggedOut
        BY <2>1 DEF Logout, LoggedOut, Sessions
      <3> QED
        BY <3>1, <3>2, <3>3 DEF Next, Settle
    <2>3. ~sess.ready
      BY <2>2, NoneAssumption DEF LoggedIn, IInv, Flight
    <2> QED
      BY <2>1, <2>3 DEF IInv, Dropped
  <1> QED
    BY <1>1, Invariance, PTL DEF Spec, RenewedOnDenial
=============================================================================
