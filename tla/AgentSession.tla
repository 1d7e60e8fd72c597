---------------------------- MODULE AgentSession ----------------------------
(***************************************************************************)
(* One SAP session of the agent (apps/agent/session.go), shared by every   *)
(* request that reaches the agent: the login that many callers wait for,   *)
(* the generation that keeps an old denial from dropping a new session,    *)
(* the one retry of a call, and the logout when the agent stops.           *)
(*                                                                         *)
(* A login attempt and the SAP session it makes have one name: both end    *)
(* up in the cookie jar of one http.Client.  SAP holds a licence slot for  *)
(* each session that is alive.                                             *)
(***************************************************************************)
EXTENDS Naturals, FiniteSets

CONSTANTS
  Callers,   \* the goroutines that serve requests
  Starter,   \* serve's goroutine that logs in when the agent starts
  Logins,    \* login attempts, and the sessions they make
  None,
  MaxCalls,  \* bound: requests the agent is sent
  MaxIdled   \* bound: sessions SAP idles out

ASSUME StarterAssumption == Starter \notin Callers
ASSUME NoneAssumption == None \notin Logins

VARIABLES
  sess,     \* the Session: client, gen, ready, inflight
  logins,   \* each attempt, and what SAP holds for it
  call,     \* each caller inside Do or ensure
  phase,    \* how far the agent has stopped
  leaving,  \* the session Logout gives back
  begun,    \* requests so far
  idled     \* sessions idled out so far

vars == <<sess, logins, call, phase, leaving, begun, idled>>

Everyone == Callers \cup {Starter}

Sessions ==
  {s \in [client : Logins \cup {None}, gen : Nat, ready : BOOLEAN, inflight : Logins \cup {None}] :
     s.ready => s.client # None}

\* "asked": the POST to SAP is under way.
Attempts == [state : {"none", "asked", "over", "failed"}, live : BOOLEAN, denied : BOOLEAN]

\* "after" is the generation whose denial made this call a retry.
Calls ==
  {k \in [at : {"idle", "ensure", "wait", "send", "reply"}, on : Logins \cup {None}, client : Logins \cup {None},
          gen : Nat, retry : BOOLEAN, after : Nat, denied : BOOLEAN] :
     /\ k.at = "wait" => k.on # None
     /\ k.at \in {"send", "reply"} => k.client # None}

Idle == [at |-> "idle", on |-> None, client |-> None, gen |-> 0, retry |-> FALSE, after |-> 0, denied |-> FALSE]

TypeOK ==
  /\ sess \in Sessions
  /\ logins \in [Logins -> Attempts]
  /\ call \in [Everyone -> Calls]
  /\ phase \in {"serving", "logout"}
  /\ leaving \in Logins \cup {None}
  /\ begun \in Nat /\ idled \in Nat

Pending(i) == logins[i].state = "asked"

\* The next attempt.
Fresh == CHOOSE i \in Logins : logins[i].state = "none"

Init ==
  /\ sess = [client |-> None, gen |-> 0, ready |-> FALSE, inflight |-> None]
  /\ logins = [i \in Logins |-> [state |-> "none", live |-> FALSE, denied |-> FALSE]]
  /\ call = [c \in Everyone |-> IF c = Starter THEN [Idle EXCEPT !.at = "ensure"] ELSE Idle]
  /\ phase = "serving" /\ leaving = None /\ begun = 0 /\ idled = 0

-----------------------------------------------------------------------------
(* A caller *)

End(c) == call' = [call EXCEPT ![c] = Idle]

Begin(c) ==
  /\ c \in Callers /\ phase = "serving" /\ call[c].at = "idle" /\ begun < MaxCalls
  /\ call' = [call EXCEPT ![c] = [Idle EXCEPT !.at = "ensure"]]
  /\ begun' = begun + 1
  /\ UNCHANGED <<sess, logins, phase, leaving, idled>>

\* ensure's answer: the client and its generation, read together.
Granted(c) ==
  IF c = Starter THEN End(c)
  ELSE call' = [call EXCEPT ![c].at = "send", ![c].on = None, ![c].client = sess.client, ![c].gen = sess.gen]

Wait(c, i) == call' = [call EXCEPT ![c].at = "wait", ![c].on = i]

EnsureReady(c) ==
  /\ call[c].at = "ensure" /\ sess.ready
  /\ Granted(c)
  /\ UNCHANGED <<sess, logins, phase, leaving, begun, idled>>

\* Mutant: every caller that finds no session logs in.
EnsureJoinsNone(c) ==
  /\ call[c].at = "ensure" /\ ~sess.ready /\ sess.inflight # None
  /\ \E i \in Logins : logins[i].state = "none"
  /\ logins' = [logins EXCEPT ![Fresh].state = "asked"] /\ sess' = [sess EXCEPT !.inflight = Fresh] /\ Wait(c, Fresh)
  /\ UNCHANGED <<phase, leaving, begun, idled>>

\* Somebody's login is in flight: this caller waits for it too.
EnsureJoins(c) ==
  /\ call[c].at = "ensure" /\ ~sess.ready /\ sess.inflight # None
  /\ Wait(c, sess.inflight)
  /\ UNCHANGED <<sess, logins, phase, leaving, begun, idled>>

EnsureLogsIn(c) ==
  /\ call[c].at = "ensure" /\ ~sess.ready /\ sess.inflight = None
  /\ \E i \in Logins : logins[i].state = "none"
  /\ logins' = [logins EXCEPT ![Fresh].state = "asked"]
  /\ sess' = [sess EXCEPT !.inflight = Fresh]
  /\ Wait(c, Fresh)
  /\ UNCHANGED <<phase, leaving, begun, idled>>

\* Mutant: only a login that succeeds is announced.
WakeOnSuccess(c) ==
  /\ call[c].at = "wait" /\ logins[call[c].on].state = "over" /\ Granted(c)
  /\ UNCHANGED <<sess, logins, phase, leaving, begun, idled>>

\* The login this caller waited for is over.  What it reads now may already be
\* expired, or a later login's.
Wake(c) ==
  /\ call[c].at = "wait"
  /\ \/ logins[call[c].on].state = "failed" /\ End(c)
     \/ logins[call[c].on].state = "over" /\ Granted(c)
  /\ UNCHANGED <<sess, logins, phase, leaving, begun, idled>>

\* SAP answers 401 for a session it no longer has, and may answer 403 for one
\* it has.
Answer(c) ==
  /\ call[c].at = "send"
  /\ \E denied \in BOOLEAN :
       /\ ~logins[call[c].client].live => denied
       /\ logins' = [logins EXCEPT ![call[c].client].denied = @ \/ denied]
       /\ call' = [call EXCEPT ![c].at = "reply", ![c].denied = denied]
  /\ UNCHANGED <<sess, phase, leaving, begun, idled>>

\* The service did not answer: a 503, without a retry.
NoAnswer(c) ==
  /\ call[c].at = "send"
  /\ End(c)
  /\ UNCHANGED <<sess, logins, phase, leaving, begun, idled>>

\* Mutant: a denial drops whatever session there is.
ExpireAny(gen) == sess' = [sess EXCEPT !.ready = FALSE]

\* Mutant: a comparison one off, which drops nothing.
ExpireNewer(gen) == sess' = [sess EXCEPT !.ready = @ /\ sess.gen >= gen]

\* Drops the session a denial answered, unless a newer one replaced it.
Expire(gen) == sess' = [sess EXCEPT !.ready = @ /\ sess.gen # gen]

Retry(c) ==
  /\ call[c].at = "reply" /\ call[c].denied /\ ~call[c].retry
  /\ Expire(call[c].gen)
  /\ call' = [call EXCEPT ![c] = [Idle EXCEPT !.at = "ensure", !.retry = TRUE, !.after = call[c].gen]]
  /\ UNCHANGED <<logins, phase, leaving, begun, idled>>

Reply(c) ==
  /\ call[c].at = "reply" /\ (call[c].denied => call[c].retry)
  /\ End(c)
  /\ UNCHANGED <<sess, logins, phase, leaving, begun, idled>>

-----------------------------------------------------------------------------
(* A login, on a goroutine of its own *)

LoggedIn(i) ==
  /\ Pending(i)
  /\ sess' = [client |-> i, gen |-> sess.gen + 1, ready |-> TRUE, inflight |-> None]
  /\ logins' = [logins EXCEPT ![i].state = "over", ![i].live = TRUE]
  /\ UNCHANGED <<call, phase, leaving, begun, idled>>

\* Refused, unreachable, or SAP's answer is lost and the client times out.  A
\* session SAP made for it is out of everybody's reach, and not followed.
LoginFails(i) ==
  /\ Pending(i)
  /\ sess' = [sess EXCEPT !.inflight = None]
  /\ logins' = [logins EXCEPT ![i] = [state |-> "failed", live |-> FALSE, denied |-> FALSE]]
  /\ UNCHANGED <<call, phase, leaving, begun, idled>>

\* B1 idles a session out.
SapExpires(i) ==
  /\ logins[i].live /\ idled < MaxIdled
  /\ logins' = [logins EXCEPT ![i].live = FALSE]
  /\ idled' = idled + 1
  /\ UNCHANGED <<sess, call, phase, leaving, begun>>

-----------------------------------------------------------------------------
(* Stopping *)

\* The server has stopped taking requests and has waited until those it has are
\* done, or five seconds: a stretch of serving in which none begins.  The process
\* ends once SAP answered or ten seconds have passed; calls that still
\* run may go on until then.
Logout ==
  /\ phase = "serving" /\ phase' = "logout"
  /\ leaving' = IF sess.ready THEN sess.client ELSE None
  /\ sess' = [sess EXCEPT !.ready = FALSE]
  /\ UNCHANGED <<logins, call, begun, idled>>

LoggedOut ==
  /\ phase = "logout" /\ leaving # None
  /\ logins' = [logins EXCEPT ![leaving].live = FALSE]
  /\ leaving' = None
  /\ UNCHANGED <<sess, call, phase, begun, idled>>

-----------------------------------------------------------------------------

Step(c) ==
  EnsureReady(c) \/ EnsureJoins(c) \/ EnsureLogsIn(c) \/ Wake(c) \/ Answer(c) \/ NoAnswer(c) \/ Retry(c) \/ Reply(c)

Settle(i) == LoggedIn(i) \/ LoginFails(i)

Next ==
  \/ \E c \in Everyone : Begin(c) \/ Step(c)
  \/ \E i \in Logins : Settle(i) \/ SapExpires(i)
  \/ Logout \/ LoggedOut

Spec == Init /\ [][Next]_vars

\* Every request and every login has a timeout, and goroutines are scheduled; one
\* login runs at a time.
FairSpec == Spec /\ (\A c \in Everyone : WF_vars(Step(c))) /\ WF_vars(\E i \in Logins : Settle(i))

-----------------------------------------------------------------------------
(* Properties *)

\* Licence slots (session.go:76, "N cold requests are one login and one licence
\* slot, not N").  Until the agent logs out it never holds two SAP sessions
\* that both serve it: any other one that lives has answered a denial.
OneSlot ==
  phase = "serving" =>
    \A i, j \in Logins :
      (\A l \in {i, j} : logins[l].live /\ ~logins[l].denied) => i = j

\* The generation check (session.go:77, "never twice for one expiry").  A session
\* is only ever replaced after it denied some call: the callers that learn late
\* of one expiry do not drop the session that replaced it.
RenewedOnDenial ==
  [][sess'.client # sess.client /\ sess.client # None /\ phase # "logout" => logins[sess.client].denied]_vars

\* A retry is worth something: the session it uses is newer than the one that
\* was denied, whatever logins, expiries and a logout came in between.
RetriedOnNewer ==
  \A c \in Callers : call[c].retry /\ call[c].at \in {"send", "reply"} => call[c].gen > call[c].after

\* Nobody waits for a login that is never announced: every call ends.
CallsEnd == \A c \in Everyone : call[c].at # "idle" ~> call[c].at = "idle"

=============================================================================
