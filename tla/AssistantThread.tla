-------------------------- MODULE AssistantThread --------------------------
(* The runs on a user's chat threads (assistant/route.ts, assistant/         *)
(* threads.ts) and the money they spend (assistant/usage.ts): a streamed     *)
(* chat, a reading of files (assistant.ts extract) or a delete takes the     *)
(* thread's five-minute lease, and appends without looking at it again.      *)
EXTENDS Naturals, Sequences, FiniteSets

CONSTANTS
  Threads,   \* a workspace's threads
  Runs,      \* requests; a run's lease id is its own
  MaxCalls,  \* model calls of a chat (12 in the code)
  Limit,     \* the month's limit, in calls
  None

ASSUME ThreadAssumption == /\ MaxCalls \in Nat /\ Limit \in Nat \ {0} /\ IsFiniteSet(Runs)
                           /\ None \notin Runs /\ None \notin Threads

VARIABLES
  thread,  \* [Threads -> ThreadRecords \cup {None}]: None is deleted
  run,     \* the request each run is
  spent    \* ai_usage: this month's calls

vars == <<thread, run, spent>>

(* busy_until and lease_id: the holder, and whether its time has passed.     *)
(* messages holds, for every append, the run it came from.                   *)
ThreadRecords == [holder : Runs \cup {None}, lapsed : BOOLEAN, messages : Seq(Runs)]
ASSUME DeletedAssumption == None \notin ThreadRecords
Kinds == {"chat", "extract", "delete"}
Stages == {"new", "loaded", "turn", "calling", "answered", "saving", "ending",
           "releasing", "done"}
(* late: the lease lapsed since the run took or renewed it. *)
RunRecords == [kind : Kinds \cup {"none"}, at : Stages, on : Threads \cup {None},
               calls : 0..MaxCalls, stored : BOOLEAN, late : BOOLEAN]
New == [kind |-> "none", at |-> "new", on |-> None, calls |-> 0,
        stored |-> TRUE, late |-> FALSE]

OverLimit == spent >= Limit
Exists(t) == thread[t] # None
Holds(r, t) == Exists(t) /\ thread[t].holder = r
(* Between taking the lease and giving it back. *)
Under(r) == run[r].at \notin {"new", "loaded", "done"}
Step(r, at) == run' = [run EXCEPT ![r].at = at]
(* A chat cut short keeps what ran, and the user's turn when nothing did.    *)
Leave(r) == run' = [run EXCEPT ![r].at = "ending",
                               ![r].stored = @ /\ (run[r].kind = "chat" => run[r].calls > 0)]
-----------------------------------------------------------------------------
Init ==
  /\ thread = [t \in Threads |-> [holder |-> None, lapsed |-> FALSE, messages |-> <<>>]]
  /\ run = [r \in Runs |-> New]
  /\ spent = 0

(* The request's checks: the assistant on and within its limit (a delete     *)
(* spends nothing), the thread the user's own.                               *)
Send(r, t, kind) ==
  /\ run[r].at = "new" /\ Exists(t)
  /\ kind = "chat" => ~OverLimit
  /\ run' = [run EXCEPT ![r] = [New EXCEPT !.kind = kind, !.at = "loaded", !.on = t]]
  /\ UNCHANGED <<thread, spent>>

(* takeLease: one UPDATE, refused while another's lease runs.                *)
After(kind) == [chat |-> "turn", extract |-> "answered", delete |-> "ending"][kind]
(* Mutant: a busy thread's lease is taken over. *)
FreeAlways(t) == Exists(t)
Free(t) == Exists(t) /\ (thread[t].holder = None \/ thread[t].lapsed)
TakeLease(r) ==
  LET t == run[r].on IN
  /\ run[r].at = "loaded"
  /\ IF Free(t)
     THEN /\ thread' = [thread EXCEPT ![t].holder = r, ![t].lapsed = FALSE]
          /\ Step(r, After(run[r].kind))
     ELSE Step(r, "done") /\ UNCHANGED thread
  /\ UNCHANGED spent

(* A chat's iteration begins: renewLease, or the run stops. *)
RenewLease(r) ==
  LET t == run[r].on IN
  /\ run[r].at = "turn"
  /\ IF Holds(r, t)
     THEN /\ thread' = [thread EXCEPT ![t].lapsed = FALSE]
          /\ run' = [run EXCEPT ![r].at = "calling", ![r].late = FALSE]
     ELSE Leave(r) /\ UNCHANGED thread
  /\ UNCHANGED spent

(* The model call, metered, and the tools it asked for. *)
Call(r) ==
  /\ run[r].at = "calling" /\ run[r].calls < MaxCalls
  /\ spent' = spent + 1
  /\ run' = [run EXCEPT ![r].at = IF run[r].kind = "chat" THEN "answered" ELSE "ending",
                        ![r].calls = @ + 1, ![r].stored = FALSE]
  /\ UNCHANGED thread

(* onShouldContinue: another call, or the answer was the last.  A reading    *)
(* checks the limit here, before its only call.                              *)
(* Mutant: the limit is checked when a run starts, and not again. *)
MayCallAgain(r) == run[r].calls < MaxCalls
MayCall(r) == run[r].calls < MaxCalls /\ ~OverLimit
Continue(r) ==
  /\ run[r].at = "answered" /\ MayCall(r)
  /\ Step(r, IF run[r].kind = "chat" THEN "saving" ELSE "calling")
  /\ UNCHANGED <<thread, spent>>
Finish(r) ==
  /\ run[r].at = "answered"
  /\ Step(r, "ending")
  /\ UNCHANGED <<thread, spent>>

(* The stream fails or the user goes away. *)
Cut(r) == run[r].at \in {"turn", "calling"} /\ Leave(r) /\ UNCHANGED <<thread, spent>>

(* appendMessages: an UPDATE by the thread's id alone, which finds no row    *)
(* when the thread is deleted.  Its failure is caught, and the messages      *)
(* count as stored either way.                                               *)
Appended(r) ==
  LET t == run[r].on IN
  IF Exists(t) /\ ~run[r].stored
  THEN [thread EXCEPT ![t].messages = Append(@, r)] ELSE thread
Store(r, at) ==
  /\ thread' \in {Appended(r), thread}
  /\ run' = [run EXCEPT ![r].at = at, ![r].stored = TRUE]
  /\ UNCHANGED spent
Save(r) == run[r].at = "saving" /\ Store(r, "turn")
End(r) == run[r].at = "ending" /\ run[r].kind # "delete" /\ Store(r, "releasing")

Delete(r) ==
  /\ run[r].at = "ending" /\ run[r].kind = "delete"
  /\ thread' = [thread EXCEPT ![run[r].on] = None]
  /\ Step(r, "releasing") /\ UNCHANGED spent

(* Mutant: the lease cleared without comparing its id. *)
ReleaseAny(r) ==
  LET t == run[r].on IN
  /\ run[r].at = "releasing"
  /\ thread' = IF Exists(t) THEN [thread EXCEPT ![t].holder = None, ![t].lapsed = FALSE] ELSE thread
  /\ Step(r, "done") /\ UNCHANGED spent
ReleaseLease(r) ==
  LET t == run[r].on IN
  /\ run[r].at = "releasing"
  /\ thread' = IF Holds(r, t) THEN [thread EXCEPT ![t].holder = None, ![t].lapsed = FALSE] ELSE thread
  /\ Step(r, "done") /\ UNCHANGED spent

(* The process dies: the lease stays until it lapses. *)
Crash(r) ==
  /\ run[r].at \notin {"new", "done"} /\ Step(r, "done")
  /\ UNCHANGED <<thread, spent>>

(* Five minutes pass since the lease was taken or renewed. *)
Lapse(t) ==
  /\ Exists(t) /\ thread[t].holder # None /\ ~thread[t].lapsed
  /\ thread' = [thread EXCEPT ![t].lapsed = TRUE]
  /\ run' = [run EXCEPT ![thread[t].holder].late = TRUE]
  /\ UNCHANGED spent

Serve(r) == \/ TakeLease(r) \/ RenewLease(r) \/ Call(r) \/ Continue(r) \/ Finish(r)
            \/ Save(r) \/ End(r) \/ Delete(r) \/ ReleaseLease(r)
Next ==
  \/ \E r \in Runs :
       \/ \E t \in Threads, kind \in Kinds : Send(r, t, kind)
       \/ Serve(r) \/ Cut(r) \/ Crash(r)
  \/ \E t \in Threads : Lapse(t)

Spec == Init /\ [][Next]_vars
-----------------------------------------------------------------------------
TypeOK ==
  /\ thread \in [Threads -> ThreadRecords \cup {None}]
  /\ run \in [Runs -> RunRecords]
  /\ spent \in Nat

(* "Only the holder renews or releases: a run that outlived its lease cannot *)
(* free the next run's", and a delete is "never mid-answer" (threads.ts:106, *)
(* 132-133): a run whose lease did not lapse holds it until it is done,      *)
(* whatever outlived runs do, unless one of those was a delete.              *)
Outlived(d, t) == run[d].kind = "delete" /\ run[d].on = t /\ run[d].late
LeaseKept ==
  \A r \in Runs : Under(r) /\ ~run[r].late =>
    LET t == run[r].on IN
    \/ Holds(r, t)
    \/ ~Exists(t) /\ (run[r].kind = "delete" \/ \E d \in Runs : Outlived(d, t))

(* "refused rather than interleaved into the history" (threads.ts:130): a    *)
(* run goes on writing after another one's messages only when its lease had  *)
(* lapsed or the other's had, between the two.                               *)
RunsApart ==
  [][\A t \in Threads : \A r \in Runs :
       LET old == thread[t].messages IN
       /\ Exists(t) /\ thread'[t] # None /\ thread'[t].messages = Append(old, r)
       /\ \E i \in 1..Len(old) : old[i] = r
       /\ old[Len(old)] # r
       => run[r].late \/ run[old[Len(old)]].late]_vars

(* The month's limit holds up to the one call each run had ahead of it when  *)
(* the limit was reached: "other runs spend meanwhile" (usage.ts:141-143).   *)
SpendBounded == spent < Limit + Cardinality(Runs)
=============================================================================
