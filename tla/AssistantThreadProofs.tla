----------------------- MODULE AssistantThreadProofs ------------------------
(***************************************************************************)
(* Theorems about AssistantThread, for any threads, runs and limits.       *)
(* LeaseKept is inductive beside two facts: a lease names a run on that    *)
(* very thread, late once the lease lapsed; and a delete makes no calls,   *)
(* so it never renews.  RunsApart then rests on what the history says of   *)
(* the runs that wrote it.  SpendBounded is inductive once the calls still *)
(* ahead are counted with those spent.                                     *)
(***************************************************************************)
EXTENDS AssistantThread, TLAPS, FiniteSetTheorems

\* What a run's kind and stage say of each other.
Shape ==
  \A r \in Runs :
    /\ run[r].at = "new" => run[r].kind = "none"
    /\ run[r].at # "new" => run[r].on \in Threads /\ run[r].kind \in Kinds
    /\ run[r].kind = "delete" => run[r].at \in {"loaded", "ending", "releasing", "done"}

\* What a lease says of its holder.
Named ==
  \A t \in Threads : Exists(t) /\ thread[t].holder # None =>
    LET h == thread[t].holder IN
      /\ run[h].on = t /\ run[h].at \notin {"new", "loaded"}
      /\ thread[t].lapsed => run[h].late

LInv == TypeOK /\ Shape /\ Named /\ LeaseKept

-----------------------------------------------------------------------------
(* The types *)

\* A run that has not begun.
LEMMA NewType == New \in RunRecords
  BY ThreadAssumption DEF New, RunRecords, Kinds, Stages

\* At the start no run has begun.
LEMMA InitType == Init => TypeOK
  <1> SUFFICES ASSUME Init PROVE TypeOK
    OBVIOUS
  <1>2. [holder |-> None, lapsed |-> FALSE, messages |-> <<>>] \in ThreadRecords
    BY DEF ThreadRecords
  <1> QED
    BY NewType, <1>2 DEF Init, TypeOK

\* What a run and an existing thread hold.
LEMMA RecordTypes ==
  ASSUME TypeOK
  PROVE  /\ \A r \in Runs : run[r] \in RunRecords
         /\ \A t \in Threads : Exists(t) => thread[t] \in ThreadRecords
  BY DEF TypeOK, Exists

\* A run cut short, and one that appends, keep their types.
LEMMA LeaveType == ASSUME TypeOK, NEW r \in Runs, Leave(r) PROVE run' \in [Runs -> RunRecords]
  <1> DEFINE b == run[r].stored /\ (run[r].kind = "chat" => run[r].calls > 0)
  <1>1. b \in BOOLEAN
    BY RecordTypes DEF RunRecords
  <1>2. run' = [run EXCEPT ![r].at = "ending", ![r].stored = b]
    BY DEF Leave, TypeOK
  <1> HIDE DEF b
  <1> QED
    BY <1>1, <1>2, RecordTypes DEF TypeOK, RunRecords, Stages

\* A message of the run is stored.
LEMMA StoreType == ASSUME TypeOK, NEW r \in Runs, NEW at \in Stages, Store(r, at) PROVE TypeOK'
  <1>1. run' \in [Runs -> RunRecords]
    BY RecordTypes DEF Store, TypeOK, RunRecords
  <1>2. thread' \in [Threads -> ThreadRecords \cup {None}]
    <2>1. CASE thread' = thread
      BY <2>1 DEF TypeOK
    <2>2. CASE Exists(run[r].on) /\ thread' = [thread EXCEPT ![run[r].on].messages = Append(@, r)]
      <3>1. run[r].on \in Threads => Append(thread[run[r].on].messages, r) \in Seq(Runs)
        BY <2>2, RecordTypes DEF ThreadRecords
      <3> QED BY <2>2, <3>1, RecordTypes DEF TypeOK, ThreadRecords
    <2> QED BY <2>1, <2>2 DEF Store, Appended
  <1> QED
    BY <1>1, <1>2 DEF Store, TypeOK

\* Every step of a run, and the passing of time, keep the types.
LEMMA NextType == TypeOK /\ Shape /\ [Next]_vars => TypeOK'
  <1> SUFFICES ASSUME TypeOK, Shape, [Next]_vars PROVE TypeOK'
    OBVIOUS
  <1> USE RecordTypes
  <1>0. ASSUME NEW r \in Runs, NEW t \in Threads, NEW kind \in Kinds, Send(r, t, kind)
        PROVE  TypeOK'
    <2>1. [New EXCEPT !.kind = kind, !.at = "loaded", !.on = t] \in RunRecords
      BY NewType DEF RunRecords, Kinds, Stages
    <2> QED BY <1>0, <2>1 DEF Send, TypeOK
  <1>1. ASSUME NEW r \in Runs, TakeLease(r) PROVE TypeOK'
    <2>1. CASE Free(run[r].on)
      <3>1. thread' \in [Threads -> ThreadRecords \cup {None}]
        BY <1>1, <2>1 DEF TakeLease, Free, TypeOK, ThreadRecords
      <3>2. After(run[r].kind) \in Stages
        BY <1>1 DEF TakeLease, Shape, After, Kinds, Stages
      <3>3. run' \in [Runs -> RunRecords]
        BY <1>1, <2>1, <3>2 DEF TakeLease, TypeOK, Step, RunRecords
      <3> QED BY <1>1, <3>1, <3>3 DEF TakeLease, TypeOK
    <2>2. CASE ~Free(run[r].on)
      <3>1. run' \in [Runs -> RunRecords]
        BY <1>1, <2>2 DEF TakeLease, TypeOK, Step, RunRecords, Stages
      <3> QED BY <1>1, <2>2, <3>1 DEF TakeLease, TypeOK
    <2> QED BY <2>1, <2>2
  <1>2. ASSUME NEW r \in Runs, RenewLease(r) PROVE TypeOK'
    <2>1. CASE Holds(r, run[r].on)
      <3>0. run[r].on \in Threads /\ thread[run[r].on] \in ThreadRecords
        BY <1>2, <2>1 DEF RenewLease, Shape, Holds
      <3>1. thread' \in [Threads -> ThreadRecords \cup {None}]
        <4>1. thread' = [thread EXCEPT ![run[r].on].lapsed = FALSE]
          BY <1>2, <2>1 DEF RenewLease
        <4>2. [thread[run[r].on] EXCEPT !.lapsed = FALSE] \in ThreadRecords
          BY <3>0 DEF ThreadRecords
        <4> QED BY <3>0, <4>1, <4>2 DEF TypeOK
      <3>2. run' \in [Runs -> RunRecords]
        BY <1>2, <2>1 DEF RenewLease, TypeOK, RunRecords, Stages
      <3> QED BY <1>2, <3>1, <3>2 DEF RenewLease, TypeOK
    <2>2. CASE ~Holds(r, run[r].on)
      BY <1>2, <2>2, LeaveType DEF RenewLease, TypeOK
    <2> QED BY <2>1, <2>2
  <1>3. ASSUME NEW r \in Runs, Call(r) PROVE TypeOK'
    <2>1. run[r].calls + 1 \in 0..MaxCalls
      BY <1>3, ThreadAssumption DEF Call, RunRecords
    <2>2. run' \in [Runs -> RunRecords]
      BY <1>3, <2>1 DEF Call, TypeOK, RunRecords, Stages
    <2> QED BY <1>3, <2>2 DEF Call, TypeOK
  <1>4. ASSUME NEW r \in Runs, Continue(r) \/ Finish(r) \/ Crash(r) PROVE TypeOK'
    <2>1. PICK at \in Stages : Step(r, at)
      BY <1>4 DEF Continue, Finish, Crash, Stages
    <2>2. run' \in [Runs -> RunRecords]
      BY <2>1 DEF Step, TypeOK, RunRecords
    <2> QED BY <1>4, <2>2 DEF Continue, Finish, Crash, TypeOK
  <1>5. ASSUME NEW r \in Runs, Cut(r) PROVE TypeOK'
    BY <1>5, LeaveType DEF Cut, TypeOK
  <1>6. ASSUME NEW r \in Runs, Save(r) \/ End(r) PROVE TypeOK'
    BY <1>6, StoreType DEF Save, End, Stages
  <1>7. ASSUME NEW r \in Runs, Delete(r) PROVE TypeOK'
    <2>1. run' \in [Runs -> RunRecords]
      BY <1>7 DEF Delete, Step, TypeOK, RunRecords, Stages
    <2> QED BY <1>7, <2>1 DEF Delete, TypeOK
  <1>8. ASSUME NEW r \in Runs, ReleaseLease(r) PROVE TypeOK'
    <2>1. thread' \in [Threads -> ThreadRecords \cup {None}]
      BY <1>8 DEF ReleaseLease, Holds, TypeOK, ThreadRecords
    <2>2. run' \in [Runs -> RunRecords]
      BY <1>8 DEF ReleaseLease, Step, TypeOK, RunRecords, Stages
    <2> QED BY <1>8, <2>1, <2>2 DEF ReleaseLease, TypeOK
  <1>9. ASSUME NEW t \in Threads, Lapse(t) PROVE TypeOK'
    <2>1. thread' \in [Threads -> ThreadRecords \cup {None}]
      BY <1>9 DEF Lapse, TypeOK, ThreadRecords
    <2>2. run' \in [Runs -> RunRecords]
      BY <1>9 DEF Lapse, TypeOK, RunRecords
    <2> QED BY <1>9, <2>1, <2>2 DEF Lapse, TypeOK
  <1>10. CASE UNCHANGED vars
    BY <1>10 DEF vars, TypeOK
  <1> QED
    BY <1>0, <1>1, <1>2, <1>3, <1>4, <1>5, <1>6, <1>7, <1>8, <1>9, <1>10 DEF Next, Serve

\* A step of r alone keeps its kind and its thread, and a delete calls nothing.
LEMMA ShapeStep ==
  ASSUME TypeOK, Shape, NEW r \in Runs, run[r].at # "new",
         \A q \in Runs \ {r} : run'[q] = run[q],
         run'[r].kind = run[r].kind, run'[r].on = run[r].on, run'[r].at # "new",
         run[r].kind = "delete" => run'[r].at \in {"ending", "releasing", "done"}
  PROVE  Shape'
  BY DEF Shape

\* Every step keeps what a run's stage says of it.
LEMMA NextShape == TypeOK /\ Shape /\ [Next]_vars => Shape'
  <1> SUFFICES ASSUME TypeOK, Shape, [Next]_vars PROVE Shape'
    OBVIOUS
  <1>0. ASSUME NEW r \in Runs, NEW t \in Threads, NEW kind \in Kinds, Send(r, t, kind)
        PROVE  Shape'
    BY <1>0 DEF Send, Shape, TypeOK, New
  <1>1. ASSUME NEW r \in Runs, TakeLease(r) PROVE Shape'
    BY <1>1, ShapeStep DEF TakeLease, Step, After, Shape, TypeOK, RunRecords, Kinds
  <1>2. ASSUME NEW r \in Runs, RenewLease(r) \/ Cut(r) PROVE Shape'
    BY <1>2, ShapeStep DEF RenewLease, Cut, Leave, Shape, TypeOK, RunRecords
  <1>3. ASSUME NEW r \in Runs, Call(r) \/ Continue(r) \/ Finish(r) PROVE Shape'
    BY <1>3, ShapeStep DEF Call, Continue, Finish, Step, Shape, TypeOK, RunRecords
  <1>4. ASSUME NEW r \in Runs, Save(r) \/ End(r) PROVE Shape'
    BY <1>4, ShapeStep DEF Save, End, Store, Shape, TypeOK, RunRecords
  <1>5. ASSUME NEW r \in Runs, Delete(r) \/ ReleaseLease(r) \/ Crash(r) PROVE Shape'
    BY <1>5, ShapeStep DEF Delete, ReleaseLease, Crash, Step, Shape, TypeOK, RunRecords
  <1>6. ASSUME NEW t \in Threads, Lapse(t) PROVE Shape'
    BY <1>6 DEF Lapse, Shape, TypeOK, RunRecords
  <1>7. CASE UNCHANGED vars
    BY <1>7 DEF vars, Shape
  <1> QED
    BY <1>0, <1>1, <1>2, <1>3, <1>4, <1>5, <1>6, <1>7 DEF Next, Serve

\* No run has begun.
LEMMA InitShape == Init => Shape
  BY DEF Init, Shape, New

\* The columns and the runs keep their types.
THEOREM TypeCorrect == Spec => []TypeOK
  BY InitType, InitShape, NextType, NextShape, PTL DEF Spec

-----------------------------------------------------------------------------
(* The lease *)

\* A step of r alone that takes no lease and renews none: what r is, and
\* what the leases say, stay.
LEMMA RunStep ==
  ASSUME LInv, TypeOK', NEW r \in Runs, run[r].at # "new",
         \A q \in Runs \ {r} : run'[q] = run[q],
         run'[r].kind = run[r].kind, run'[r].on = run[r].on, run'[r].late = run[r].late,
         run'[r].at \notin {"new", "loaded"},
         run[r].kind = "delete" => run'[r].at \in {"ending", "releasing", "done"},
         run[r].at = "loaded" \/ run[r].at = "done" => run'[r].at = "done",
         \A t \in Threads : (thread'[t] # None) <=> (thread[t] # None),
         \A t \in Threads : thread[t] # None => /\ thread'[t].holder = thread[t].holder
                                                /\ thread'[t].lapsed = thread[t].lapsed
  PROVE  LInv'
  <1>1. Shape'
    BY DEF LInv, Shape
  <1>2. Named'
    <2> SUFFICES ASSUME NEW t \in Threads, thread[t] # None, thread[t].holder # None
                 PROVE  /\ run'[thread[t].holder].on = t
                        /\ run'[thread[t].holder].at \notin {"new", "loaded"}
                        /\ thread[t].lapsed => run'[thread[t].holder].late
      BY DEF Named, Exists
    <2>1. thread[t].holder \in Runs
      BY DEF LInv, TypeOK, Exists, ThreadRecords
    <2>2. /\ run[thread[t].holder].on = t
          /\ run[thread[t].holder].at \notin {"new", "loaded"}
          /\ thread[t].lapsed => run[thread[t].holder].late
      BY DEF LInv, Named, Exists
    <2> QED BY <2>1, <2>2
  <1>3. LeaseKept'
    <2> SUFFICES ASSUME NEW q \in Runs, Under(q)', ~run'[q].late
                 PROVE  (LET t == run[q].on IN
                   \/ Holds(q, t)
                   \/ ~Exists(t) /\ (run[q].kind = "delete" \/ \E d \in Runs : Outlived(d, t)))'
      BY DEF LeaseKept
    <2>1. Under(q) /\ ~run[q].late /\ run'[q].on = run[q].on /\ run'[q].kind = run[q].kind
      BY DEF Under
    <2>2. run[q].on \in Threads
      BY <2>1 DEF Under, LInv, Shape
    <2>3. \A d \in Runs : run'[d].kind = run[d].kind /\ run'[d].on = run[d].on /\ run'[d].late = run[d].late
      OBVIOUS
    <2>4. LET t == run[q].on IN
            \/ Holds(q, t)
            \/ ~Exists(t) /\ (run[q].kind = "delete" \/ \E d \in Runs : Outlived(d, t))
      BY <2>1 DEF LInv, LeaseKept
    <2> QED BY <2>1, <2>2, <2>3, <2>4 DEF Holds, Exists, Outlived
  <1> QED BY <1>1, <1>2, <1>3 DEF LInv

\* A thread's lease and existence are as they were.
LEMMA LeaseNext == LInv /\ [Next]_vars => LInv'
  <1> SUFFICES ASSUME LInv, [Next]_vars PROVE LInv'
    OBVIOUS
  <1>t. TypeOK' /\ Shape'
    BY NextType, NextShape DEF LInv
  <1>0. ASSUME NEW r \in Runs, NEW t \in Threads, NEW kind \in Kinds, Send(r, t, kind)
        PROVE  LInv'
    <2>1. /\ \A q \in Runs \ {r} : run'[q] = run[q]
          /\ run[r].at = "new" /\ run[r].kind = "none" /\ run'[r].at = "loaded" /\ thread' = thread
      BY <1>0 DEF Send, New, LInv, Shape, TypeOK
    <2>2. Named'
      BY <2>1, RecordTypes DEF LInv, Named, Exists, ThreadRecords
    <2>3. \A q \in Runs : Under(q)' => q # r
      BY <2>1 DEF Under
    <2>4. \A d \in Runs, s \in Threads : Outlived(d, s) => d # r
      BY <2>1 DEF Outlived
    <2>5. LeaseKept'
      <3> SUFFICES ASSUME NEW q \in Runs \ {r}, Under(q), ~run[q].late
                   PROVE  \/ Holds(q, run[q].on)
                          \/ ~Exists(run[q].on) /\ (run[q].kind = "delete"
                               \/ \E d \in Runs \ {r} : Outlived(d, run[q].on))
        BY <2>1, <2>3 DEF LeaseKept, Under, Holds, Exists, Outlived
      <3>1. run[q].on \in Threads
        BY DEF Under, LInv, Shape
      <3> QED BY <2>4, <3>1 DEF LInv, LeaseKept
    <2> QED BY <1>t, <2>2, <2>5 DEF LInv
  <1>1. ASSUME NEW r \in Runs, TakeLease(r), Free(run[r].on) PROVE LInv'
    <2> DEFINE t == run[r].on
    <2>1. /\ \A q \in Runs \ {r} : run'[q] = run[q]
          /\ run[r].at = "loaded" /\ run'[r].at \notin {"new", "loaded"}
          /\ run'[r].kind = run[r].kind /\ run'[r].on = t /\ run'[r].late = run[r].late
      BY <1>1 DEF TakeLease, Step, After, LInv, Shape, TypeOK, RunRecords, Kinds
    <2>2. t \in Threads /\ Exists(t) /\ thread[t] \in ThreadRecords
      BY <1>1, <2>1, RecordTypes DEF Free, LInv, Shape
    <2>3. /\ \A s \in Threads \ {t} : thread'[s] = thread[s]
          /\ thread'[t] # None /\ thread'[t].holder = r /\ thread'[t].lapsed = FALSE
      <3>1. thread' = [thread EXCEPT ![t].holder = r, ![t].lapsed = FALSE]
        BY <1>1 DEF TakeLease
      <3>2. thread'[t] \in ThreadRecords
        BY <1>1, <1>t, <2>1, <2>2, <3>1 DEF TypeOK, LInv, ThreadRecords
      <3>3. thread'[t].holder = r /\ thread'[t].lapsed = FALSE
        BY <2>2, <3>1 DEF LInv, TypeOK, ThreadRecords
      <3> QED BY <2>2, <3>1, <3>2, <3>3, DeletedAssumption DEF LInv, TypeOK
    <2>4. Named'
      <3> SUFFICES ASSUME NEW s \in Threads, thread'[s] # None, thread'[s].holder # None
                   PROVE  /\ run'[thread'[s].holder].on = s
                          /\ run'[thread'[s].holder].at \notin {"new", "loaded"}
                          /\ thread'[s].lapsed => run'[thread'[s].holder].late
        BY DEF Named, Exists
      <3>1. CASE s = t
        BY <3>1, <2>1, <2>3
      <3>2. CASE s # t
        <4>1. thread'[s] = thread[s] /\ thread[s].holder \in Runs
          BY <3>2, <2>3, RecordTypes DEF LInv, Exists, ThreadRecords
        <4>2. /\ run[thread[s].holder].on = s
              /\ run[thread[s].holder].at \notin {"new", "loaded"}
              /\ thread[s].lapsed => run[thread[s].holder].late
          BY <4>1 DEF LInv, Named, Exists
        <4>3. thread[s].holder # r
          BY <4>2, <2>1
        <4> QED BY <4>1, <4>2, <4>3, <2>1
      <3> QED BY <3>1, <3>2
    <2>5. \A q \in Runs \ {r} : Under(q) /\ ~run[q].late => ~(run[q].on = t /\ Holds(q, t))
      <3> SUFFICES ASSUME NEW q \in Runs \ {r}, ~run[q].late, Exists(t), thread[t].holder = q
                   PROVE  FALSE
        BY DEF Holds
      <3>1. thread[t].lapsed
        BY <1>1, ThreadAssumption DEF Free
      <3> QED BY <3>1, <2>2, ThreadAssumption DEF LInv, Named
    <2>6. LeaseKept'
      BY <2>1, <2>2, <2>3, <2>5 DEF LInv, Shape, LeaseKept, Under, Holds, Exists, Outlived
    <2> QED BY <1>t, <2>4, <2>6 DEF LInv
  <1>2. ASSUME NEW r \in Runs, RenewLease(r), Holds(r, run[r].on) PROVE LInv'
    <2> DEFINE t == run[r].on
    <2>1. /\ \A q \in Runs \ {r} : run'[q] = run[q]
          /\ run[r].at = "turn" /\ run'[r].at = "calling"
          /\ run'[r].kind = run[r].kind /\ run'[r].on = t
      BY <1>2 DEF RenewLease, LInv, TypeOK, RunRecords
    <2>2. t \in Threads /\ Exists(t) /\ thread[t] \in ThreadRecords /\ thread[t].holder = r
      BY <1>2, <2>1, RecordTypes DEF Holds, LInv, Shape
    <2>3. /\ \A s \in Threads \ {t} : thread'[s] = thread[s]
          /\ thread'[t] # None /\ thread'[t].holder = r /\ thread'[t].lapsed = FALSE
      <3>1. thread' = [thread EXCEPT ![t].lapsed = FALSE]
        BY <1>2 DEF RenewLease
      <3>2. [thread[t] EXCEPT !.lapsed = FALSE] \in ThreadRecords
        BY <2>2 DEF ThreadRecords
      <3>3. thread'[t] = [thread[t] EXCEPT !.lapsed = FALSE]
        BY <2>2, <3>1 DEF LInv, TypeOK
      <3> QED BY <2>2, <3>1, <3>2, <3>3, DeletedAssumption DEF LInv, TypeOK, ThreadRecords
    <2>4. Named'
      <3> SUFFICES ASSUME NEW s \in Threads \ {t}, thread[s] # None, thread[s].holder # None
                   PROVE  /\ run'[thread[s].holder].on = s
                          /\ run'[thread[s].holder].at \notin {"new", "loaded"}
                          /\ thread[s].lapsed => run'[thread[s].holder].late
        BY <2>1, <2>3 DEF Named, Exists
      <3>1. /\ thread[s].holder \in Runs /\ run[thread[s].holder].on = s
            /\ run[thread[s].holder].at \notin {"new", "loaded"}
            /\ thread[s].lapsed => run[thread[s].holder].late
        BY RecordTypes DEF LInv, Named, Exists, ThreadRecords
      <3>2. thread[s].holder # r
        BY <3>1
      <3> QED BY <2>1, <3>1, <3>2
    <2>5. \A d \in Runs : run[d].kind = "delete" => d # r
      BY <2>1 DEF LInv, Shape
    <2>6. LeaseKept'
      BY <2>1, <2>2, <2>3, <2>5 DEF LInv, Shape, LeaseKept, Under, Holds, Exists, Outlived
    <2> QED BY <1>t, <2>4, <2>6 DEF LInv
  <1>3. ASSUME NEW r \in Runs, Delete(r) PROVE LInv'
    <2> DEFINE t == run[r].on
    <2>1. /\ \A q \in Runs \ {r} : run'[q] = run[q]
          /\ run[r].at = "ending" /\ run'[r].at = "releasing" /\ run[r].kind = "delete"
          /\ run'[r].kind = "delete" /\ run'[r].on = t /\ run'[r].late = run[r].late
      BY <1>3 DEF Delete, Step, LInv, TypeOK, RunRecords
    <2>2. t \in Threads
      BY <2>1 DEF LInv, Shape
    <2>3. thread'[t] = None /\ \A s \in Threads \ {t} : thread'[s] = thread[s]
      BY <1>3, <2>2 DEF Delete, LInv, TypeOK
    <2>4. Named'
      <3> SUFFICES ASSUME NEW s \in Threads \ {t}, thread[s] # None, thread[s].holder # None
                   PROVE  /\ run'[thread[s].holder].on = s
                          /\ run'[thread[s].holder].at \notin {"new", "loaded"}
                          /\ thread[s].lapsed => run'[thread[s].holder].late
        BY <2>1, <2>3 DEF Named, Exists
      <3>1. /\ thread[s].holder \in Runs /\ run[thread[s].holder].on = s
            /\ run[thread[s].holder].at \notin {"new", "loaded"}
            /\ thread[s].lapsed => run[thread[s].holder].late
        BY RecordTypes DEF LInv, Named, Exists, ThreadRecords
      <3> QED BY <2>1, <3>1
    <2>5. \A q \in Runs \ {r} : Under(q) /\ ~run[q].late /\ run[q].on = t /\ Exists(t)
            => Outlived(r, t)
      BY <2>1 DEF LInv, LeaseKept, Under, Holds, Outlived
    <2>6. LeaseKept'
      BY <2>1, <2>2, <2>3, <2>5 DEF LInv, Shape, LeaseKept, Under, Holds, Exists, Outlived
    <2> QED BY <1>t, <2>4, <2>6 DEF LInv
  <1>4. ASSUME NEW r \in Runs, ReleaseLease(r) PROVE LInv'
    <2> DEFINE t == run[r].on
    <2>1. /\ \A q \in Runs \ {r} : run'[q] = run[q]
          /\ run[r].at = "releasing" /\ run'[r].at = "done"
          /\ run'[r].kind = run[r].kind /\ run'[r].on = t /\ run'[r].late = run[r].late
      BY <1>4 DEF ReleaseLease, Step, LInv, TypeOK, RunRecords
    <2>2. CASE ~Holds(r, t)
      <3>1. thread' = thread
        BY <1>4, <2>2 DEF ReleaseLease
      <3> QED BY <1>t, <2>1, <3>1, RunStep DEF LInv
    <2>3. CASE Holds(r, t)
      <3>1. t \in Threads /\ Exists(t) /\ thread[t] \in ThreadRecords /\ thread[t].holder = r
        BY <2>1, <2>3, RecordTypes DEF Holds, LInv, Shape
      <3>2. /\ \A s \in Threads \ {t} : thread'[s] = thread[s]
            /\ thread'[t] # None /\ thread'[t].holder = None
        <4>1. thread' = [thread EXCEPT ![t].holder = None, ![t].lapsed = FALSE]
          BY <1>4, <2>3 DEF ReleaseLease
        <4>2. thread'[t] \in ThreadRecords /\ thread'[t].holder = None
          BY <3>1, <4>1 DEF LInv, TypeOK, ThreadRecords
        <4> QED BY <4>1, <4>2, DeletedAssumption DEF LInv, TypeOK
      <3>3. Named'
        <4> SUFFICES ASSUME NEW s \in Threads \ {t}, thread[s] # None, thread[s].holder # None
                     PROVE  /\ run'[thread[s].holder].on = s
                            /\ run'[thread[s].holder].at \notin {"new", "loaded"}
                            /\ thread[s].lapsed => run'[thread[s].holder].late
          BY <3>2 DEF Named, Exists
        <4>1. /\ thread[s].holder \in Runs /\ run[thread[s].holder].on = s
              /\ run[thread[s].holder].at \notin {"new", "loaded"}
              /\ thread[s].lapsed => run[thread[s].holder].late
          BY RecordTypes DEF LInv, Named, Exists, ThreadRecords
        <4> QED BY <2>1, <4>1
      <3>4. LeaseKept'
        BY <2>1, <3>1, <3>2 DEF LInv, Shape, LeaseKept, Under, Holds, Exists, Outlived
      <3> QED BY <1>t, <3>3, <3>4 DEF LInv
    <2> QED BY <2>2, <2>3
  <1>5. ASSUME NEW t \in Threads, Lapse(t) PROVE LInv'
    <2>0. thread[t] \in ThreadRecords /\ Exists(t) /\ thread[t].holder # None
      BY <1>5, RecordTypes DEF Lapse, LInv
    <2>1. PICK h \in Runs : thread[t].holder = h /\ thread[t] \in ThreadRecords /\ Exists(t)
      BY <2>0 DEF ThreadRecords
    <2>2. /\ \A q \in Runs : /\ run'[q].kind = run[q].kind /\ run'[q].on = run[q].on
                             /\ run'[q].at = run[q].at /\ (run[q].late => run'[q].late)
          /\ run'[h].late
      BY <1>5, <2>1 DEF Lapse, LInv, TypeOK, RunRecords
    <2>3. \A s \in Threads : /\ thread'[s] # None <=> thread[s] # None
                             /\ thread[s] # None => /\ thread'[s].holder = thread[s].holder
                                                    /\ thread'[s].lapsed => s = t \/ thread[s].lapsed
      <3>1. thread' = [thread EXCEPT ![t].lapsed = TRUE]
        BY <1>5 DEF Lapse
      <3>2. thread'[t] \in ThreadRecords /\ thread'[t].holder = thread[t].holder
        BY <2>1, <3>1 DEF LInv, TypeOK, ThreadRecords
      <3> QED BY <2>1, <3>1, <3>2, DeletedAssumption DEF LInv, TypeOK, Exists
    <2>4. Named'
      <3> SUFFICES ASSUME NEW s \in Threads, thread[s] # None, thread[s].holder # None
                   PROVE  /\ run'[thread[s].holder].on = s
                          /\ run'[thread[s].holder].at \notin {"new", "loaded"}
                          /\ thread'[s].lapsed => run'[thread[s].holder].late
        BY <2>3 DEF Named, Exists
      <3>1. /\ thread[s].holder \in Runs /\ run[thread[s].holder].on = s
            /\ run[thread[s].holder].at \notin {"new", "loaded"}
            /\ thread[s].lapsed => run[thread[s].holder].late
        BY RecordTypes DEF LInv, Named, Exists, ThreadRecords
      <3> QED BY <2>1, <2>2, <2>3, <3>1
    <2>5. LeaseKept'
      BY <2>2, <2>3 DEF LInv, Shape, LeaseKept, Under, Holds, Exists, Outlived
    <2> QED BY <1>t, <2>4, <2>5 DEF LInv
  <1>6. ASSUME NEW r \in Runs,
               \/ (TakeLease(r) /\ ~Free(run[r].on))
               \/ (RenewLease(r) /\ ~Holds(r, run[r].on))
               \/ Call(r) \/ Continue(r) \/ Finish(r) \/ Cut(r) \/ Crash(r)
        PROVE  LInv'
    <2>1. thread' = thread
      BY <1>6 DEF TakeLease, RenewLease, Call, Continue, Finish, Cut, Crash
    <2>2. /\ \A q \in Runs \ {r} : run'[q] = run[q]
          /\ run'[r].kind = run[r].kind /\ run'[r].on = run[r].on /\ run'[r].late = run[r].late
          /\ run[r].at # "new" /\ run'[r].at \notin {"new", "loaded"}
          /\ run[r].kind = "delete" => run'[r].at \in {"ending", "releasing", "done"}
          /\ run[r].at = "loaded" \/ run[r].at = "done" => run'[r].at = "done"
      BY <1>6 DEF TakeLease, RenewLease, Call, Continue, Finish, Cut, Crash, Leave, Step,
                  LInv, Shape, TypeOK, RunRecords
    <2> QED BY <1>t, <2>1, <2>2, RunStep
  <1>7. ASSUME NEW r \in Runs, Save(r) \/ End(r) PROVE LInv'
    <2>1. /\ \A q \in Runs \ {r} : run'[q] = run[q]
          /\ run'[r].kind = run[r].kind /\ run'[r].on = run[r].on /\ run'[r].late = run[r].late
          /\ run[r].at \in {"saving", "ending"} /\ run'[r].at \notin {"new", "loaded"}
          /\ run[r].kind = "delete" => run'[r].at \in {"ending", "releasing", "done"}
      BY <1>7 DEF Save, End, Store, LInv, Shape, TypeOK, RunRecords
    <2>2. \A t \in Threads : /\ (thread'[t] # None) <=> (thread[t] # None)
                             /\ thread[t] # None => /\ thread'[t].holder = thread[t].holder
                                                    /\ thread'[t].lapsed = thread[t].lapsed
      <3>1. CASE thread' = thread
        BY <3>1
      <3>2. CASE thread' = [thread EXCEPT ![run[r].on].messages = Append(@, r)] /\ Exists(run[r].on)
        <4>1. run[r].on \in Threads /\ thread[run[r].on] \in ThreadRecords
          BY <2>1, <3>2, RecordTypes DEF LInv, Shape
        <4>2. thread'[run[r].on] = [thread[run[r].on] EXCEPT !.messages = Append(@, r)]
          BY <3>2, <4>1 DEF LInv, TypeOK
        <4>3. thread'[run[r].on] \in ThreadRecords
          <5>1. Append(thread[run[r].on].messages, r) \in Seq(Runs)
            BY <4>1 DEF ThreadRecords
          <5> QED BY <4>1, <4>2, <5>1 DEF ThreadRecords
        <4> QED BY <3>2, <4>1, <4>2, <4>3, DeletedAssumption DEF LInv, TypeOK, Exists, ThreadRecords
      <3> QED BY <1>7, <3>1, <3>2 DEF Save, End, Store, Appended
    <2> QED BY <1>t, <2>1, <2>2, RunStep
  <1>8. CASE UNCHANGED vars
    BY <1>8 DEF vars, LInv, TypeOK, Shape, Named, LeaseKept, Under, Holds, Exists, Outlived
  <1>9. ASSUME NEW r \in Runs, Serve(r) \/ Cut(r) \/ Crash(r) PROVE LInv'
    <2>1. CASE TakeLease(r)
      <3>1. CASE Free(run[r].on)
        BY <2>1, <3>1, <1>1
      <3>2. CASE ~Free(run[r].on)
        BY <2>1, <3>2, <1>6
      <3> QED BY <3>1, <3>2
    <2>2. CASE RenewLease(r)
      <3>1. CASE Holds(r, run[r].on)
        BY <2>2, <3>1, <1>2
      <3>2. CASE ~Holds(r, run[r].on)
        BY <2>2, <3>2, <1>6
      <3> QED BY <3>1, <3>2
    <2>3. CASE Call(r) \/ Continue(r) \/ Finish(r) \/ Cut(r) \/ Crash(r)
      BY <2>3, <1>6
    <2>4. CASE Save(r) \/ End(r)
      BY <2>4, <1>7
    <2> QED BY <1>3, <1>4, <1>9, <2>1, <2>2, <2>3, <2>4 DEF Serve
  <1> QED
    BY <1>0, <1>5, <1>8, <1>9 DEF Next

\* At the start nobody holds a lease.
LEMMA InitLease == Init => LInv
  <1> SUFFICES ASSUME Init PROVE LInv
    OBVIOUS
  <1>1. Named
    BY DEF Init, Named
  <1>2. LeaseKept
    BY DEF Init, New, LeaseKept, Under
  <1> QED
    BY <1>1, <1>2, InitType, InitShape DEF LInv

\* A run whose lease did not lapse holds it until it is done, whatever runs
\* that outlived theirs go on to do.
THEOREM LeaseCorrect == Spec => []LeaseKept
  <1>1. LInv => LeaseKept
    BY DEF LInv
  <1> QED
    BY <1>1, InitLease, LeaseNext, PTL DEF Spec

-----------------------------------------------------------------------------
(* The month's limit *)

\* The runs with a call ahead that they need not check the limit for again.
Ahead == {r \in Runs : \/ run[r].at \in {"turn", "calling", "saving"}
                       \/ run[r].at = "loaded" /\ run[r].kind = "chat"}
MInv == TypeOK /\ Shape /\ spent + Cardinality(Ahead) < Limit + Cardinality(Runs)

\* The calls ahead are no more than the runs.
LEMMA AheadFinite == IsFiniteSet(Ahead) /\ Cardinality(Ahead) \in Nat /\ Cardinality(Ahead) <= Cardinality(Runs)
                     /\ Cardinality(Runs) \in Nat
  BY ThreadAssumption, FS_Subset, FS_CardinalityType DEF Ahead

\* Whoever passes the check finds the month below its limit.
LEMMA CheckedStep ==
  ASSUME TypeOK, spent < Limit, spent' = spent
  PROVE  (spent + Cardinality(Ahead) < Limit + Cardinality(Runs))'
  <1>1. Cardinality(Ahead') \in Nat /\ Cardinality(Ahead') <= Cardinality(Runs) /\ Cardinality(Runs) \in Nat
    BY ThreadAssumption, FS_Subset, FS_CardinalityType DEF Ahead
  <1> QED
    BY <1>1, ThreadAssumption DEF TypeOK

\* A step that puts no run ahead.
LEMMA QuietStep ==
  ASSUME MInv, spent' = spent, Ahead' \subseteq Ahead
  PROVE  (spent + Cardinality(Ahead) < Limit + Cardinality(Runs))'
  <1>1. Cardinality(Ahead') <= Cardinality(Ahead) /\ Cardinality(Ahead') \in Nat
    BY AheadFinite, FS_Subset, FS_CardinalityType
  <1> QED
    BY <1>1, AheadFinite, ThreadAssumption DEF MInv, TypeOK

\* Every step keeps the spend within the limit and the calls ahead.
LEMMA MoneyNext == MInv /\ [Next]_vars => MInv'
  <1> SUFFICES ASSUME MInv, [Next]_vars PROVE MInv'
    OBVIOUS
  <1>t. TypeOK' /\ Shape' /\ TypeOK /\ Shape
    BY NextType, NextShape DEF MInv
  <1>0. ASSUME NEW r \in Runs, NEW t \in Threads, NEW kind \in Kinds, Send(r, t, kind) PROVE MInv'
    <2>1. CASE kind = "chat"
      BY <1>0, <1>t, <2>1, CheckedStep, ThreadAssumption DEF Send, OverLimit, MInv, TypeOK
    <2>2. CASE kind # "chat"
      <3>1. Ahead' \subseteq Ahead
        BY <1>0, <2>2, <1>t DEF Send, Ahead, New, TypeOK
      <3> QED BY <1>0, <1>t, <3>1, QuietStep DEF Send, MInv
    <2> QED BY <2>1, <2>2
  <1>1. ASSUME NEW r \in Runs, Call(r) PROVE MInv'
    <2>1. r \in Ahead /\ Ahead' = Ahead \ {r}
      BY <1>1, <1>t DEF Call, Ahead, TypeOK, RunRecords
    <2>2. Cardinality(Ahead') = Cardinality(Ahead) - 1
      BY <2>1, AheadFinite, FS_RemoveElement
    <2> QED BY <1>1, <1>t, <2>2, AheadFinite, ThreadAssumption DEF Call, MInv, TypeOK
  <1>2. ASSUME NEW r \in Runs, Continue(r) PROVE MInv'
    BY <1>2, <1>t, CheckedStep, ThreadAssumption DEF Continue, MayCall, OverLimit, MInv, TypeOK
  <1>3. ASSUME NEW r \in Runs, TakeLease(r) PROVE MInv'
    <2>1. Ahead' \subseteq Ahead
      BY <1>3, <1>t DEF TakeLease, Step, After, Ahead, TypeOK, Shape, RunRecords, Kinds
    <2> QED BY <1>3, <1>t, <2>1, QuietStep DEF TakeLease, MInv
  <1>4. ASSUME NEW r \in Runs, RenewLease(r) \/ Cut(r) PROVE MInv'
    <2>1. Ahead' \subseteq Ahead
      BY <1>4, <1>t DEF RenewLease, Cut, Leave, Ahead, TypeOK, RunRecords
    <2> QED BY <1>4, <1>t, <2>1, QuietStep DEF RenewLease, Cut, MInv
  <1>5. ASSUME NEW r \in Runs, Finish(r) \/ Delete(r) \/ ReleaseLease(r) \/ Crash(r) PROVE MInv'
    <2>1. Ahead' \subseteq Ahead
      BY <1>5, <1>t DEF Finish, Delete, ReleaseLease, Crash, Step, Ahead, TypeOK, RunRecords
    <2> QED BY <1>5, <1>t, <2>1, QuietStep DEF Finish, Delete, ReleaseLease, Crash, MInv
  <1>6. ASSUME NEW r \in Runs, Save(r) \/ End(r) PROVE MInv'
    <2>1. Ahead' \subseteq Ahead
      BY <1>6, <1>t DEF Save, End, Store, Ahead, TypeOK, RunRecords
    <2> QED BY <1>6, <1>t, <2>1, QuietStep DEF Save, End, Store, MInv
  <1>7. ASSUME NEW t \in Threads, Lapse(t) PROVE MInv'
    <2>1. Ahead' \subseteq Ahead
      BY <1>7, <1>t DEF Lapse, Ahead, TypeOK, RunRecords
    <2> QED BY <1>7, <1>t, <2>1, QuietStep DEF Lapse, MInv
  <1>8. CASE UNCHANGED vars
    BY <1>8, <1>t, QuietStep DEF vars, Ahead, MInv
  <1> QED
    BY <1>0, <1>1, <1>2, <1>3, <1>4, <1>5, <1>6, <1>7, <1>8 DEF Next, Serve

\* At the start nothing is spent and nobody is ahead.
LEMMA InitMoney == Init => MInv
  <1> SUFFICES ASSUME Init PROVE MInv
    OBVIOUS
  <1>1. Ahead = {}
    BY DEF Init, Ahead, New
  <1>2. Cardinality(Ahead) = 0
    BY <1>1, FS_EmptySet
  <1> QED
    BY <1>2, AheadFinite, InitType, InitShape, ThreadAssumption DEF Init, MInv

\* The month ends at most one call per run beyond its limit, less one.
THEOREM SpendCorrect == Spec => []SpendBounded
  <1>1. MInv => SpendBounded
    BY AheadFinite, ThreadAssumption DEF MInv, SpendBounded, TypeOK
  <1> QED
    BY <1>1, InitMoney, MoneyNext, PTL DEF Spec

-----------------------------------------------------------------------------
(* The history *)

\* A run that has taken its lease.
Began(q) == run[q].at \notin {"new", "loaded"}

\* What is in a thread's history was written by runs on it, after their lease.
Written ==
  \A t \in Threads : Exists(t) =>
    \A j \in DOMAIN thread[t].messages :
      run[thread[t].messages[j]].on = t /\ Began(thread[t].messages[j])

\* Whoever wrote after the holder of the lease was late by then, and is still.
Overtaken ==
  \A t \in Threads : Exists(t) =>
    \A i, j \in DOMAIN thread[t].messages :
      i < j /\ Holds(thread[t].messages[i], t) /\ thread[t].messages[j] # thread[t].messages[i]
        => run[thread[t].messages[j]].late

HInv == LInv /\ Written /\ Overtaken

\* The messages of a thread are of runs.
LEMMA MessageType ==
  ASSUME TypeOK, NEW t \in Threads, Exists(t)
  PROVE  /\ thread[t].messages \in Seq(Runs)
         /\ \A j \in DOMAIN thread[t].messages : j \in Nat /\ thread[t].messages[j] \in Runs
  <1>1. thread[t].messages \in Seq(Runs)
    BY RecordTypes DEF ThreadRecords
  <1> QED BY <1>1

\* A step that appends nothing: who began stays on its thread and as late as it
\* was, unless it renews the lease it holds, and a lease is only taken by a run
\* that had not begun.
LEMMA HistoryStays ==
  ASSUME HInv,
         \A q \in Runs : Began(q) =>
           /\ run'[q].on = run[q].on /\ Began(q)'
           /\ run[q].late => run'[q].late \/ Holds(q, run[q].on),
         \A t \in Threads : thread'[t] # None =>
           /\ thread[t] # None /\ thread'[t].messages = thread[t].messages
           /\ \/ thread'[t].holder = thread[t].holder
              \/ thread'[t].holder \notin {q \in Runs : Began(q)}
  PROVE  (Written /\ Overtaken)'
  <1>1. Written'
    <2> SUFFICES ASSUME NEW t \in Threads, thread'[t] # None, NEW j \in DOMAIN thread[t].messages
                 PROVE  run'[thread[t].messages[j]].on = t /\ Began(thread[t].messages[j])'
      BY DEF Written, Exists, Began
    <2>1. /\ thread[t].messages[j] \in Runs /\ run[thread[t].messages[j]].on = t
          /\ Began(thread[t].messages[j])
      BY MessageType DEF HInv, LInv, Written, Exists
    <2> QED BY <2>1 DEF Began
  <1>2. Overtaken'
    <2> SUFFICES ASSUME NEW t \in Threads, thread'[t] # None,
                        NEW i \in DOMAIN thread[t].messages, NEW j \in DOMAIN thread[t].messages, i < j,
                        thread'[t].holder = thread[t].messages[i],
                        thread[t].messages[j] # thread[t].messages[i]
                 PROVE  run'[thread[t].messages[j]].late
      BY DEF Overtaken, Exists, Holds
    <2>1. PICK q \in Runs : /\ q = thread[t].messages[j] /\ run[q].on = t /\ Began(q)
                            /\ thread[t].messages[i] \in Runs /\ Began(thread[t].messages[i])
      BY MessageType DEF HInv, LInv, Written, Exists
    <2>2. thread[t].holder = thread[t].messages[i] /\ Exists(t)
      BY <2>1 DEF Exists
    <2>3. run[q].late /\ ~Holds(q, t)
      BY <2>1, <2>2 DEF HInv, Overtaken, Holds
    <2> QED BY <2>1, <2>3
  <1> QED BY <1>1, <1>2

\* An append comes after everything: if another holds the lease the writer is late.
LEMMA HistoryGrows ==
  ASSUME HInv, NEW r \in Runs, NEW t \in Threads, Exists(t), run[r].on = t, Under(r), TypeOK',
         thread' = [thread EXCEPT ![t].messages = Append(@, r)],
         \A q \in Runs : run'[q].on = run[q].on /\ run'[q].late = run[q].late /\ (Began(q) => Began(q)')
  PROVE  (Written /\ Overtaken)'
  <1>0. PICK old \in Seq(Runs), n \in Nat : old = thread[t].messages /\ n = Len(old) + 1
    BY MessageType DEF HInv, LInv
  <1>1. /\ thread[t] \in ThreadRecords /\ Append(old, r) \in Seq(Runs)
        /\ \A j \in DOMAIN old : j \in Nat /\ j < n /\ old[j] \in Runs
    BY <1>0, RecordTypes DEF HInv, LInv
  <1>2. /\ thread'[t].messages = Append(old, r) /\ thread'[t].holder = thread[t].holder
        /\ \A s \in Threads : s # t => thread'[s] = thread[s]
    BY <1>0, <1>1 DEF HInv, LInv, TypeOK, ThreadRecords
  <1>3. /\ DOMAIN Append(old, r) = DOMAIN old \cup {n} /\ Append(old, r)[n] = r
        /\ \A j \in DOMAIN old : Append(old, r)[j] = old[j]
    BY <1>0, <1>1
  <1>4. Began(r) /\ thread[t] # None /\ thread'[t] # None
    <2>1. thread'[t] = [thread[t] EXCEPT !.messages = Append(old, r)]
      BY <1>0 DEF HInv, LInv, TypeOK
    <2>2. thread'[t] \in ThreadRecords
      <3>1. PICK new \in Seq(Runs), d \in ThreadRecords : d = thread[t] /\ new = Append(old, r)
        BY <1>1
      <3>2. [d EXCEPT !.messages = new] \in ThreadRecords
        BY DEF ThreadRecords
      <3> QED BY <2>1, <3>1, <3>2
    <2> QED BY <2>2, DeletedAssumption DEF Under, Began, Exists
  <1>5. ASSUME NEW s \in Threads, s # t, thread'[s] # None
        PROVE  /\ \A j \in DOMAIN thread[s].messages :
                    run'[thread[s].messages[j]].on = s /\ Began(thread[s].messages[j])'
               /\ \A i, j \in DOMAIN thread[s].messages :
                    i < j /\ thread[s].holder = thread[s].messages[i]
                      /\ thread[s].messages[j] # thread[s].messages[i]
                      => run'[thread[s].messages[j]].late
    <2>1. Exists(s) /\ thread'[s] = thread[s]
      BY <1>2, <1>5 DEF Exists
    <2> QED BY <2>1, MessageType DEF HInv, LInv, Written, Overtaken, Holds
  <1>6. ASSUME NEW j \in DOMAIN old \cup {n}
        PROVE  run'[Append(old, r)[j]].on = t /\ Began(Append(old, r)[j])'
    BY <1>0, <1>1, <1>3, <1>4 DEF HInv, Written
  <1>7. ASSUME NEW i \in DOMAIN old \cup {n}, NEW j \in DOMAIN old \cup {n}, i < j,
               thread[t].holder = Append(old, r)[i], Append(old, r)[j] # Append(old, r)[i]
        PROVE  run'[Append(old, r)[j]].late
    <2>1. i \in DOMAIN old
      BY <1>1, <1>7
    <2>2. CASE j \in DOMAIN old
      <3>1. /\ i \in DOMAIN thread[t].messages /\ j \in DOMAIN thread[t].messages
            /\ Append(old, r)[i] = thread[t].messages[i] /\ Append(old, r)[j] = thread[t].messages[j]
            /\ thread[t].messages[j] \in Runs
        BY <1>0, <1>1, <1>3, <2>1, <2>2
      <3>2. Holds(thread[t].messages[i], t)
        BY <1>7, <3>1 DEF Holds
      <3>3. run[thread[t].messages[j]].late
        BY <1>7, <3>1, <3>2 DEF HInv, Overtaken
      <3> QED BY <3>1, <3>3
    <2>3. CASE j = n
      BY <1>3, <1>7, <2>1, <2>3 DEF HInv, LInv, LeaseKept, Holds
    <2> QED BY <2>2, <2>3
  <1>8. Written'
    <2> SUFFICES ASSUME NEW s \in Threads, thread'[s] # None, NEW j \in DOMAIN thread'[s].messages
                 PROVE  run'[thread'[s].messages[j]].on = s /\ run'[thread'[s].messages[j]].at \notin {"new", "loaded"}
      BY DEF Written, Exists, Began
    <2>1. CASE s = t
      BY <1>2, <1>3, <1>6, <2>1 DEF Began
    <2>2. CASE s # t
      BY <1>2, <1>5, <2>2 DEF Began
    <2> QED BY <2>1, <2>2
  <1>9. Overtaken'
    <2> SUFFICES ASSUME NEW s \in Threads, thread'[s] # None,
                        NEW i \in DOMAIN thread'[s].messages, NEW j \in DOMAIN thread'[s].messages, i < j,
                        thread'[s].holder = thread'[s].messages[i],
                        thread'[s].messages[j] # thread'[s].messages[i]
                 PROVE  run'[thread'[s].messages[j]].late
      BY DEF Overtaken, Exists, Holds
    <2>1. CASE s = t
      <3>1. /\ i \in DOMAIN old \cup {n} /\ j \in DOMAIN old \cup {n}
            /\ thread[t].holder = Append(old, r)[i] /\ Append(old, r)[j] # Append(old, r)[i]
            /\ thread'[s].messages = Append(old, r)
        BY <1>2, <1>3, <2>1
      <3> QED BY <1>7, <3>1
    <2>2. CASE s # t
      BY <1>2, <1>5, <2>2
    <2> QED BY <2>1, <2>2
  <1> QED BY <1>8, <1>9

\* Every step keeps what the history says of who wrote it.
LEMMA HistoryNext == HInv /\ [Next]_vars => HInv'
  <1> SUFFICES ASSUME HInv, [Next]_vars PROVE HInv'
    OBVIOUS
  <1>t. LInv' /\ TypeOK /\ Shape /\ TypeOK' /\ run \in [Runs -> RunRecords]
    BY LeaseNext DEF HInv, LInv, TypeOK
  <1>0. ASSUME NEW r \in Runs, NEW t \in Threads, NEW kind \in Kinds, Send(r, t, kind)
        PROVE  (Written /\ Overtaken)'
    BY <1>0, <1>t, HistoryStays DEF Send, Began
  <1>1. ASSUME NEW r \in Runs, TakeLease(r) PROVE (Written /\ Overtaken)'
    <2>1. run[r].at = "loaded" /\ (\A q \in Runs \ {r} : run'[q] = run[q]) /\ run[r].on \in Threads
      BY <1>1, <1>t DEF TakeLease, Step, Shape
    <2>2. \/ thread' = thread
          \/ /\ thread[run[r].on] # None /\ thread[run[r].on] \in ThreadRecords
             /\ thread' = [thread EXCEPT ![run[r].on].holder = r, ![run[r].on].lapsed = FALSE]
      <3>1. CASE Free(run[r].on)
        BY <1>1, <1>t, <2>1, <3>1, RecordTypes DEF TakeLease, Free, Exists
      <3>2. CASE ~Free(run[r].on)
        BY <1>1, <3>2 DEF TakeLease
      <3> QED BY <3>1, <3>2
    <2>3. \A t \in Threads : thread'[t] # None =>
            /\ thread[t] # None /\ thread'[t].messages = thread[t].messages
            /\ thread'[t].holder = thread[t].holder \/ thread'[t].holder = r
      BY <1>t, <2>1, <2>2 DEF TypeOK, ThreadRecords
    <2>4. ~Began(r)
      BY <2>1 DEF Began
    <2>5. \A q \in Runs : Began(q) => run'[q] = run[q] /\ Began(q)'
      BY <2>1, <2>4 DEF Began
    <2> QED BY <2>3, <2>4, <2>5, HistoryStays
  <1>2. ASSUME NEW r \in Runs, RenewLease(r) \/ ReleaseLease(r) PROVE (Written /\ Overtaken)'
    <2>1. /\ run[r].on \in Threads /\ (\A q \in Runs \ {r} : run'[q] = run[q]) /\ run'[r].on = run[r].on
          /\ Began(r)' /\ (run'[r].late = run[r].late \/ Holds(r, run[r].on))
      BY <1>2, <1>t DEF RenewLease, ReleaseLease, Leave, Step, Shape, Began, RunRecords
    <2>2. \/ thread' = thread
          \/ /\ thread[run[r].on] # None /\ thread[run[r].on] \in ThreadRecords
             /\ \/ thread' = [thread EXCEPT ![run[r].on].lapsed = FALSE]
                \/ thread' = [thread EXCEPT ![run[r].on].holder = None, ![run[r].on].lapsed = FALSE]
      BY <1>2, <1>t, <2>1, RecordTypes DEF RenewLease, ReleaseLease, Holds, Exists
    <2>3. \A t \in Threads : thread'[t] # None =>
            /\ thread[t] # None /\ thread'[t].messages = thread[t].messages
            /\ thread'[t].holder = thread[t].holder \/ thread'[t].holder = None
      <3> SUFFICES ASSUME NEW t \in Threads, thread'[t] # None
                   PROVE  /\ thread[t] # None /\ thread'[t].messages = thread[t].messages
                          /\ thread'[t].holder = thread[t].holder \/ thread'[t].holder = None
        OBVIOUS
      <3>1. CASE thread' = thread \/ t # run[r].on
        BY <1>t, <2>1, <2>2, <3>1 DEF TypeOK
      <3>2. CASE thread' = [thread EXCEPT ![run[r].on].lapsed = FALSE] /\ thread' # thread /\ t = run[r].on
        BY <1>t, <2>2, <3>2 DEF TypeOK, ThreadRecords
      <3>3. CASE /\ thread' = [thread EXCEPT ![run[r].on].holder = None, ![run[r].on].lapsed = FALSE]
                 /\ thread' # thread /\ t = run[r].on
        BY <1>t, <2>2, <3>3 DEF TypeOK, ThreadRecords
      <3> QED BY <2>2, <3>1, <3>2, <3>3
    <2>4. \A q \in Runs : Began(q) => /\ run'[q].on = run[q].on /\ Began(q)'
                                      /\ run[q].late => run'[q].late \/ Holds(q, run[q].on)
      BY <2>1 DEF Began
    <2> QED BY <2>3, <2>4, HistoryStays, ThreadAssumption
  <1>3. ASSUME NEW r \in Runs, Call(r) \/ Continue(r) \/ Finish(r) \/ Cut(r) \/ Crash(r) \/ Delete(r)
        PROVE  (Written /\ Overtaken)'
    <2>1. /\ \A q \in Runs \ {r} : run'[q] = run[q]
          /\ run'[r].on = run[r].on /\ Began(r)' /\ run'[r].late = run[r].late
      BY <1>3, <1>t DEF Call, Continue, Finish, Cut, Crash, Delete, Leave, Step, Began, RunRecords
    <2>2. \A t \in Threads : thread'[t] # None => thread'[t] = thread[t]
      BY <1>3, <1>t DEF Call, Continue, Finish, Cut, Crash, Delete, TypeOK
    <2>3. \A q \in Runs : Began(q) => /\ run'[q].on = run[q].on /\ Began(q)'
                                      /\ run[q].late => run'[q].late \/ Holds(q, run[q].on)
      BY <2>1 DEF Began
    <2> QED BY <2>2, <2>3, HistoryStays
  <1>4. ASSUME NEW r \in Runs, Save(r) \/ End(r) PROVE (Written /\ Overtaken)'
    <2>1. /\ run[r].at \in {"saving", "ending"} /\ run[r].on \in Threads
          /\ \A q \in Runs \ {r} : run'[q] = run[q]
          /\ run'[r].on = run[r].on /\ Began(r)' /\ run'[r].late = run[r].late
      BY <1>4, <1>t DEF Save, End, Store, Shape, Began, RunRecords
    <2>2. \A q \in Runs : /\ run'[q].on = run[q].on /\ run'[q].late = run[q].late
                          /\ Began(q) => Began(q)'
      BY <2>1 DEF Began
    <2>3. CASE thread' = thread
      BY <2>2, <2>3, HistoryStays
    <2>4. CASE Exists(run[r].on) /\ thread' = [thread EXCEPT ![run[r].on].messages = Append(@, r)]
      <3>1. Under(r)
        BY <2>1 DEF Under
      <3> QED BY <1>t, <2>1, <2>2, <2>4, <3>1, HistoryGrows
    <2> QED BY <1>4, <2>3, <2>4 DEF Save, End, Store, Appended
  <1>5. ASSUME NEW t \in Threads, Lapse(t) PROVE (Written /\ Overtaken)'
    <2>1. \A q \in Runs : /\ run'[q].on = run[q].on /\ run'[q].at = run[q].at
                          /\ run[q].late => run'[q].late
      BY <1>5, <1>t DEF Lapse, RunRecords
    <2>2. \A s \in Threads : thread'[s] # None =>
            /\ thread[s] # None /\ thread'[s].messages = thread[s].messages
            /\ thread'[s].holder = thread[s].holder
      BY <1>5, <1>t, RecordTypes DEF Lapse, Exists, TypeOK, ThreadRecords
    <2> QED BY <2>1, <2>2, HistoryStays DEF Began
  <1>6. CASE UNCHANGED vars
    <2>1. run' = run /\ thread' = thread
      BY <1>6 DEF vars
    <2>2. \A q \in Runs : Began(q) => /\ run'[q].on = run[q].on /\ Began(q)'
                                      /\ run[q].late => run'[q].late \/ Holds(q, run[q].on)
      BY <2>1 DEF Began
    <2>3. \A t \in Threads : thread'[t] # None =>
            /\ thread[t] # None /\ thread'[t].messages = thread[t].messages
            /\ thread'[t].holder = thread[t].holder
      BY <2>1
    <2> QED BY <1>t, <2>2, <2>3, HistoryStays DEF HInv
  <1> QED
    BY <1>t, <1>0, <1>1, <1>2, <1>3, <1>4, <1>5, <1>6 DEF Next, Serve, HInv

\* Only a run that is about to store what it has appends, and as itself.
LEMMA WritersUnder ==
  ASSUME TypeOK, Shape, [Next]_vars, NEW t \in Threads, Exists(t), thread'[t] # None, NEW r \in Runs,
         thread'[t].messages = Append(thread[t].messages, r)
  PROVE  Under(r)
  <1>1. thread[t] \in ThreadRecords /\ thread[t].messages \in Seq(Runs)
    BY MessageType, RecordTypes
  <1>2. thread'[t].messages # thread[t].messages
    <2>1. Len(Append(thread[t].messages, r)) # Len(thread[t].messages)
      BY <1>1
    <2> QED BY <2>1
  <1>3. ASSUME thread' = thread PROVE FALSE
    BY <1>2, <1>3
  <1>4. ASSUME NEW q \in Runs, TakeLease(q) \/ RenewLease(q) \/ ReleaseLease(q) \/ Delete(q)
        PROVE  FALSE
    <2>1. run[q].on \in Threads
      BY <1>4 DEF TakeLease, RenewLease, ReleaseLease, Delete, Shape
    <2>2. CASE run[q].on = t
      BY <1>1, <1>2, <1>4, <2>2 DEF TakeLease, RenewLease, ReleaseLease, Delete, TypeOK, ThreadRecords
    <2>3. CASE run[q].on # t
      BY <1>2, <1>4, <2>1, <2>3 DEF TakeLease, RenewLease, ReleaseLease, Delete, TypeOK
    <2> QED BY <2>2, <2>3
  <1>5. ASSUME NEW s \in Threads, Lapse(s) PROVE FALSE
    BY <1>1, <1>2, <1>5 DEF Lapse, TypeOK, ThreadRecords
  <1>6. PICK q \in Runs : Save(q) \/ End(q)
    BY <1>3, <1>4, <1>5 DEF Next, Serve, Send, Call, Continue, Finish, Cut, Crash, vars
  <1>7. run[q].at \in {"saving", "ending"} /\ run[q].on \in Threads
        /\ thread' = [thread EXCEPT ![run[q].on].messages = Append(@, q)]
    BY <1>3, <1>6 DEF Save, End, Store, Appended, Shape
  <1>8. run[q].on = t
    BY <1>2, <1>7 DEF TypeOK
  <1>9. thread'[t].messages = Append(thread[t].messages, q)
    BY <1>1, <1>7, <1>8 DEF TypeOK, ThreadRecords
  <1>10. q = r
    <2>1. /\ Append(thread[t].messages, q)[Len(thread[t].messages) + 1] = q
          /\ Append(thread[t].messages, r)[Len(thread[t].messages) + 1] = r
      BY <1>1
    <2> QED BY <1>9, <2>1
  <1> QED BY <1>7, <1>10 DEF Under

\* A run goes on writing after another's messages only when its own lease or the
\* other's had lapsed, however the leases are taken, renewed, outlived and lost.
THEOREM HistoriesApart == Spec => RunsApart
  <1>1. Init => HInv
    BY InitLease DEF Init, HInv, Written, Overtaken
  <1>2. HInv /\ [Next]_vars =>
          \A t \in Threads : \A r \in Runs :
            LET old == thread[t].messages IN
            /\ Exists(t) /\ thread'[t] # None /\ thread'[t].messages = Append(old, r)
            /\ \E i \in 1..Len(old) : old[i] = r
            /\ old[Len(old)] # r
            => run[r].late \/ run[old[Len(old)]].late
    <2> SUFFICES ASSUME HInv, [Next]_vars, NEW t \in Threads, NEW r \in Runs, Exists(t), thread'[t] # None,
                        thread'[t].messages = Append(thread[t].messages, r), ~run[r].late,
                        NEW i \in 1..Len(thread[t].messages), thread[t].messages[i] = r,
                        thread[t].messages[Len(thread[t].messages)] # r
                 PROVE  run[thread[t].messages[Len(thread[t].messages)]].late
      OBVIOUS
    <2> DEFINE n == Len(thread[t].messages)
    <2>1. /\ thread[t].messages \in Seq(Runs) /\ n \in DOMAIN thread[t].messages
          /\ i \in DOMAIN thread[t].messages /\ i < n
      BY MessageType DEF HInv, LInv
    <2>2. run[r].on = t
      BY <2>1 DEF HInv, Written
    <2>3. Under(r)
      BY WritersUnder DEF HInv, LInv
    <2>4. Holds(r, t)
      BY <2>2, <2>3 DEF HInv, LInv, LeaseKept
    <2> QED BY <2>1, <2>4 DEF HInv, Overtaken
  <1> QED
    BY <1>1, <1>2, HistoryNext, PTL DEF Spec, RunsApart
=============================================================================
