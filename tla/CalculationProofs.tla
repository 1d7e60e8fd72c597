-------------------------- MODULE CalculationProofs -------------------------
(***************************************************************************)
(* Theorems about Calculation, for every engine, every set of fields and   *)
(* values and any number of requests in flight.  The argument is that of   *)
(* optimistic concurrency: whoever changes the inputs or the status moves  *)
(* the version, so a calculation that finds its version unmoved writes     *)
(* beside the inputs, and under the status, that it read.                  *)
(***************************************************************************)
EXTENDS Calculation, FiniteSetTheorems, TLAPS

-----------------------------------------------------------------------------
(* What the writers make of a row.                                         *)

\* A patched input vector is an input vector.
LEMMA MergeType ==
  ASSUME NEW x \in Inputs, NEW patch \in Patches
  PROVE  Merge(x, patch) \in Inputs
BY DEF Merge, Inputs, Patches

\* Emptying a calculation leaves a row, without candidates, stamp or picks.
LEMMA EmptiedRow ==
  ASSUME NEW r \in Rows
  PROVE  /\ Emptied(r) \in Rows
         /\ Emptied(r).cand = NoCand /\ Emptied(r).calculatedAt = 0 /\ Emptied(r).selection = 0
         /\ Emptied(r).status = r.status /\ Emptied(r).inputs = r.inputs /\ Emptied(r).version = r.version
BY DEF Emptied, Rows

\* Storing a calculation touches the calculation's columns alone.
LEMMA CalculatedRow ==
  ASSUME NEW r \in Rows, NEW x \in Inputs, NEW gen \in 0..MaxGen, NEW at \in Nat
  PROVE  /\ Calculated(r, x, gen, at) \in Rows
         /\ Calculated(r, x, gen, at).cand = [of |-> x, gen |-> gen]
         /\ Calculated(r, x, gen, at).calculatedAt = at /\ Calculated(r, x, gen, at).selection = 0
         /\ Calculated(r, x, gen, at).status = r.status /\ Calculated(r, x, gen, at).inputs = r.inputs
         /\ Calculated(r, x, gen, at).version = r.version
<1>1. [of |-> x, gen |-> gen] \in Candidates
  BY DEF Candidates
<1>2. QED
  BY <1>1 DEF Calculated, Rows

\* An edit moves the version, and keeps the calculation whole or drops it whole.
LEMMA EditedRow ==
  ASSUME clock \in Nat, NEW r \in Rows, NEW patch \in Patches \cup {NoPatch}, NEW keep \in BOOLEAN
  PROVE  /\ Edited(r, patch, keep) \in Rows
         /\ Edited(r, patch, keep).version = Now /\ Edited(r, patch, keep).status = r.status
         /\ \/ /\ Edited(r, patch, keep).cand = r.cand
               /\ Edited(r, patch, keep).calculatedAt = r.calculatedAt
               /\ Edited(r, patch, keep).selection = r.selection
            \/ /\ Edited(r, patch, keep).cand = NoCand
               /\ Edited(r, patch, keep).calculatedAt = 0
               /\ Edited(r, patch, keep).selection = 0
<1>0. Now \in Nat
  BY DEF Now
<1>1. CASE patch = NoPatch
  BY <1>0, <1>1 DEF Edited, Rows
<1>2. CASE patch # NoPatch
  <2> DEFINE merged == [r EXCEPT !.inputs = Merge(r.inputs, patch), !.version = Now]
  <2>1. r.inputs \in Inputs /\ patch \in Patches
    BY <1>2 DEF Rows
  <2>2. Merge(r.inputs, patch) \in Inputs
    BY <2>1, MergeType
  <2>3. /\ merged \in Rows /\ merged.version = Now /\ merged.status = r.status /\ merged.cand = r.cand
        /\ merged.calculatedAt = r.calculatedAt /\ merged.selection = r.selection
    BY <1>0, <2>2 DEF Rows
  <2>4. Edited(r, patch, keep) = IF keep THEN merged ELSE Emptied(merged)
    BY <1>2 DEF Edited
  <2> HIDE DEF merged
  <2>5. QED
    BY <2>3, <2>4, EmptiedRow
<1>3. QED
  BY <1>1, <1>2

\* A transition moves the status and the version.
MovedRow(r, status) == [r EXCEPT !.status = status, !.version = Now]

\* What a transition leaves is a row that differs in these two columns alone.
LEMMA MovedType ==
  ASSUME clock \in Nat, NEW r \in Rows, NEW status \in Statuses
  PROVE  /\ MovedRow(r, status) \in Rows
         /\ MovedRow(r, status).version = Now /\ MovedRow(r, status).status = status
         /\ MovedRow(r, status).inputs = r.inputs /\ MovedRow(r, status).cand = r.cand
         /\ MovedRow(r, status).calculatedAt = r.calculatedAt /\ MovedRow(r, status).selection = r.selection
<1>1. Now \in Nat
  BY DEF Now
<1>2. QED
  BY <1>1 DEF MovedRow, Rows

\* The six things a step can do to the row.
Edits(c) ==
  /\ calls[c].pc = "update" /\ calls'[c].pc = "read"
  /\ row' = Edited(row, calls[c].patch, calls[c].keep) /\ Tick
  /\ WritableBy(TRUE, row.status, calls[c].side)

Stores(c) ==
  /\ calls[c].pc = "write" /\ Unmoved(calls[c].snap)
  /\ Class[calls[c].snap.inputs][calls[c].gen] = "ok"
  /\ row' = Calculated(row, calls[c].snap.inputs, calls[c].gen, Now) /\ Tick

Clears(c) ==
  /\ calls[c].pc = "write" /\ Unmoved(calls[c].snap)
  /\ row' = Emptied(row) /\ UNCHANGED clock

Moves == \E status \in Statuses : row' = MovedRow(row, status) /\ Tick

Picks == row.cand # NoCand /\ row' = [row EXCEPT !.selection = row.calculatedAt] /\ UNCHANGED clock

Keeps == row' = row /\ clock' \in {clock, Now}

\* Every step of the system does one of them.
LEMMA RowSteps ==
  ASSUME TypeOK, [Next]_vars
  PROVE  Keeps \/ Moves \/ Picks \/ \E c \in Calls : Edits(c) \/ Stores(c) \/ Clears(c)
<1>1. ASSUME NEW c \in Calls, Gate(c) \/ ReadRow(c) \/ Derive(c) \/ Reread(c) \/ Stamp(c)
      PROVE  Keeps
  BY <1>1 DEF Gate, ReadRow, Derive, Reread, Stamp, Keeps
<1>2. ASSUME NEW c \in Calls, Update(c) PROVE Keeps \/ Edits(c)
  <2>1. ToView(c) => calls'[c].pc = "read"
    BY DEF ToView, Go, TypeOK, CallRecords
  <2>2. QED
    BY <1>2, <2>1 DEF Update, Keeps, Edits
<1>3. ASSUME NEW c \in Calls, Write(c) PROVE Keeps \/ Stores(c) \/ Clears(c)
  BY <1>3 DEF Write, Keeps, Stores, Clears
<1>4. ASSUME NEW status \in Statuses, MoveTo(status) PROVE Moves
  BY <1>4 DEF MoveTo, Moves, MovedRow
<1>5. {"draft", "submitted", "in_review", "returned"} \subseteq Statuses
  BY DEF Statuses
<1>6. ASSUME NEW c \in Calls, Submit(c) \/ Withdraw(c) PROVE Keeps \/ Moves
  BY <1>4, <1>5, <1>6 DEF Submit, Withdraw, Keeps
<1>7. Accept \/ SendBack => Moves
  BY <1>4, <1>5 DEF Accept, SendBack
<1>8. Assign => Moves
  <2>1. row.status \in Statuses
    BY DEF TypeOK, Rows
  <2>2. QED
    BY <1>4, <2>1 DEF Assign
<1>9. ASSUME NEW c \in Calls, NEW side,
             BeginView(c, side) \/ (\E op \in Submits : BeginSubmit(c, op))
             \/ (\E patch \in Patches \cup {NoPatch} : BeginEdit(c, side, patch))
      PROVE  Keeps
  BY <1>9 DEF BeginView, BeginSubmit, BeginEdit, Keeps
<1>10. Select => Picks
  BY DEF Select, Picks
<1>11. EngineChanges \/ UNCHANGED vars => Keeps
  BY DEF EngineChanges, Tick, Keeps, vars
<1>12. QED
  BY <1>1, <1>2, <1>3, <1>6, <1>7, <1>8, <1>9, <1>10, <1>11 DEF Next, Progress

-----------------------------------------------------------------------------
(* Type correctness.                                                       *)

\* A request record survives the updates the steps make to it.
LEMMA CallType ==
  ASSUME TypeOK, NEW c \in Calls, NEW next \in CallRecords, Go(c, next)
  PROVE  calls' \in [Calls -> CallRecords]
BY DEF TypeOK, Go

\* The row of a request that has not read it, and an idle request.
LEMMA IdleType == NewRow \in Rows /\ Idle \in CallRecords
<1>1. [f \in Fields |-> Blank] \in Inputs
  BY BlankAssumption DEF Inputs
<1>2. NewRow \in Rows
  BY <1>1 DEF NewRow, Rows, Statuses
<1>3. 0 \in 0..MaxGen
  BY BoundsAssumption
<1>4. QED
  BY <1>2, <1>3 DEF Idle, CallRecords, Sides

\* Every step leaves a row.
LEMMA RowType ==
  ASSUME TypeOK, [Next]_vars
  PROVE  row' \in Rows /\ clock' \in Nat
<1>0. row \in Rows /\ clock \in Nat /\ Now \in Nat
  BY DEF TypeOK, Now
<1>1. Keeps => row' \in Rows /\ clock' \in Nat
  BY <1>0 DEF Keeps
<1>2. Moves => row' \in Rows /\ clock' \in Nat
  BY <1>0, MovedType DEF Moves, Tick
<1>3. Picks => row' \in Rows /\ clock' \in Nat
  BY <1>0 DEF Picks, Rows
<1>4. ASSUME NEW c \in Calls, Edits(c) PROVE row' \in Rows /\ clock' \in Nat
  <2>1. calls[c].patch \in Patches \cup {NoPatch} /\ calls[c].keep \in BOOLEAN
    BY DEF TypeOK, CallRecords
  <2>2. QED
    BY <1>0, <1>4, <2>1, EditedRow DEF Edits, Tick
<1>5. ASSUME NEW c \in Calls, Stores(c) PROVE row' \in Rows /\ clock' \in Nat
  <2>1. calls[c].snap.inputs \in Inputs /\ calls[c].gen \in 0..MaxGen
    BY DEF TypeOK, CallRecords, Rows
  <2>2. QED
    BY <1>0, <1>5, <2>1, CalculatedRow DEF Stores, Tick
<1>6. ASSUME NEW c \in Calls, Clears(c) PROVE row' \in Rows /\ clock' \in Nat
  BY <1>0, <1>6, EmptiedRow DEF Clears
<1>7. QED
  BY <1>1, <1>2, <1>3, <1>4, <1>5, <1>6, RowSteps

\* Every step leaves the requests request records.
LEMMA CallsType ==
  ASSUME TypeOK, [Next]_vars
  PROVE  calls' \in [Calls -> CallRecords]
<1>0. /\ row \in Rows /\ engine.gen \in 0..MaxGen /\ calls \in [Calls -> CallRecords]
      /\ Idle \in CallRecords
  BY IdleType DEF TypeOK
<1>1. UNCHANGED calls => calls' \in [Calls -> CallRecords]
  BY <1>0
<1>2. ASSUME NEW c \in Calls, End(c) PROVE calls' \in [Calls -> CallRecords]
  BY <1>0, <1>2, CallType DEF End
<1>3. ASSUME NEW c \in Calls, ToView(c) PROVE calls' \in [Calls -> CallRecords]
  <2>1. [calls[c] EXCEPT !.pc = "read"] \in CallRecords
    BY <1>0 DEF CallRecords
  <2>2. QED
    BY <1>3, <2>1, CallType DEF ToView
<1>4. ASSUME NEW call \in CallRecords PROVE Shown(call) \in CallRecords
  BY <1>0, <1>4 DEF Shown, CallRecords
<1>5. ASSUME NEW c \in Calls, NEW side \in Sides,
             BeginView(c, side) \/ (\E op \in Submits : BeginSubmit(c, op)) \/ Withdraw(c)
      PROVE  calls' \in [Calls -> CallRecords]
  <2>1. [Idle EXCEPT !.op = "view", !.side = side, !.pc = "read"] \in CallRecords
        /\ [Idle EXCEPT !.op = "view", !.pc = "read"] \in CallRecords
    BY <1>0 DEF CallRecords
  <2>2. ASSUME NEW op \in Submits PROVE [Idle EXCEPT !.op = op, !.pc = "read"] \in CallRecords
    BY <1>0 DEF CallRecords
  <2>3. QED
    BY <1>5, <2>1, <2>2, CallType DEF BeginView, BeginSubmit, Withdraw
<1>6. ASSUME NEW c \in Calls, NEW side \in Sides, NEW patch \in Patches \cup {NoPatch},
             BeginEdit(c, side, patch)
      PROVE  calls' \in [Calls -> CallRecords]
  <2>1. [Idle EXCEPT !.op = "edit", !.side = side, !.patch = patch,
                     !.pc = IF patch = NoPatch THEN "update" ELSE "gate"] \in CallRecords
    BY <1>0 DEF CallRecords
  <2>2. QED
    BY <1>6, <2>1, CallType DEF BeginEdit
<1>7. ASSUME NEW c \in Calls, Gate(c) PROVE calls' \in [Calls -> CallRecords]
  <2>1. KeepsCandidates(row.inputs, calls[c].patch, engine.gen) \in BOOLEAN
    BY DEF KeepsCandidates
  <2>2. [calls[c] EXCEPT !.pc = "update",
                         !.keep = KeepsCandidates(row.inputs, calls[c].patch, engine.gen)] \in CallRecords
    BY <1>0, <2>1 DEF CallRecords
  <2>3. QED
    BY <1>7, <2>2, CallType DEF Gate
<1>8. ASSUME NEW c \in Calls, Update(c) PROVE calls' \in [Calls -> CallRecords]
  BY <1>2, <1>3, <1>8 DEF Update
<1>9. ASSUME NEW c \in Calls, ReadRow(c) PROVE calls' \in [Calls -> CallRecords]
  <2>1. [calls[c] EXCEPT !.pc = "derive", !.snap = row] \in CallRecords
    BY <1>0 DEF CallRecords
  <2>2. QED
    BY <1>9, <2>1, CallType DEF ReadRow
<1>10. ASSUME NEW c \in Calls, Derive(c) PROVE calls' \in [Calls -> CallRecords]
  <2> DEFINE seen == [calls[c] EXCEPT !.gen = engine.gen]
  <2>1. seen \in CallRecords /\ [seen EXCEPT !.pc = "write"] \in CallRecords
    BY <1>0 DEF CallRecords
  <2>2. Go(c, [seen EXCEPT !.pc = "write"]) \/ Go(c, Shown(seen))
    BY <1>10 DEF Derive
  <2>3. QED
    BY <1>4, <2>1, <2>2, CallType
<1>11. ASSUME NEW c \in Calls, Write(c) PROVE calls' \in [Calls -> CallRecords]
  <2>1. calls[c] \in CallRecords /\ [calls[c] EXCEPT !.pc = "reread"] \in CallRecords
    BY <1>0 DEF CallRecords
  <2>2. Go(c, [calls[c] EXCEPT !.pc = "reread"]) \/ Go(c, Shown(calls[c]))
    BY <1>11 DEF Write
  <2>3. QED
    BY <1>4, <2>1, <2>2, CallType
<1>12. ASSUME NEW c \in Calls, Reread(c) PROVE calls' \in [Calls -> CallRecords]
  <2>1. PICK gen \in {calls[c].gen, engine.gen} :
          Go(c, [calls[c] EXCEPT !.pc = "stamp", !.snap = row, !.gen = gen])
    BY <1>12 DEF Reread
  <2>2. [calls[c] EXCEPT !.pc = "stamp", !.snap = row, !.gen = gen] \in CallRecords
    BY <1>0 DEF CallRecords
  <2>3. QED
    BY <2>1, <2>2, CallType
<1>13. ASSUME NEW c \in Calls, Stamp(c) \/ Submit(c) PROVE calls' \in [Calls -> CallRecords]
  <2>1. [calls[c] EXCEPT !.pc = "move", !.stamp = row.calculatedAt] \in CallRecords
    BY <1>0 DEF CallRecords, Rows
  <2>2. QED
    BY <1>2, <1>13, <2>1, CallType DEF Stamp, Submit
<1>14. Accept \/ SendBack \/ Assign \/ Select \/ EngineChanges \/ UNCHANGED vars => UNCHANGED calls
  BY DEF Accept, SendBack, Assign, Select, EngineChanges, vars
<1>15. "external" \in Sides
  BY DEF Sides
<1>16. QED
  BY <1>1, <1>5, <1>6, <1>7, <1>8, <1>9, <1>10, <1>11, <1>12, <1>13, <1>14, <1>15 DEF Next, Progress

\* The state always has its type, whatever the engine says of the inputs.
THEOREM TypeCorrect == Spec => []TypeOK
<1>1. Init => TypeOK
  BY IdleType, BoundsAssumption DEF Init, TypeOK
<1>2. TypeOK /\ [Next]_vars => TypeOK'
  <2> SUFFICES ASSUME TypeOK, [Next]_vars PROVE TypeOK'
    OBVIOUS
  <2>1. engine' = engine \/ EngineChanges
    BY DEF Next, Progress, Gate, Update, ReadRow, Derive, Write, Reread, Stamp, Submit, Withdraw,
           BeginSubmit, BeginView, BeginEdit, Accept, SendBack, Assign, Select, vars
  <2>2. engine' \in [gen: 0..MaxGen, at: Nat]
    BY <2>1, BoundsAssumption DEF EngineChanges, TypeOK, Now
  <2>3. QED
    BY <2>2, RowType, CallsType DEF TypeOK
<1>3. QED
  BY <1>1, <1>2, PTL DEF Spec

-----------------------------------------------------------------------------
(* What the steps on the row do to its columns.                            *)

\* A stored calculation is of the snapshot's inputs and has a stamp.
LEMMA StoredColumns ==
  ASSUME TypeOK, NEW c \in Calls, Stores(c)
  PROVE  /\ row'.cand = [of |-> calls[c].snap.inputs, gen |-> calls[c].gen]
         /\ row'.cand # NoCand /\ row'.calculatedAt = Now /\ Now # 0 /\ row'.selection = 0
         /\ row'.status = row.status /\ row'.inputs = row.inputs /\ row'.version = row.version
<1>1. row \in Rows /\ Now \in Nat /\ Now # 0
  BY DEF TypeOK, Now
<1>2. calls[c].snap.inputs \in Inputs /\ calls[c].gen \in 0..MaxGen
  BY DEF TypeOK, CallRecords, Rows
<1>3. [of |-> calls[c].snap.inputs, gen |-> calls[c].gen] # NoCand
  BY <1>2, NoCandAssumption
<1>4. row' = Calculated(row, calls[c].snap.inputs, calls[c].gen, Now)
  BY DEF Stores
<1>5. QED
  BY <1>1, <1>2, <1>3, <1>4, CalculatedRow

\* An edit moves the version and keeps or drops the calculation.
LEMMA EditedColumns ==
  ASSUME TypeOK, NEW c \in Calls, Edits(c)
  PROVE  /\ row'.version = Now /\ row'.status = row.status
         /\ \/ row'.cand = row.cand /\ row'.calculatedAt = row.calculatedAt /\ row'.selection = row.selection
            \/ row'.cand = NoCand /\ row'.calculatedAt = 0 /\ row'.selection = 0
<1>1. row \in Rows /\ clock \in Nat
  BY DEF TypeOK
<1>2. calls[c].patch \in Patches \cup {NoPatch} /\ calls[c].keep \in BOOLEAN
  BY DEF TypeOK, CallRecords
<1>3. row' = Edited(row, calls[c].patch, calls[c].keep)
  BY DEF Edits
<1>4. QED
  BY <1>1, <1>2, <1>3, EditedRow

\* Clearing, moving and picking leave the other columns alone.
LEMMA OtherColumns ==
  ASSUME TypeOK
  PROVE  /\ \A c \in Calls : Clears(c) =>
              /\ row'.cand = NoCand /\ row'.calculatedAt = 0 /\ row'.selection = 0
              /\ row'.status = row.status /\ row'.inputs = row.inputs /\ row'.version = row.version
         /\ Moves =>
              /\ row'.cand = row.cand /\ row'.calculatedAt = row.calculatedAt
              /\ row'.selection = row.selection /\ row'.inputs = row.inputs /\ row'.version = Now
         /\ Picks =>
              /\ row'.cand = row.cand /\ row'.calculatedAt = row.calculatedAt
              /\ row'.selection = row.calculatedAt
              /\ row'.status = row.status /\ row'.inputs = row.inputs /\ row'.version = row.version
<1>1. row \in Rows /\ clock \in Nat
  BY DEF TypeOK
<1>2. ASSUME NEW c \in Calls, Clears(c)
      PROVE  /\ row'.cand = NoCand /\ row'.calculatedAt = 0 /\ row'.selection = 0
             /\ row'.status = row.status /\ row'.inputs = row.inputs /\ row'.version = row.version
  <2>1. row' = Emptied(row)
    BY <1>2 DEF Clears
  <2>2. QED
    BY <1>1, <2>1, EmptiedRow
<1>3. ASSUME Moves
      PROVE  /\ row'.cand = row.cand /\ row'.calculatedAt = row.calculatedAt
             /\ row'.selection = row.selection /\ row'.inputs = row.inputs /\ row'.version = Now
  <2>1. PICK status \in Statuses : row' = MovedRow(row, status)
    BY <1>3 DEF Moves
  <2>2. QED
    BY <1>1, <2>1, MovedType
<1>4. ASSUME Picks
      PROVE  /\ row'.cand = row.cand /\ row'.calculatedAt = row.calculatedAt
             /\ row'.selection = row.calculatedAt
             /\ row'.status = row.status /\ row'.inputs = row.inputs /\ row'.version = row.version
  BY <1>1, <1>4 DEF Picks, Rows
<1>5. QED
  BY <1>2, <1>3, <1>4

-----------------------------------------------------------------------------
(* The stored calculation's columns agree with one another.                *)

\* There is a stamp exactly when there are candidates: no write sets or clears
\* one without the other.
THEOREM StampSound == Spec => []StampMeansCandidates
<1>1. Init => StampMeansCandidates
  BY DEF Init, NewRow, StampMeansCandidates
<1>2. TypeOK /\ StampMeansCandidates /\ [Next]_vars => StampMeansCandidates'
  <2> SUFFICES ASSUME TypeOK, StampMeansCandidates, [Next]_vars PROVE StampMeansCandidates'
    OBVIOUS
  <2>1. CASE Keeps
    BY <2>1 DEF Keeps, StampMeansCandidates
  <2>2. CASE Moves \/ Picks
    BY <2>2, OtherColumns DEF StampMeansCandidates
  <2>3. ASSUME NEW c \in Calls, Edits(c) PROVE StampMeansCandidates'
    BY <2>3, EditedColumns DEF StampMeansCandidates
  <2>4. ASSUME NEW c \in Calls, Stores(c) PROVE StampMeansCandidates'
    BY <2>4, StoredColumns DEF StampMeansCandidates
  <2>5. ASSUME NEW c \in Calls, Clears(c) PROVE StampMeansCandidates'
    BY <2>5, OtherColumns DEF StampMeansCandidates
  <2>6. QED
    BY <2>1, <2>2, <2>3, <2>4, <2>5, RowSteps
<1>3. QED
  BY <1>1, <1>2, TypeCorrect, PTL DEF Spec

\* The picks never outlive the candidates they index.
THEOREM PicksSound == Spec => []PicksFollowCandidates
<1>1. Init => PicksFollowCandidates
  BY DEF Init, NewRow, PicksFollowCandidates
<1>2. TypeOK /\ PicksFollowCandidates /\ [Next]_vars => PicksFollowCandidates'
  <2> SUFFICES ASSUME TypeOK, PicksFollowCandidates, [Next]_vars PROVE PicksFollowCandidates'
    OBVIOUS
  <2>1. CASE Keeps
    BY <2>1 DEF Keeps, PicksFollowCandidates
  <2>2. CASE Moves \/ Picks
    BY <2>2, OtherColumns DEF PicksFollowCandidates
  <2>3. ASSUME NEW c \in Calls, Edits(c) PROVE PicksFollowCandidates'
    BY <2>3, EditedColumns DEF PicksFollowCandidates
  <2>4. ASSUME NEW c \in Calls, Stores(c) PROVE PicksFollowCandidates'
    BY <2>4, StoredColumns DEF PicksFollowCandidates
  <2>5. ASSUME NEW c \in Calls, Clears(c) PROVE PicksFollowCandidates'
    BY <2>5, OtherColumns DEF PicksFollowCandidates
  <2>6. QED
    BY <2>1, <2>2, <2>3, <2>4, <2>5, RowSteps
<1>3. QED
  BY <1>1, <1>2, TypeCorrect, PTL DEF Spec

-----------------------------------------------------------------------------
(* Optimistic concurrency: a version names one status and one set of inputs. *)

\* The snapshot a request calculates from is no newer than the row, and at the
\* row's version it is the row: same status, same inputs.
SnapshotsHold ==
  /\ row.version <= clock
  /\ \A c \in Calls : calls[c].pc \in {"derive", "write"} =>
       /\ calls[c].snap.version <= row.version
       /\ calls[c].snap.version = row.version =>
            calls[c].snap.status = row.status /\ calls[c].snap.inputs = row.inputs

\* Only a side that could write the project it read is about to store figures.
WritersOnly ==
  \A c \in Calls : calls[c].pc = "write" => CanWrite(TRUE, calls[c].snap.status, calls[c].side)

IInv == TypeOK /\ SnapshotsHold /\ WritersOnly

\* What a step does to one request that is about to calculate or to write.
LEMMA CallSteps ==
  ASSUME TypeOK, [Next]_vars, NEW c \in Calls, calls'[c].pc \in {"derive", "write"}
  PROVE  \/ calls'[c] = calls[c]
         \/ calls'[c].pc = "derive" /\ calls'[c].snap = row /\ row' = row /\ clock' = clock
         \/ /\ calls[c].pc = "derive" /\ calls'[c].snap = calls[c].snap /\ calls'[c].side = calls[c].side
            /\ row' = row /\ clock' = clock
            /\ calls'[c].pc = "write" /\ CanWrite(TRUE, calls[c].snap.status, calls[c].side)
<1>1. calls[c] \in CallRecords /\ calls \in [Calls -> CallRecords]
  BY DEF TypeOK
<1>2. ASSUME NEW d \in Calls, NEW next, Go(d, next), next.pc \notin {"derive", "write"}
      PROVE  calls'[c] = calls[c]
  BY <1>1, <1>2 DEF Go
<1>3. Idle \in CallRecords /\ Idle.pc = "idle"
  BY IdleType DEF Idle
<1>4. ASSUME NEW d \in Calls, End(d) \/ ToView(d) PROVE calls'[c] = calls[c]
  <2>1. [calls[d] EXCEPT !.pc = "read"].pc = "read"
    BY <1>1 DEF CallRecords
  <2>2. QED
    BY <1>2, <1>3, <1>4, <2>1 DEF End, ToView
<1>5. ASSUME NEW call \in CallRecords PROVE Shown(call).pc \in {"idle", "stamp"}
  BY <1>3, <1>5 DEF Shown, CallRecords
<1>6. ASSUME NEW d \in Calls, NEW side \in Sides,
             BeginView(d, side) \/ (\E op \in Submits : BeginSubmit(d, op)) \/ Withdraw(d)
             \/ (\E patch \in Patches \cup {NoPatch} : BeginEdit(d, side, patch))
      PROVE  calls'[c] = calls[c]
  <2>1. /\ [Idle EXCEPT !.op = "view", !.side = side, !.pc = "read"].pc = "read"
        /\ [Idle EXCEPT !.op = "view", !.pc = "read"].pc = "read"
        /\ \A op \in Submits : [Idle EXCEPT !.op = op, !.pc = "read"].pc = "read"
    BY <1>3 DEF CallRecords
  <2>2. \A patch \in Patches \cup {NoPatch} :
          [Idle EXCEPT !.op = "edit", !.side = side, !.patch = patch,
                       !.pc = IF patch = NoPatch THEN "update" ELSE "gate"].pc \in {"update", "gate"}
    BY <1>3 DEF CallRecords
  <2>3. QED
    BY <1>2, <1>6, <2>1, <2>2 DEF BeginView, BeginSubmit, Withdraw, BeginEdit
<1>7. ASSUME NEW d \in Calls, Gate(d) \/ Update(d) \/ Reread(d) \/ Stamp(d) \/ Submit(d)
      PROVE  calls'[c] = calls[c]
  <2>1. \A keep : [calls[d] EXCEPT !.pc = "update", !.keep = keep].pc = "update"
    BY <1>1 DEF CallRecords
  <2>2. \A s, gen : [calls[d] EXCEPT !.pc = "stamp", !.snap = s, !.gen = gen].pc = "stamp"
    BY <1>1 DEF CallRecords
  <2>3. \A stamp : [calls[d] EXCEPT !.pc = "move", !.stamp = stamp].pc = "move"
    BY <1>1 DEF CallRecords
  <2>4. Gate(d) => calls'[c] = calls[c]
    BY <1>2, <2>1 DEF Gate
  <2>5. Reread(d) => calls'[c] = calls[c]
    BY <1>2, <2>2 DEF Reread
  <2>6. Stamp(d) => calls'[c] = calls[c]
    BY <1>2, <1>4, <2>3 DEF Stamp
  <2>7. Update(d) \/ Submit(d) => calls'[c] = calls[c]
    BY <1>4 DEF Update, Submit
  <2>8. QED
    BY <1>7, <2>4, <2>5, <2>6, <2>7
<1>8. ASSUME NEW d \in Calls, ReadRow(d)
      PROVE  \/ calls'[c] = calls[c]
             \/ calls'[c].pc = "derive" /\ calls'[c].snap = row /\ row' = row /\ clock' = clock
  BY <1>1, <1>8 DEF ReadRow, Go, CallRecords
<1>9. ASSUME NEW d \in Calls, Derive(d)
      PROVE  \/ calls'[c] = calls[c]
             \/ /\ calls[c].pc = "derive" /\ calls'[c].snap = calls[c].snap /\ calls'[c].side = calls[c].side
                /\ row' = row /\ clock' = clock
                /\ calls'[c].pc = "write" /\ CanWrite(TRUE, calls[c].snap.status, calls[c].side)
  <2> DEFINE seen == [calls[d] EXCEPT !.gen = engine.gen]
             next == [seen EXCEPT !.pc = "write"]
  <2>1. /\ seen \in CallRecords
        /\ next.pc = "write" /\ next.snap = calls[d].snap /\ next.side = calls[d].side
    BY <1>1 DEF CallRecords, TypeOK
  <2>2. \/ Go(d, next) /\ CanWrite(TRUE, calls[d].snap.status, calls[d].side)
        \/ Go(d, Shown(seen))
    BY <1>9 DEF Derive
  <2>3. calls[d].pc = "derive" /\ row' = row /\ clock' = clock
    BY <1>9 DEF Derive
  <2> HIDE DEF seen, next
  <2>4. CASE Go(d, Shown(seen))
    BY <1>2, <1>5, <2>1, <2>4
  <2>5. CASE Go(d, next) /\ CanWrite(TRUE, calls[d].snap.status, calls[d].side)
    BY <1>1, <2>1, <2>3, <2>5 DEF Go
  <2>6. QED
    BY <2>2, <2>4, <2>5
<1>10. ASSUME NEW d \in Calls, Write(d) PROVE calls'[c] = calls[c]
  <2>1. [calls[d] EXCEPT !.pc = "reread"].pc = "reread" /\ calls[d] \in CallRecords
    BY <1>1 DEF CallRecords
  <2>2. Go(d, [calls[d] EXCEPT !.pc = "reread"]) \/ Go(d, Shown(calls[d]))
    BY <1>10 DEF Write
  <2>3. QED
    BY <1>2, <1>5, <2>1, <2>2
<1>11. Accept \/ SendBack \/ Assign \/ Select \/ EngineChanges \/ UNCHANGED vars => calls'[c] = calls[c]
  BY DEF Accept, SendBack, Assign, Select, EngineChanges, vars
<1>12. "external" \in Sides
  BY DEF Sides
<1>13. QED
  BY <1>6, <1>7, <1>8, <1>9, <1>10, <1>11, <1>12 DEF Next, Progress

\* The invariant is inductive.
LEMMA SnapshotsInductive == Spec => []IInv
<1>1. Init => IInv
  <2>1. Init => row.version <= clock /\ \A c \in Calls : calls[c].pc = "idle"
    BY DEF Init, NewRow, Idle
  <2>2. Init => TypeOK
    BY IdleType, BoundsAssumption DEF Init, TypeOK
  <2>3. QED
    BY <2>1, <2>2 DEF IInv, SnapshotsHold, WritersOnly
<1>2. IInv /\ TypeOK' /\ [Next]_vars => IInv'
  <2> SUFFICES ASSUME IInv, TypeOK', [Next]_vars PROVE IInv'
    OBVIOUS
  <2>0. TypeOK /\ row \in Rows /\ clock \in Nat /\ Now = clock + 1
        /\ row.version \in Nat /\ row.version <= clock
    BY DEF IInv, TypeOK, SnapshotsHold, Rows, Now
  <2>1. \/ row'.version = row.version /\ row'.status = row.status /\ row'.inputs = row.inputs
           /\ clock' \in {clock, Now}
        \/ row'.version = Now /\ clock' = Now
    <3>1. CASE Keeps
      BY <3>1 DEF Keeps
    <3>2. CASE Moves
      BY <2>0, <3>2, OtherColumns DEF Moves, Tick
    <3>3. CASE Picks
      BY <2>0, <3>3, OtherColumns DEF Picks
    <3>4. ASSUME NEW c \in Calls, Edits(c) PROVE row'.version = Now /\ clock' = Now
      BY <2>0, <3>4, EditedColumns DEF Edits, Tick
    <3>5. ASSUME NEW c \in Calls, Stores(c) \/ Clears(c)
          PROVE  row'.version = row.version /\ row'.status = row.status /\ row'.inputs = row.inputs
                 /\ clock' \in {clock, Now}
      BY <2>0, <3>5, StoredColumns, OtherColumns DEF Stores, Clears, Tick
    <3>6. QED
      BY <2>0, <3>1, <3>2, <3>3, <3>4, <3>5, RowSteps
  <2>2. row'.version <= clock'
    BY <2>0, <2>1
  <2>3. ASSUME NEW c \in Calls, calls'[c].pc \in {"derive", "write"}
        PROVE  /\ calls'[c].snap.version <= row'.version
               /\ calls'[c].snap.version = row'.version =>
                    calls'[c].snap.status = row'.status /\ calls'[c].snap.inputs = row'.inputs
    <3>1. CASE calls'[c] = calls[c]
      <4>1. /\ calls[c].snap.version <= row.version
            /\ calls[c].snap.version = row.version =>
                 calls[c].snap.status = row.status /\ calls[c].snap.inputs = row.inputs
        BY <2>3, <3>1 DEF IInv, SnapshotsHold
      <4>2. calls[c].snap.version \in Nat
        BY <2>0 DEF TypeOK, CallRecords, Rows
      <4>3. QED
        BY <2>0, <2>1, <3>1, <4>1, <4>2
    <3>2. CASE calls'[c].snap = row /\ row' = row
      BY <2>0, <3>2
    <3>3. CASE calls[c].pc = "derive" /\ calls'[c].snap = calls[c].snap /\ row' = row
      BY <3>3 DEF IInv, SnapshotsHold
    <3>4. QED
      BY <2>0, <2>3, <3>1, <3>2, <3>3, CallSteps
  <2>4. ASSUME NEW c \in Calls, calls'[c].pc = "write"
        PROVE  CanWrite(TRUE, calls'[c].snap.status, calls'[c].side)
    <3>1. CASE calls'[c] = calls[c]
      BY <2>4, <3>1 DEF IInv, WritersOnly
    <3>2. CASE calls'[c] # calls[c]
      <4>1. calls'[c].snap = calls[c].snap /\ calls'[c].side = calls[c].side
            /\ CanWrite(TRUE, calls[c].snap.status, calls[c].side)
        BY <2>0, <2>4, <3>2, CallSteps
      <4>2. QED
        BY <4>1
    <3>3. QED
      BY <3>1, <3>2
  <2>5. QED
    BY <2>2, <2>3, <2>4 DEF IInv, SnapshotsHold, WritersOnly
<1>3. QED
  BY <1>1, <1>2, TypeCorrect, PTL DEF Spec

\* The figures a refresh stores are always those of the inputs beside them,
\* however many edits and refreshes overlap.
THEOREM RefreshSound == Spec => RefreshNeverMismatches
<1>1. IInv /\ [Next]_vars
        => (row'.cand # row.cand /\ row'.cand # NoCand => row'.cand.of = row'.inputs)
  <2> SUFFICES ASSUME IInv, [Next]_vars, row'.cand # row.cand, row'.cand # NoCand
               PROVE  row'.cand.of = row'.inputs
    OBVIOUS
  <2>0. TypeOK
    BY DEF IInv
  <2>1. ASSUME NEW c \in Calls, Stores(c) PROVE row'.cand.of = row'.inputs
    <3>1. calls[c].pc = "write" /\ row.version = calls[c].snap.version
      BY <2>1 DEF Stores, Unmoved
    <3>2. calls[c].snap.inputs = row.inputs
      BY <3>1 DEF IInv, SnapshotsHold
    <3>3. row'.cand = [of |-> calls[c].snap.inputs, gen |-> calls[c].gen] /\ row'.inputs = row.inputs
      BY <2>0, <2>1, StoredColumns
    <3>4. QED
      BY <3>2, <3>3
  <2>2. ASSUME NEW c \in Calls, Edits(c) \/ Clears(c) PROVE FALSE
    BY <2>0, <2>2, EditedColumns, OtherColumns
  <2>3. ~Keeps /\ ~Moves /\ ~Picks
    BY <2>0, OtherColumns DEF Keeps
  <2>4. QED
    BY <2>0, <2>1, <2>2, <2>3, RowSteps
<1>2. QED
  BY <1>1, SnapshotsInductive, PTL DEF Spec, RefreshNeverMismatches

\* What a client handed over stays as the client saw it while it is submitted:
\* no edit and no refresh that began before the hand-over lands on it.
THEOREM FiguresStay == Spec => SubmittedFiguresStay
<1>1. IInv /\ [Next]_vars
        => (row.status = "submitted" /\ row'.status = "submitted"
              => row'.cand = row.cand /\ row'.calculatedAt = row.calculatedAt /\ row'.inputs = row.inputs)
  <2> SUFFICES ASSUME IInv, [Next]_vars, row.status = "submitted"
               PROVE  row'.cand = row.cand /\ row'.calculatedAt = row.calculatedAt /\ row'.inputs = row.inputs
    OBVIOUS
  <2>0. TypeOK
    BY DEF IInv
  <2>1. ASSUME NEW c \in Calls, Stores(c) \/ Clears(c) PROVE FALSE
    <3>1. calls[c].pc = "write" /\ row.version = calls[c].snap.version
      BY <2>1 DEF Stores, Clears, Unmoved
    <3>2. calls[c].snap.status = "submitted" /\ CanWrite(TRUE, calls[c].snap.status, calls[c].side)
      BY <3>1 DEF IInv, SnapshotsHold, WritersOnly
    <3>3. QED
      BY <3>2 DEF CanWrite
  <2>2. ASSUME NEW c \in Calls, Edits(c) PROVE FALSE
    BY <2>2 DEF Edits, WritableBy
  <2>3. QED
    BY <2>0, <2>1, <2>2, RowSteps, OtherColumns DEF Keeps
<1>2. QED
  BY <1>1, SnapshotsInductive, PTL DEF Spec, SubmittedFiguresStay

-----------------------------------------------------------------------------
(* One edit at a time: what the keep decision was made about is still there. *)

\* The data of some time until generation n says that inputs x break a rule.
Broke(x, n) == \E gen \in 0..n : Class[x][gen] = "conflict"

\* A request names no data newer than there is; only an edit is on its way to the
\* row, and one that keeps the candidates was told so of what it will write.
EditSound(c) ==
  /\ calls[c].gen <= engine.gen
  /\ calls[c].pc \in {"gate", "update"} => calls[c].op = "edit"
  /\ calls[c].pc = "update" /\ calls[c].keep /\ calls[c].patch # NoPatch
       => Broke(Merge(row.inputs, calls[c].patch), engine.gen)

\* What is stored was found by data there was, and is of the inputs beside it
\* unless these broke a rule.
StoredSound ==
  row.cand # NoCand =>
    /\ row.cand.gen <= engine.gen /\ Class[row.cand.of][row.cand.gen] = "ok"
    /\ row.cand.of = row.inputs \/ Broke(row.inputs, engine.gen)

EInv ==
  /\ IsFiniteSet(Editing) /\ \A c, d \in Editing : c = d
  /\ \A c \in Calls : EditSound(c)
  /\ StoredSound

\* What a step makes of the request it belongs to: an edit begins, an edit passes
\* its gate, or the request goes on without becoming an edit.
Begins(k) ==
  /\ Cardinality(Editing) < MaxEdits /\ k.op = "edit" /\ k.pc # "move" /\ ~k.keep /\ k.gen = 0
  /\ UNCHANGED row

Passes(d, k) ==
  /\ calls[d].pc = "gate" /\ k.pc = "update" /\ k.op = calls[d].op /\ k.gen = calls[d].gen
  /\ k.keep = KeepsCandidates(row.inputs, k.patch, engine.gen)
  /\ UNCHANGED row

GoesOn(d, k) ==
  /\ k.pc \notin {"gate", "update"} /\ k.gen \in {0, calls[d].gen, engine.gen}
  /\ k.op = "edit" => calls[d].op = "edit"
  /\ k.pc = "move" => k.stamp # 0

\* Every step moves at most one request, in one of the three ways, and the data
\* only while no request moves.
LEMMA RequestSteps ==
  ASSUME TypeOK, [Next]_vars
  PROVE  \/ calls' = calls /\ (engine' = engine \/ (engine'.gen = engine.gen + 1 /\ row' = row))
         \/ \E d \in Calls, k \in CallRecords :
              /\ calls' = [calls EXCEPT ![d] = k] /\ engine' = engine
              /\ Begins(k) \/ Passes(d, k) \/ GoesOn(d, k)
<1> DEFINE Moved(d) == \E k \in CallRecords :
             /\ calls' = [calls EXCEPT ![d] = k] /\ engine' = engine
             /\ Begins(k) \/ Passes(d, k) \/ GoesOn(d, k)
<1>0. /\ row \in Rows /\ engine.gen \in 0..MaxGen /\ calls \in [Calls -> CallRecords]
      /\ Idle \in CallRecords /\ Idle.pc = "idle" /\ Idle.op = "idle" /\ Idle.gen = 0 /\ ~Idle.keep
  BY IdleType DEF TypeOK, Idle
<1>1. ASSUME NEW d \in Calls, NEW k \in CallRecords, Go(d, k), engine' = engine,
             Begins(k) \/ Passes(d, k) \/ GoesOn(d, k)
      PROVE  Moved(d)
  BY <1>1 DEF Go
<1> HIDE DEF Moved
<1>2. ASSUME NEW d \in Calls, End(d), engine' = engine PROVE Moved(d)
  BY <1>0, <1>1, <1>2 DEF End, GoesOn
<1>3. ASSUME NEW d \in Calls, ToView(d), engine' = engine PROVE Moved(d)
  <2> DEFINE k == [calls[d] EXCEPT !.pc = "read"]
  <2>1. k \in CallRecords /\ k.pc = "read" /\ k.gen = calls[d].gen /\ k.op = calls[d].op
    BY <1>0 DEF CallRecords
  <2>2. Go(d, k)
    BY <1>3 DEF ToView
  <2> HIDE DEF k
  <2>3. QED
    BY <1>1, <1>3, <2>1, <2>2 DEF GoesOn
<1>4. ASSUME NEW d \in Calls, NEW k \in CallRecords, k.pc \notin {"gate", "update"},
             k.gen \in {calls[d].gen, engine.gen}, k.op = calls[d].op, k.pc # "move"
      PROVE  Shown(k) \in CallRecords /\ GoesOn(d, Shown(k))
  <2>1. CASE k.op \in Submits
    <3>1. /\ Shown(k) = [k EXCEPT !.pc = "stamp"] /\ Shown(k) \in CallRecords
          /\ Shown(k).pc = "stamp" /\ Shown(k).gen = k.gen /\ Shown(k).op = k.op
      BY <2>1 DEF Shown, CallRecords
    <3>2. QED
      BY <1>4, <3>1 DEF GoesOn
  <2>2. CASE k.op \notin Submits
    BY <1>0, <2>2 DEF Shown, GoesOn
  <2>3. QED
    BY <2>1, <2>2
<1>5. ASSUME NEW d \in Calls, NEW side \in Sides,
             BeginView(d, side) \/ (\E op \in Submits : BeginSubmit(d, op)) \/ Withdraw(d)
      PROVE  Moved(d)
  <2>1. engine' = engine
    BY <1>5 DEF BeginView, BeginSubmit, Withdraw
  <2>2. ASSUME NEW op \in Submits \cup {"view"}, NEW k \in CallRecords,
               Go(d, k), k.pc = "read", k.gen = 0, k.op = op
        PROVE  Moved(d)
    <3>1. op # "edit"
      BY DEF Submits
    <3>2. QED
      BY <1>1, <2>1, <2>2, <3>1 DEF GoesOn
  <2>3. ASSUME NEW op \in Submits \cup {"view"}, Go(d, [Idle EXCEPT !.op = op, !.pc = "read"])
        PROVE  Moved(d)
    <3> DEFINE k == [Idle EXCEPT !.op = op, !.pc = "read"]
    <3>1. k \in CallRecords /\ k.pc = "read" /\ k.gen = 0 /\ k.op = op
      BY <1>0 DEF CallRecords
    <3> HIDE DEF k
    <3>2. QED
      BY <2>2, <2>3, <3>1 DEF k
  <2>4. BeginView(d, side) => Moved(d)
    <3> DEFINE k == [Idle EXCEPT !.op = "view", !.side = side, !.pc = "read"]
    <3>1. k \in CallRecords /\ k.pc = "read" /\ k.gen = 0 /\ k.op = "view"
      BY <1>0 DEF CallRecords
    <3>2. BeginView(d, side) => Go(d, k)
      BY DEF BeginView
    <3> HIDE DEF k
    <3>3. QED
      BY <2>2, <3>1, <3>2
  <2>5. ASSUME NEW op \in Submits, BeginSubmit(d, op) PROVE Moved(d)
    BY <2>3, <2>5 DEF BeginSubmit
  <2>6. Withdraw(d) => Moved(d)
    BY <2>3 DEF Withdraw
  <2>7. QED
    BY <1>5, <2>4, <2>5, <2>6
<1>6. ASSUME NEW d \in Calls, NEW side \in Sides, NEW patch \in Patches \cup {NoPatch},
             BeginEdit(d, side, patch)
      PROVE  Moved(d)
  <2> DEFINE k == [Idle EXCEPT !.op = "edit", !.side = side, !.patch = patch,
                               !.pc = IF patch = NoPatch THEN "update" ELSE "gate"]
  <2>1. k \in CallRecords /\ k.op = "edit" /\ k.pc # "move" /\ ~k.keep /\ k.gen = 0
    BY <1>0 DEF CallRecords
  <2>2. Go(d, k) /\ engine' = engine /\ row' = row /\ Cardinality(Editing) < MaxEdits
    BY <1>6 DEF BeginEdit
  <2> HIDE DEF k
  <2>3. QED
    BY <1>1, <2>1, <2>2 DEF Begins
<1>7. ASSUME NEW d \in Calls, Gate(d) PROVE Moved(d)
  <2> DEFINE keep == KeepsCandidates(row.inputs, calls[d].patch, engine.gen)
             k == [calls[d] EXCEPT !.pc = "update", !.keep = keep]
  <2>1. keep \in BOOLEAN
    BY DEF KeepsCandidates
  <2> HIDE DEF keep
  <2>2. /\ k \in CallRecords /\ k.pc = "update" /\ k.keep = keep /\ k.op = calls[d].op
        /\ k.gen = calls[d].gen /\ k.patch = calls[d].patch
    BY <1>0, <2>1 DEF CallRecords
  <2>3. Go(d, k) /\ calls[d].pc = "gate" /\ engine' = engine /\ row' = row
    BY <1>7 DEF Gate, keep
  <2> HIDE DEF k
  <2>4. QED
    BY <1>1, <2>2, <2>3 DEF Passes, keep
<1>8. ASSUME NEW d \in Calls, Update(d) \/ Submit(d) PROVE Moved(d)
  BY <1>2, <1>3, <1>8 DEF Update, Submit
<1>9. ASSUME NEW d \in Calls, ReadRow(d) \/ Reread(d) PROVE Moved(d)
  <2>1. PICK k \in CallRecords : /\ Go(d, k) /\ k.pc \in {"derive", "stamp"} /\ k.op = calls[d].op
                                 /\ k.gen \in {calls[d].gen, engine.gen}
    <3>1. CASE ReadRow(d)
      <4> DEFINE k == [calls[d] EXCEPT !.pc = "derive", !.snap = row]
      <4>1. k \in CallRecords /\ k.pc = "derive" /\ k.op = calls[d].op /\ k.gen = calls[d].gen
        BY <1>0 DEF CallRecords
      <4>2. QED
        BY <3>1, <4>1 DEF ReadRow
    <3>2. CASE Reread(d)
      <4>1. PICK gen \in {calls[d].gen, engine.gen} :
              Go(d, [calls[d] EXCEPT !.pc = "stamp", !.snap = row, !.gen = gen])
        BY <3>2 DEF Reread
      <4> DEFINE k == [calls[d] EXCEPT !.pc = "stamp", !.snap = row, !.gen = gen]
      <4>2. k \in CallRecords /\ k.pc = "stamp" /\ k.op = calls[d].op /\ k.gen = gen
        BY <1>0 DEF CallRecords
      <4>3. QED
        BY <4>1, <4>2
    <3>3. QED
      BY <1>9, <3>1, <3>2
  <2>2. engine' = engine
    BY <1>9 DEF ReadRow, Reread
  <2>3. QED
    BY <1>1, <2>1, <2>2 DEF GoesOn
<1>10. ASSUME NEW d \in Calls, Derive(d) PROVE Moved(d)
  <2> DEFINE seen == [calls[d] EXCEPT !.gen = engine.gen]
             next == [seen EXCEPT !.pc = "write"]
  <2>0. calls[d].pc = "derive" /\ engine' = engine /\ (Go(d, next) \/ Go(d, Shown(seen)))
    BY <1>10 DEF Derive
  <2>1. /\ seen \in CallRecords /\ seen.gen = engine.gen /\ seen.op = calls[d].op /\ seen.pc = "derive"
        /\ next \in CallRecords /\ next.gen = engine.gen /\ next.op = calls[d].op /\ next.pc = "write"
    BY <1>0, <2>0 DEF CallRecords
  <2> HIDE DEF seen, next
  <2>2. GoesOn(d, next) /\ GoesOn(d, Shown(seen)) /\ Shown(seen) \in CallRecords
    BY <1>4, <2>1 DEF GoesOn
  <2>3. QED
    BY <1>1, <2>0, <2>1, <2>2
<1>11. ASSUME NEW d \in Calls, Write(d) PROVE Moved(d)
  <2> DEFINE next == [calls[d] EXCEPT !.pc = "reread"]
  <2>0. calls[d].pc = "write" /\ engine' = engine /\ (Go(d, next) \/ Go(d, Shown(calls[d])))
    BY <1>11 DEF Write
  <2>1. /\ next \in CallRecords /\ next.gen = calls[d].gen /\ next.op = calls[d].op /\ next.pc = "reread"
        /\ calls[d] \in CallRecords
    BY <1>0 DEF CallRecords
  <2> HIDE DEF next
  <2>2. GoesOn(d, next) /\ GoesOn(d, Shown(calls[d])) /\ Shown(calls[d]) \in CallRecords
    BY <1>4, <2>0, <2>1 DEF GoesOn
  <2>3. QED
    BY <1>1, <2>0, <2>1, <2>2
<1>12. ASSUME NEW d \in Calls, Stamp(d) PROVE Moved(d)
  <2> DEFINE next == [calls[d] EXCEPT !.pc = "move", !.stamp = row.calculatedAt]
  <2>1. /\ next \in CallRecords /\ next.gen = calls[d].gen /\ next.op = calls[d].op /\ next.pc = "move"
        /\ next.stamp = row.calculatedAt
    BY <1>0 DEF CallRecords, Rows
  <2>2. engine' = engine /\ ((Go(d, next) /\ row.calculatedAt # 0) \/ End(d))
    BY <1>12 DEF Stamp
  <2> HIDE DEF next
  <2>3. QED
    BY <1>1, <1>2, <2>1, <2>2 DEF GoesOn
<1>13. Accept \/ SendBack \/ Assign \/ Select \/ UNCHANGED vars => calls' = calls /\ engine' = engine
  BY DEF Accept, SendBack, Assign, Select, vars
<1>14. EngineChanges => calls' = calls /\ row' = row /\ engine'.gen = engine.gen + 1
  BY DEF EngineChanges
<1>15. "external" \in Sides
  BY DEF Sides
<1>16. ASSUME NEW d \in Calls, Progress(d) \/ Withdraw(d) \/ \E op \in Submits : BeginSubmit(d, op)
       PROVE  Moved(d)
  BY <1>5, <1>7, <1>8, <1>9, <1>10, <1>11, <1>12, <1>15, <1>16 DEF Progress
<1>17. ASSUME NEW d \in Calls, NEW side \in Sides,
              BeginView(d, side) \/ \E patch \in Patches \cup {NoPatch} : BeginEdit(d, side, patch)
       PROVE  Moved(d)
  BY <1>5, <1>6, <1>17
<1>18. \/ calls' = calls /\ (engine' = engine \/ (engine'.gen = engine.gen + 1 /\ row' = row))
       \/ \E d \in Calls : Moved(d)
  <2>1. CASE \E c \in Calls : Progress(c) \/ Withdraw(c) \/ \E op \in Submits : BeginSubmit(c, op)
    BY <1>16, <2>1
  <2>2. CASE \E c \in Calls, side \in Sides :
               BeginView(c, side) \/ \E patch \in Patches \cup {NoPatch} : BeginEdit(c, side, patch)
    BY <1>17, <2>2
  <2>3. CASE Accept \/ SendBack \/ Assign \/ Select \/ UNCHANGED vars
    BY <1>13, <2>3
  <2>4. CASE EngineChanges
    BY <1>14, <2>4
  <2>5. QED
    BY <2>1, <2>2, <2>3, <2>4 DEF Next
<1>19. QED
  BY <1>18 DEF Moved

\* What an edit does to the inputs, and to the candidates beside them.
LEMMA EditedInputs ==
  ASSUME clock \in Nat, NEW r \in Rows, NEW patch \in Patches \cup {NoPatch}, NEW keep \in BOOLEAN
  PROVE  \/ Edited(r, patch, keep).cand = NoCand
         \/ /\ Edited(r, patch, keep).cand = r.cand
            /\ \/ patch = NoPatch /\ Edited(r, patch, keep).inputs = r.inputs
               \/ patch # NoPatch /\ keep /\ Edited(r, patch, keep).inputs = Merge(r.inputs, patch)
<1>0. Now \in Nat
  BY DEF Now
<1>1. CASE patch = NoPatch
  BY <1>0, <1>1 DEF Edited, Rows
<1>2. CASE patch # NoPatch
  <2> DEFINE merged == [r EXCEPT !.inputs = Merge(r.inputs, patch), !.version = Now]
  <2>1. Merge(r.inputs, patch) \in Inputs
    BY <1>2, MergeType DEF Rows
  <2>2. merged \in Rows /\ merged.cand = r.cand /\ merged.inputs = Merge(r.inputs, patch)
    BY <1>0, <2>1 DEF Rows
  <2>3. Edited(r, patch, keep) = IF keep THEN merged ELSE Emptied(merged)
    BY <1>2 DEF Edited
  <2> HIDE DEF merged
  <2>4. QED
    BY <1>2, <2>2, <2>3, EmptiedRow
<1>3. QED
  BY <1>1, <1>2

\* At most one edit is in flight, however it ends.
LEMMA EditingStep ==
  ASSUME MaxEdits <= 1, IInv, EInv, [Next]_vars
  PROVE  IsFiniteSet(Editing') /\ \A c, d \in Editing' : c = d
<1>0. TypeOK /\ calls \in [Calls -> CallRecords]
  BY DEF IInv, TypeOK
<1>1. CASE calls' = calls
  BY <1>1 DEF EInv, Editing
<1>2. ASSUME NEW d \in Calls, NEW k \in CallRecords, calls' = [calls EXCEPT ![d] = k],
             Begins(k) \/ Passes(d, k) \/ GoesOn(d, k)
      PROVE  IsFiniteSet(Editing') /\ \A c, e \in Editing' : c = e
  <2>1. CASE Begins(k)
    <3>1. Cardinality(Editing) \in Nat /\ Cardinality(Editing) < 1
      BY <2>1, BoundsAssumption, FS_CardinalityType DEF Begins, EInv
    <3>2. Editing = {}
      BY <3>1, FS_EmptySet DEF EInv
    <3>3. Editing' = {d}
      BY <1>0, <1>2, <2>1, <3>2 DEF Editing, Begins
    <3>4. QED
      BY <3>3, FS_Singleton
  <2>2. CASE Passes(d, k) \/ GoesOn(d, k)
    <3>1. Editing' \subseteq Editing
      BY <1>0, <1>2, <2>2 DEF Editing, Passes, GoesOn
    <3>2. QED
      BY <3>1, FS_Subset DEF EInv
  <2>3. QED
    BY <1>2, <2>1, <2>2
<1>3. QED
  BY <1>0, <1>1, <1>2, RequestSteps

\* The data only gets newer, and a rule broken by the data of some time stays so.
LEMMA GenerationsPass ==
  ASSUME TypeOK, [Next]_vars
  PROVE  /\ engine.gen \in Nat /\ engine'.gen \in Nat /\ engine.gen <= engine'.gen
         /\ \A x : Broke(x, engine.gen) => Broke(x, engine'.gen)
<1>1. engine.gen \in Nat /\ (engine'.gen = engine.gen \/ engine'.gen = engine.gen + 1)
  <2>1. engine.gen \in Nat
    BY BoundsAssumption DEF TypeOK
  <2>2. QED
    BY <2>1, RequestSteps
<1>2. 0..engine.gen \subseteq 0..engine'.gen
  BY <1>1
<1>3. QED
  BY <1>1, <1>2 DEF Broke

\* The inputs are changed by the one edit there is, which is then done with them.
LEMMA InputsStep ==
  ASSUME IInv, [Next]_vars
  PROVE  row'.inputs = row.inputs \/ \E e \in Calls : Edits(e)
<1>0. TypeOK
  BY DEF IInv
<1>1. ASSUME NEW c \in Calls, Stores(c) \/ Clears(c) PROVE row'.inputs = row.inputs
  BY <1>0, <1>1, StoredColumns, OtherColumns
<1>2. QED
  BY <1>0, <1>1, OtherColumns, RowSteps DEF Keeps

\* What an edit was told at the gate still holds when it writes.
LEMMA EditSoundStep ==
  ASSUME MaxEdits <= 1, IInv, EInv, [Next]_vars, NEW c \in Calls
  PROVE  EditSound(c)'
<1>0. /\ TypeOK /\ calls \in [Calls -> CallRecords] /\ engine.gen \in Nat /\ engine'.gen \in Nat
      /\ engine.gen <= engine'.gen /\ calls[c].gen \in Nat /\ calls[c].gen <= engine.gen
  BY GenerationsPass, BoundsAssumption DEF IInv, TypeOK, EInv, EditSound, CallRecords
<1>1. CASE calls'[c] = calls[c]
  <2>1. calls[c].gen <= engine'.gen
    BY <1>0
  <2>2. ASSUME calls[c].pc = "update", calls[c].keep, calls[c].patch # NoPatch
        PROVE  Broke(Merge(row'.inputs, calls[c].patch), engine'.gen)
    <3>1. ASSUME NEW e \in Calls, Edits(e) PROVE FALSE
      <4>1. c \in Editing /\ e \in Editing
        BY <2>2, <3>1 DEF EInv, EditSound, Editing, Edits
      <4>2. QED
        BY <1>1, <2>2, <3>1, <4>1 DEF EInv, Edits
    <3>2. row'.inputs = row.inputs
      BY <3>1, InputsStep
    <3>3. Broke(Merge(row.inputs, calls[c].patch), engine.gen)
      BY <2>2 DEF EInv, EditSound
    <3>4. QED
      BY <1>0, <3>2, <3>3, GenerationsPass
  <2>3. calls[c].pc \in {"gate", "update"} => calls[c].op = "edit"
    BY DEF EInv, EditSound
  <2>4. QED
    BY <1>1, <2>1, <2>2, <2>3 DEF EditSound
<1>2. CASE calls'[c] # calls[c]
  <2>1. PICK k \in CallRecords : /\ calls'[c] = k /\ engine' = engine
                                 /\ Begins(k) \/ Passes(c, k) \/ GoesOn(c, k)
    BY <1>0, <1>2, RequestSteps
  <2>2. k.gen <= engine'.gen
    BY <1>0, <2>1 DEF Begins, Passes, GoesOn
  <2>3. k.pc \in {"gate", "update"} => k.op = "edit"
    BY <2>1 DEF Begins, Passes, GoesOn, EInv, EditSound
  <2>4. ASSUME k.pc = "update", k.keep, k.patch # NoPatch 
        PROVE  Broke(Merge(row.inputs, k.patch), engine'.gen) /\ row' = row
    <3>1. Passes(c, k)
      BY <2>1, <2>4 DEF Begins, GoesOn
    <3>2. Class[Merge(row.inputs, k.patch)][engine.gen] = "conflict" /\ row' = row
      BY <2>4, <3>1 DEF Passes, KeepsCandidates
    <3>3. engine.gen \in 0..engine.gen
      BY <1>0
    <3>4. QED
      BY <2>1, <3>2, <3>3 DEF Broke
  <2>5. QED
    BY <2>1, <2>2, <2>3, <2>4 DEF EditSound
<1>3. QED
  BY <1>1, <1>2

\* Whatever is written beside the inputs is theirs, or they broke a rule.
LEMMA StoredStep ==
  ASSUME IInv, EInv, [Next]_vars
  PROVE  StoredSound'
<1>0. TypeOK /\ row \in Rows /\ clock \in Nat /\ engine.gen <= engine'.gen
      /\ engine.gen \in Nat /\ engine'.gen \in Nat
  BY GenerationsPass DEF IInv, TypeOK
<1>1. ASSUME row'.cand = row.cand, row'.inputs = row.inputs PROVE StoredSound'
  <2> SUFFICES ASSUME row.cand # NoCand
               PROVE  /\ row.cand.gen <= engine'.gen /\ Class[row.cand.of][row.cand.gen] = "ok"
                      /\ row.cand.of = row.inputs \/ Broke(row.inputs, engine'.gen)
    BY <1>1 DEF StoredSound
  <2>1. row.cand.gen \in Nat
    BY <1>0, BoundsAssumption DEF Rows, Candidates
  <2>2. QED
    BY <1>0, <2>1, GenerationsPass DEF EInv, StoredSound
<1>2. ASSUME NEW e \in Calls, Edits(e) PROVE StoredSound'
  <2>1. calls[e].patch \in Patches \cup {NoPatch} /\ calls[e].keep \in BOOLEAN
        /\ row' = Edited(row, calls[e].patch, calls[e].keep)
    BY <1>0, <1>2 DEF TypeOK, CallRecords, Edits
  <2>2. CASE row'.cand = NoCand
    BY <2>2 DEF StoredSound
  <2>3. CASE row'.cand = row.cand /\ row'.inputs = row.inputs
    BY <1>1, <2>3
  <2>4. CASE /\ row'.cand = row.cand /\ calls[e].patch # NoPatch /\ calls[e].keep
             /\ row'.inputs = Merge(row.inputs, calls[e].patch)
    <3>1. Broke(row'.inputs, engine.gen)
      BY <1>2, <2>4 DEF EInv, EditSound, Edits
    <3>2. ASSUME row.cand # NoCand
          PROVE  row.cand.gen \in Nat /\ row.cand.gen <= engine.gen /\ Class[row.cand.of][row.cand.gen] = "ok"
      BY <1>0, <3>2, BoundsAssumption DEF Rows, Candidates, EInv, StoredSound
    <3>3. Broke(row'.inputs, engine'.gen)
      BY <1>0, <3>1, GenerationsPass
    <3>4. QED
      BY <1>0, <2>4, <3>2, <3>3 DEF StoredSound
  <2>5. QED
    BY <1>0, <2>1, <2>2, <2>3, <2>4, EditedInputs
<1>3. ASSUME NEW c \in Calls, Stores(c) PROVE StoredSound'
  <2>1. row'.cand = [of |-> calls[c].snap.inputs, gen |-> calls[c].gen] /\ row'.inputs = row.inputs
    BY <1>0, <1>3, StoredColumns
  <2>2. calls[c].snap.inputs = row.inputs
    BY <1>3 DEF Stores, Unmoved, IInv, SnapshotsHold
  <2>3. calls[c].gen \in Nat /\ calls[c].gen <= engine.gen
    BY <1>0, BoundsAssumption DEF EInv, EditSound, TypeOK, CallRecords
  <2>4. QED
    BY <1>0, <1>3, <2>1, <2>2, <2>3 DEF StoredSound, Stores
<1>4. ASSUME NEW c \in Calls, Clears(c) PROVE StoredSound'
  BY <1>0, <1>4, OtherColumns DEF StoredSound
<1>5. Keeps \/ Moves \/ Picks => StoredSound'
  BY <1>0, <1>1, OtherColumns DEF Keeps
<1>6. QED
  BY <1>0, <1>2, <1>3, <1>4, <1>5, RowSteps

\* With one edit at a time the invariant is inductive.
LEMMA EditsInductive == ASSUME MaxEdits <= 1 PROVE Spec => []EInv
<1>1. Init => EInv
  <2> SUFFICES ASSUME Init PROVE EInv
    OBVIOUS
  <2>1. Editing = {}
    BY DEF Init, Editing, Idle
  <2>2. \A c \in Calls : EditSound(c)
    BY DEF Init, EditSound, Idle
  <2>3. StoredSound
    BY DEF Init, NewRow, StoredSound
  <2>4. QED
    BY <2>1, <2>2, <2>3, FS_EmptySet DEF EInv
<1>2. IInv /\ EInv /\ [Next]_vars => EInv'
  BY EditingStep, EditSoundStep, StoredStep DEF EInv
<1>3. QED
  BY <1>1, <1>2, SnapshotsInductive, PTL DEF Spec

\* While no two edits of a project overlap, its stored candidates are those of its
\* inputs, or the data said that these break a rule.
THEOREM MatchSound ==
  ASSUME MaxEdits <= 1
  PROVE  Spec => []CandidatesMatch
<1>1. EInv => CandidatesMatch
  BY DEF EInv, StoredSound, Broke, CandidatesMatch
<1>2. QED
  BY <1>1, EditsInductive, PTL

-----------------------------------------------------------------------------
(* What a hand-over carries.                                               *)

\* A submit that passed its gates has pinned a calculation.
Pinned == \A c \in Calls : calls[c].pc = "move" => calls[c].stamp # 0

\* Gates are passed only with a calculation there.
LEMMA PinnedInductive == Spec => []Pinned
<1>1. Init => Pinned
  BY DEF Init, Idle, Pinned
<1>2. TypeOK /\ Pinned /\ [Next]_vars => Pinned'
  BY RequestSteps DEF Pinned, TypeOK, Begins, Passes, GoesOn
<1>3. QED
  BY <1>1, <1>2, TypeCorrect, PTL DEF Spec

\* Nothing but a submit or a resubmit hands a project to the staff.
LEMMA SubmitsHandOver ==
  ASSUME TypeOK, [Next]_vars, row.status # "submitted", row'.status = "submitted"
  PROVE  /\ row'.cand = row.cand /\ row'.inputs = row.inputs /\ engine' = engine
         /\ \E c \in Calls : calls[c].pc = "move" /\ row.calculatedAt = calls[c].stamp
<1>0. row \in Rows /\ clock \in Nat
  BY DEF TypeOK
<1>1. ASSUME NEW c \in Calls, Edits(c) \/ Stores(c) \/ Clears(c) PROVE FALSE
  BY <1>0, <1>1, StoredColumns, EditedColumns, OtherColumns
<1>2. ~Keeps /\ ~Picks
  BY OtherColumns DEF Keeps
<1>3. Moves
  BY <1>1, <1>2, RowSteps
<1>4. row'.version = Now /\ clock' = Now /\ row'.cand = row.cand /\ row'.inputs = row.inputs
  BY <1>3, OtherColumns DEF Moves, Tick
<1>5. ASSUME NEW status \in Statuses, MoveTo(status) PROVE row'.status = status
  BY <1>0, <1>5, MovedType DEF MoveTo, MovedRow
<1>6. {"draft", "in_review", "returned"} \subseteq Statuses /\ row.status \in Statuses
  BY <1>0 DEF Statuses, Rows
<1>7. \A c \in Calls : ~Withdraw(c)
  BY <1>5, <1>6 DEF Withdraw
<1>8. ~Accept /\ ~SendBack /\ ~Assign /\ ~Select /\ ~EngineChanges /\ ~UNCHANGED vars
  BY <1>0, <1>2, <1>5, <1>6 DEF Accept, SendBack, Assign, Select, Picks, EngineChanges, vars
<1>9. \A c \in Calls : ~Gate(c) /\ ~ReadRow(c) /\ ~Derive(c) /\ ~Reread(c) /\ ~Stamp(c)
  BY DEF Gate, ReadRow, Derive, Reread, Stamp
<1>10. \A c \in Calls : ~Update(c) /\ ~Write(c)
  <2>1. ASSUME NEW c \in Calls, Update(c) PROVE FALSE
    <3>1. ToView(c) => calls'[c].pc = "read"
      BY DEF ToView, Go, TypeOK, CallRecords
    <3>2. QED
      BY <1>1, <1>2, <2>1, <3>1 DEF Update, Edits, Keeps
  <2>2. ASSUME NEW c \in Calls, Write(c) PROVE FALSE
    BY <1>1, <1>2, <2>2 DEF Write, Stores, Clears, Keeps
  <2>3. QED
    BY <2>1, <2>2
<1>11. \A c \in Calls, side \in Sides :
         /\ ~BeginView(c, side) /\ \A op \in Submits : ~BeginSubmit(c, op)
         /\ \A patch \in Patches \cup {NoPatch} : ~BeginEdit(c, side, patch)
  BY DEF BeginView, BeginSubmit, BeginEdit
<1>12. PICK c \in Calls : Submit(c)
  BY <1>7, <1>8, <1>9, <1>10, <1>11 DEF Next, Progress, Sides
<1>13. calls[c].pc = "move" /\ engine' = engine /\ row.calculatedAt = calls[c].stamp
  BY <1>2, <1>12 DEF Submit, Expected, Keeps
<1>14. QED
  BY <1>4, <1>13

\* A project is handed over with candidates, and with inputs that lacked nothing by
\* the data of some time, whatever was edited or refreshed while it was submitted.
THEOREM HandOverCarries ==
  ASSUME MaxEdits <= 1
  PROVE  Spec => SubmitCarriesCalculation
<1>1. TypeOK /\ StampMeansCandidates /\ Pinned /\ EInv /\ [Next]_vars
        => (row.status # "submitted" /\ row'.status = "submitted"
              => /\ row.cand # NoCand
                 /\ \E gen \in 0..engine.gen : Class[row.inputs][gen] \in {"conflict", "ok"})
  <2> SUFFICES ASSUME TypeOK, StampMeansCandidates, Pinned, EInv, [Next]_vars,
                      row.status # "submitted", row'.status = "submitted"
               PROVE  /\ row.cand # NoCand
                      /\ \E gen \in 0..engine.gen : Class[row.inputs][gen] \in {"conflict", "ok"}
    OBVIOUS
  <2>1. row.cand # NoCand
    BY SubmitsHandOver DEF Pinned, StampMeansCandidates
  <2>2. row.cand.gen \in Nat /\ engine.gen \in Nat
    BY <2>1, BoundsAssumption DEF TypeOK, Rows, Candidates
  <2>3. row.cand.gen \in 0..engine.gen /\ Class[row.cand.of][row.cand.gen] = "ok"
    BY <2>1, <2>2 DEF EInv, StoredSound
  <2>4. QED
    BY <2>1, <2>3 DEF EInv, StoredSound, Broke
<1>2. QED
  BY <1>1, EditsInductive, TypeCorrect, StampSound, PinnedInductive, PTL DEF Spec, SubmitCarriesCalculation
=============================================================================
