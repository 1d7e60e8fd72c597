---------------------------- MODULE Calculation -----------------------------
(***************************************************************************)
(* How a client's project keeps its stored calculation beside its inputs   *)
(* (apps/server/src/config-project.ts, and the handlers in                 *)
(* portal/orpc/projects.ts and orpc/routers/configs.ts that edit, read and *)
(* submit a project).  No handler holds a lock while it works: an edit     *)
(* decides from a read whether the candidates may stay, a view calculates  *)
(* from a snapshot and writes only if the row's version is the one it      *)
(* read, a submit checks its gates on one read and pins the calculation of *)
(* another.  Every await is a step boundary.                               *)
(*                                                                         *)
(* The engine is a function from the inputs and the generation of its data *)
(* (the model and the cached SAP tables) to what a calculation would find. *)
(* Every stamp (updatedAt, calculatedAt, syncedAt) is a tick of one clock. *)
(***************************************************************************)
EXTENDS Naturals, FiniteSets, ProjectRules

CONSTANTS
  Calls,      \* the requests that can be in flight
  Fields,     \* the parameters a patch names
  Vals,       \* their values
  Blank,      \* the value of an unset parameter
  Class,      \* Class[x][g]: what generation g of the engine says of inputs x
  NoCand,     \* no candidates stored
  NoPatch,    \* an edit that touches no engine input (a rename)
  MaxClock,   \* bound: users start nothing more once the clock is here
  MaxGen,     \* bound: the engine data's generations
  MaxEdits    \* bound: the edits in flight at once

Inputs == [Fields -> Vals]

\* missing: something mandatory is absent.  conflict: complete, but a rule is
\* broken.  none: complete, and nothing satisfies it.  ok: it has candidates.
Classes == {"missing", "conflict", "none", "ok"}

ASSUME EngineAssumption == Class \in [Inputs -> [0..MaxGen -> Classes]]
ASSUME BlankAssumption == Blank \in Vals
ASSUME NoCandAssumption == NoCand \notin [of: Inputs, gen: 0..MaxGen]
ASSUME BoundsAssumption == MaxClock \in Nat /\ MaxGen \in Nat /\ MaxEdits \in Nat

VARIABLES
  row,      \* the config_project row
  engine,   \* the generation of the model and its tables, and when it changed
  clock,    \* the last stamp given
  calls     \* the requests in flight

vars == <<row, engine, clock, calls>>

Patches == [field: Fields, val: Vals]

Candidates == [of: Inputs, gen: 0..MaxGen]

Rows == [status: Statuses, inputs: Inputs, version: Nat, cand: Candidates \cup {NoCand},
         calculatedAt: Nat, selection: Nat]

\* The two endpoints that hand a project over.
Submits == {"submit", "resubmit"}

\* A request: what it does, for which side, where it stands, its patch and
\* whether it keeps the candidates, the row and the generation it read, and the
\* calculatedAt it pinned.
CallRecords ==
  [op: {"idle", "view", "edit"} \cup Submits, side: Sides,
   pc: {"idle", "gate", "update", "read", "derive", "write", "reread", "stamp", "move"},
   patch: Patches \cup {NoPatch}, keep: BOOLEAN, snap: Rows, gen: 0..MaxGen, stamp: Nat]

NewRow == [status |-> "draft", inputs |-> [f \in Fields |-> Blank], version |-> 0,
           cand |-> NoCand, calculatedAt |-> 0, selection |-> 0]

Idle == [op |-> "idle", side |-> "external", pc |-> "idle", patch |-> NoPatch, keep |-> FALSE,
         snap |-> NewRow, gen |-> 0, stamp |-> 0]

TypeOK ==
  /\ row \in Rows
  /\ engine \in [gen: 0..MaxGen, at: Nat]
  /\ clock \in Nat
  /\ calls \in [Calls -> CallRecords]

-----------------------------------------------------------------------------
Now == clock + 1
Tick == clock' = Now

\* The value a patch leaves: the other fields are the row's own, merged in SQL.
Merge(x, patch) == [x EXCEPT ![patch.field] = patch.val]

\* isStale: absent, or older than the model or a table it reads.
IsStale(calculatedAt, at) == calculatedAt = 0 \/ calculatedAt < at

\* Mutant: whatever still calculates keeps what it had.
KeepsComplete(x, patch, gen) == Class[Merge(x, patch)][gen] \in {"conflict", "ok"}

\* keepsCandidates: the edit breaks a rule and nothing is missing.
KeepsCandidates(x, patch, gen) == Class[Merge(x, patch)][gen] = "conflict"

GateOpen(class) == class \in {"none", "ok"}

\* Mutant: the stamp outlives the candidates.
EmptiedStamped(r) == [r EXCEPT !.cand = NoCand, !.selection = 0]

\* The columns of an emptied calculation; 0 is null.
Emptied(r) == [r EXCEPT !.cand = NoCand, !.calculatedAt = 0, !.selection = 0]

\* Mutant: the picks outlive the list they index.
CalculatedPicked(r, x, gen, at) == [r EXCEPT !.cand = [of |-> x, gen |-> gen], !.calculatedAt = at]

\* The figures of x, stored in row r.  `selection` is the stamp of the candidates
\* it indexes; 0 is null.
Calculated(r, x, gen, at) ==
  [r EXCEPT !.cand = [of |-> x, gen |-> gen], !.calculatedAt = at, !.selection = 0]

Go(c, next) == calls' = [calls EXCEPT ![c] = next]
End(c) == Go(c, Idle)
ToView(c) == Go(c, [calls[c] EXCEPT !.pc = "read"])
Editing == {c \in Calls : calls[c].op = "edit"}

Init ==
  /\ row = NewRow
  /\ engine = [gen |-> 0, at |-> 0]
  /\ clock = 0
  /\ calls = [c \in Calls |-> Idle]

-----------------------------------------------------------------------------
(* A request arrives.                                                      *)

MayBegin(c, side) ==
  /\ calls[c] = Idle
  /\ clock < MaxClock
  /\ Visible(TRUE, row.status, side)

BeginView(c, side) ==
  /\ MayBegin(c, side)
  /\ Go(c, [Idle EXCEPT !.op = "view", !.side = side, !.pc = "read"])
  /\ UNCHANGED <<row, engine, clock>>

\* calculate and update: assertWritable, then the gate read for a patch.
BeginEdit(c, side, patch) ==
  /\ MayBegin(c, side)
  /\ Cardinality(Editing) < MaxEdits
  /\ CanWrite(TRUE, row.status, side)
  /\ Go(c, [Idle EXCEPT !.op = "edit", !.side = side, !.patch = patch,
                        !.pc = IF patch = NoPatch THEN "update" ELSE "gate"])
  /\ UNCHANGED <<row, engine, clock>>

\* submit and resubmit begin with a whole view.
BeginSubmit(c, op) ==
  /\ MayBegin(c, "external")
  /\ Go(c, [Idle EXCEPT !.op = op, !.pc = "read"])
  /\ UNCHANGED <<row, engine, clock>>

-----------------------------------------------------------------------------
(* An edit.                                                                *)

\* Read the stored row, propagate the patch over it, decide whether the last
\* calculation stays.
Gate(c) ==
  /\ calls[c].pc = "gate"
  /\ Go(c, [calls[c] EXCEPT !.pc = "update",
                            !.keep = KeepsCandidates(row.inputs, calls[c].patch, engine.gen)])
  /\ UNCHANGED <<row, engine, clock>>

\* The row after the edit's columns: inputs and candidates in one statement.
Edited(r, patch, keep) ==
  IF patch = NoPatch THEN [r EXCEPT !.version = Now]
  ELSE LET merged == [r EXCEPT !.inputs = Merge(r.inputs, patch), !.version = Now]
       IN  IF keep THEN merged ELSE Emptied(merged)

\* Mutant: the edit answers without a view of what it wrote.
UpdateUnseen(c) ==
  /\ calls[c].pc = "update"
  /\ IF WritableBy(TRUE, row.status, calls[c].side)
     THEN row' = Edited(row, calls[c].patch, calls[c].keep) /\ Tick
     ELSE UNCHANGED <<row, clock>>
  /\ End(c)
  /\ UNCHANGED engine

\* The guarded UPDATE.  When the row is no longer the side's it is a CONFLICT,
\* except that a client's rename ignores the result and shows the project.
Update(c) ==
  /\ calls[c].pc = "update"
  /\ IF WritableBy(TRUE, row.status, calls[c].side)
     THEN row' = Edited(row, calls[c].patch, calls[c].keep) /\ Tick /\ ToView(c)
     ELSE /\ UNCHANGED <<row, clock>>
          /\ IF calls[c].patch = NoPatch /\ calls[c].side = "external" THEN ToView(c) ELSE End(c)
  /\ UNCHANGED engine

-----------------------------------------------------------------------------
(* liveProject: every view, and the end of every edit.                     *)

ReadRow(c) ==
  /\ calls[c].pc = "read"
  /\ Go(c, [calls[c] EXCEPT !.pc = "derive", !.snap = row])
  /\ UNCHANGED <<row, engine, clock>>

Shown(call) == IF call.op \in Submits THEN [call EXCEPT !.pc = "stamp"] ELSE Idle

\* Mutant: a locked project is brought up to date too.
DeriveLocked(c) ==
  /\ calls[c].pc = "derive"
  /\ LET s == calls[c].snap
         due == /\ IsStale(s.calculatedAt, engine.at)
                /\ GateOpen(Class[s.inputs][engine.gen]) \/ s.cand # NoCand
         seen == [calls[c] EXCEPT !.gen = engine.gen]
     IN  Go(c, IF due THEN [seen EXCEPT !.pc = "write"] ELSE Shown(seen))
  /\ UNCHANGED <<row, engine, clock>>

\* Read the model and its tables, propagate, and recalculate only what this
\* side may write and is stale.
Derive(c) ==
  /\ calls[c].pc = "derive"
  /\ LET s == calls[c].snap
         due == /\ CanWrite(TRUE, s.status, calls[c].side)
                /\ IsStale(s.calculatedAt, engine.at)
                /\ GateOpen(Class[s.inputs][engine.gen]) \/ s.cand # NoCand
         seen == [calls[c] EXCEPT !.gen = engine.gen]
     IN  Go(c, IF due THEN [seen EXCEPT !.pc = "write"] ELSE Shown(seen))
  /\ UNCHANGED <<row, engine, clock>>

\* Mutant: a refresh writes whatever it calculated.
UnmovedUnchecked(snap) == TRUE

\* Mutant: only the status is compared.
UnmovedStatus(snap) == row.status = snap.status

\* The row is still the one that was read.
Unmoved(snap) == row.version = snap.version

\* recalculate: the calculation's columns only, guarded by the version, which it
\* does not move.  Lost when a newer writer moved it: then nothing is written.
Write(c) ==
  /\ calls[c].pc = "write"
  /\ LET call == calls[c]
         class == Class[call.snap.inputs][call.gen]
         writes == \/ class = "ok"
                   \/ class \in {"missing", "none"} /\ call.snap.cand # NoCand
         lost == writes /\ ~Unmoved(call.snap)
     IN  /\ IF writes /\ ~lost
            THEN IF class = "ok"
                 THEN row' = Calculated(row, call.snap.inputs, call.gen, Now) /\ Tick
                 ELSE row' = Emptied(row) /\ UNCHANGED clock
            ELSE UNCHANGED <<row, clock>>
         /\ Go(c, IF lost /\ call.op \in Submits THEN [call EXCEPT !.pc = "reread"] ELSE Shown(call))
  /\ UNCHANGED engine

\* A lost view is built again from the newer row, once: the model as it was, the
\* tables as they were or as they are.
Reread(c) ==
  /\ calls[c].pc = "reread"
  /\ \E gen \in {calls[c].gen, engine.gen} :
       Go(c, [calls[c] EXCEPT !.pc = "stamp", !.snap = row, !.gen = gen])
  /\ UNCHANGED <<row, engine, clock>>

-----------------------------------------------------------------------------
(* The rest of a submit.                                                   *)

\* Read calculatedAt again and check the gates of the view.
Stamp(c) ==
  /\ calls[c].pc = "stamp"
  /\ IF GateOpen(Class[calls[c].snap.inputs][calls[c].gen]) /\ row.calculatedAt # 0
     THEN Go(c, [calls[c] EXCEPT !.pc = "move", !.stamp = row.calculatedAt])
     ELSE End(c)
  /\ UNCHANGED <<row, engine, clock>>

\* Mutant: any calculation will do.
ExpectedAny(stamp) == TRUE

\* expectCalculatedAt: the calculation under the lock is the pinned one.
Expected(stamp) == row.calculatedAt = stamp

\* Mutant: a transition is no newer version.
MoveToSilently(status) == row' = [row EXCEPT !.status = status] /\ Tick

MoveTo(status) == row' = [row EXCEPT !.status = status, !.version = Now] /\ Tick

SubmitFrom == [submit |-> "draft", resubmit |-> "returned"]

Submit(c) ==
  /\ calls[c].pc = "move"
  /\ IF row.status = SubmitFrom[calls[c].op] /\ Expected(calls[c].stamp)
     THEN MoveTo("submitted")
     ELSE UNCHANGED <<row, clock>>
  /\ End(c)
  /\ UNCHANGED engine

-----------------------------------------------------------------------------
(* The other writers of the row, and of what the engine reads.             *)

\* A withdrawal answers a view.
Withdraw(c) ==
  /\ MayBegin(c, "external")
  /\ row.status = "submitted"
  /\ MoveTo("draft")
  /\ Go(c, [Idle EXCEPT !.op = "view", !.pc = "read"])
  /\ UNCHANGED engine

Accept == clock < MaxClock /\ row.status = "submitted" /\ MoveTo("in_review") /\ UNCHANGED <<engine, calls>>

SendBack ==
  /\ clock < MaxClock
  /\ row.status \in {"submitted", "in_review"}
  /\ MoveTo("returned")
  /\ UNCHANGED <<engine, calls>>

\* assign: the assignee is not modelled, the version it moves is.
Assign ==
  /\ clock < MaxClock
  /\ Visible(TRUE, row.status, "internal")
  /\ MoveTo(row.status)
  /\ UNCHANGED <<engine, calls>>

\* select: candidates are read and the picks written under one row lock; the
\* version does not move.
Select ==
  /\ CanWrite(TRUE, row.status, "internal")
  /\ row.cand # NoCand
  /\ row' = [row EXCEPT !.selection = row.calculatedAt]
  /\ UNCHANGED <<engine, clock, calls>>

\* A model is saved or one of its tables synced.
EngineChanges ==
  /\ clock < MaxClock /\ engine.gen < MaxGen
  /\ engine' = [gen |-> engine.gen + 1, at |-> Now]
  /\ Tick
  /\ UNCHANGED <<row, calls>>

Progress(c) ==
  Gate(c) \/ Update(c) \/ ReadRow(c) \/ Derive(c) \/ Write(c) \/ Reread(c) \/ Stamp(c) \/ Submit(c)

Next ==
  \/ \E c \in Calls : Progress(c) \/ Withdraw(c) \/ \E op \in Submits : BeginSubmit(c, op)
  \/ \E c \in Calls, side \in Sides :
       BeginView(c, side) \/ \E patch \in Patches \cup {NoPatch} : BeginEdit(c, side, patch)
  \/ Accept \/ SendBack \/ Assign \/ Select \/ EngineChanges

Spec == Init /\ [][Next]_vars

\* A request that has begun runs to its end; nobody has to make one.
FairSpec == Spec /\ \A c \in Calls : WF_vars(Progress(c))

-----------------------------------------------------------------------------
\* The engine's word on the stored inputs now.
RowClass == Class[row.inputs][engine.gen]

\* Stored candidates are those of the stored inputs, unless the data now or at
\* some earlier time said that the edit broke a rule; a reader of prices never
\* sees another configuration's.  Holds while no two edits overlap.
CandidatesMatch ==
  row.cand # NoCand =>
    \/ row.cand.of = row.inputs
    \/ \E gen \in 0..engine.gen : Class[row.inputs][gen] = "conflict"

\* "calculatedAt going non-null is the only claim that inputs and candidates
\* match" (config-project.ts), and it is made exactly when there are some.
StampMeansCandidates == row.calculatedAt # 0 <=> row.cand # NoCand

\* A hand-over carries a calculation, and inputs that lacked nothing by the data
\* of some time, whatever was edited between the gates and the lock.  That time
\* need not be the calculation's: an edit that breaks a rule of newer data keeps
\* figures, and a stamp, that older data gave.
SubmitCarriesCalculation ==
  [][row.status # "submitted" /\ row'.status = "submitted"
       => /\ row.cand # NoCand
          /\ \E gen \in 0..engine.gen : Class[row.inputs][gen] \in {"conflict", "ok"}]_vars

\* A refresh is never an edit of somebody else's turn: the stored calculation
\* changes only while some side may write the project, so what was submitted
\* keeps the figures the client saw.
SubmittedFiguresStay ==
  [][row.status = "submitted" /\ row'.status = "submitted"
       => row'.cand = row.cand /\ row'.calculatedAt = row.calculatedAt /\ row'.inputs = row.inputs]_vars

\* The picks are indices into the candidates they were validated against: no
\* refresh that replaces the candidates leaves old picks behind.
PicksFollowCandidates == row.selection # 0 => row.selection = row.calculatedAt

\* A patch that lands during a calculation wins: a refresh never stores the
\* figures of inputs the row no longer has.
RefreshNeverMismatches ==
  [][row'.cand # row.cand /\ row'.cand # NoCand => row'.cand.of = row'.inputs]_vars

\* A complete draft is calculated without the page having to ask: the edit that
\* completed it, or the newer writer that beat its calculation, calculates it.
\* Data that changes afterwards waits for the next view.
DraftGetsCalculated ==
  (/\ row.status = "draft" /\ RowClass = "ok" /\ row.calculatedAt = 0
   /\ row.version # 0 /\ engine.gen = 0)
    ~> (row.calculatedAt # 0 \/ RowClass # "ok" \/ row.status # "draft" \/ engine.gen # 0)
=============================================================================
