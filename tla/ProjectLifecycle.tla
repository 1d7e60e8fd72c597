-------------------------- MODULE ProjectLifecycle --------------------------
(***************************************************************************)
(* One project passed back and forth between a client's buyers and the     *)
(* supplier's staff (apps/server/src/project-lifecycle.ts and the handlers *)
(* that call it).  A transition locks the row, checks it and writes the    *)
(* status with its events in one transaction, so it is one action here.    *)
(* An edit, a comment and a delete are not: they check the row, await, and *)
(* write later, so each is a call with two steps and anything may happen   *)
(* in between.                                                             *)
(***************************************************************************)
EXTENDS Naturals, Sequences, ProjectRules

CONSTANTS
  Staff,        \* the supplier's users
  Buyers,       \* the users with a buyer seat at the client's company
  Calls,        \* the edit, comment and delete requests that can be in flight
  InputVals,    \* the values the project's inputs (entries, batches, tables) take
  BlankInputs,  \* what a fresh project and a model switch leave
  None,         \* no assignee, no answer, no inputs
  MaxEvents     \* bound: the length of the timeline

ASSUME ActorsAssumption ==
  /\ Staff \cap Buyers = {}
  /\ None \notin Staff \cup Buyers \cup InputVals \cup {"accepted", "declined"}
ASSUME InputsAssumption == BlankInputs \in InputVals
ASSUME BoundAssumption == MaxEvents \in Nat

VARIABLES
  portal,   \* config_project.portalCardCode is set
  exists,   \* the row is there
  row,      \* the row's columns the lifecycle reads and writes
  events,   \* config_project_event, in the order of `at`
  calls     \* the requests between their check and their write

vars == <<portal, exists, row, events, calls>>

Users == Staff \cup Buyers

SideOf(u) == IF u \in Staff THEN "internal" ELSE "external"

\* The events that freeze a round's inputs.
InputEvents == {"submitted", "resubmitted", "quoted"}

EventKinds == InputEvents \cup
  {"created", "withdrawn", "accepted", "returned", "declined", "revised",
   "quote_accepted", "quote_declined", "comment", "assigned"}

\* `inputs` is the payload of an input event and the "after" side of a
\* `revised` diff; `target` is the payload of `assigned`.
Events == [kind: EventKinds, by: Users, inputs: InputVals \cup {None}, target: Staff \cup {None}]

Rows == [status: Statuses, inputs: InputVals, assignee: Staff \cup {None},
         response: {None, "accepted", "declined"}]

Idle == [op |-> "idle", user |-> None]

CallRecords == {Idle} \cup [op: {"edit", "switch", "comment", "remove"}, user: Users]

TypeOK ==
  /\ portal \in BOOLEAN
  /\ exists \in BOOLEAN
  /\ row \in Rows
  /\ events \in Seq(Events)
  /\ calls \in [Calls -> CallRecords]

-----------------------------------------------------------------------------
Event(kind, u, inputs, target) ==
  [kind |-> kind, by |-> u, inputs |-> inputs, target |-> target]

\* The event at i is the newest of these kinds.
NewestOf(s, kinds, i) ==
  /\ i \in 1..Len(s)
  /\ s[i].kind \in kinds
  /\ \A j \in (i + 1)..Len(s) : s[j].kind \notin kinds

\* The baseline a revision is diffed against: the newest frozen inputs.
IsBase(i) == NewestOf(events, InputEvents, i)

\* revisionDiff is non-null: the inputs are not what the round froze.
Revised == \E i \in 1..Len(events) : IsBase(i) /\ events[i].inputs # row.inputs

\* The locked row is one the transition may leave from.
Locked(u, action, from) ==
  /\ exists
  /\ Visible(portal, row.status, SideOf(u))
  /\ row.status \in FromOf(portal, action, from)

\* The transition's own event, after one `revised` when it closes a round that
\* staff changed.
Record(e, revise) ==
  IF revise /\ portal /\ Revised
  THEN events' = Append(Append(events, Event("revised", e.by, row.inputs, None)), e)
  ELSE events' = Append(events, e)

Room == Len(events) + 1 < MaxEvents

\* step without extra columns: the status, and nothing else of the row.
Move(u, action, from, to, kind, inputs, revise) ==
  /\ Room
  /\ Locked(u, action, from)
  /\ row' = [row EXCEPT !.status = to]
  /\ Record(Event(kind, u, inputs, None), revise)
  /\ UNCHANGED <<portal, exists, calls>>

-----------------------------------------------------------------------------
Init ==
  /\ portal \in BOOLEAN
  /\ exists = TRUE
  /\ row = [status |-> "draft", inputs |-> BlankInputs, assignee |-> None, response |-> None]
  /\ \E u \in Users :
       /\ SideOf(u) = (IF portal THEN "external" ELSE "internal")
       /\ events = <<Event("created", u, None, None)>>
  /\ calls = [c \in Calls |-> Idle]

Submit(u) == u \in Buyers /\ Move(u, "submit", {"draft"}, "submitted", "submitted", row.inputs, FALSE)

Resubmit(u) == u \in Buyers /\ Move(u, "resubmit", {"returned"}, "submitted", "resubmitted", row.inputs, FALSE)

\* Mutant: a withdrawn project gets a status of its own.
WithdrawToWithdrawn(u) == u \in Buyers /\ Move(u, "withdraw", {"submitted"}, "withdrawn", "withdrawn", None, FALSE)

\* Mutant: the client may take a request back while staff work on it.
WithdrawFromReview(u) ==
  u \in Buyers /\ Move(u, "withdraw", {"submitted", "in_review"}, "draft", "withdrawn", None, FALSE)

Withdraw(u) == u \in Buyers /\ Move(u, "withdraw", {"submitted"}, "draft", "withdrawn", None, FALSE)

\* Mutant: the table entry lost its `revise: true`.
SendBackUnrevised(u) == u \in Staff /\ Move(u, "sendBack", {"submitted", "in_review"}, "returned", "returned", None, FALSE)

SendBack(u) == u \in Staff /\ Move(u, "sendBack", {"submitted", "in_review"}, "returned", "returned", None, TRUE)

\* Mutant: the table entry lost its `revise: true`.
DeclineUnrevised(u) == u \in Staff /\ Move(u, "decline", {"submitted", "in_review"}, "declined", "declined", None, FALSE)

Decline(u) == u \in Staff /\ Move(u, "decline", {"submitted", "in_review"}, "declined", "declined", None, TRUE)

\* Mutant: accept always takes the request.
AcceptTakes(u) ==
  /\ u \in Staff
  /\ Room
  /\ Locked(u, "accept", {"submitted"})
  /\ row' = [row EXCEPT !.status = "in_review", !.assignee = u]
  /\ Record(Event("accepted", u, None, None), FALSE)
  /\ UNCHANGED <<portal, exists, calls>>

\* Accept takes the request only when nobody holds it.
Accept(u) ==
  /\ u \in Staff
  /\ Room
  /\ Locked(u, "accept", {"submitted"})
  /\ row' = [row EXCEPT !.status = "in_review", !.assignee = IF @ = None THEN u ELSE @]
  /\ Record(Event("accepted", u, None, None), FALSE)
  /\ UNCHANGED <<portal, exists, calls>>

\* The last step of createQuote: the quotation's inputs are frozen and a new
\* quotation is answerable again.
Quote(u) ==
  /\ u \in Staff
  /\ Room
  /\ Locked(u, "quote", {"in_review"})
  /\ row' = [row EXCEPT !.status = "quoted", !.response = None]
  /\ Record(Event("quoted", u, row.inputs, None), TRUE)
  /\ UNCHANGED <<portal, exists, calls>>

\* Mutant: only a decline is remembered.
AnswerableUnlessDeclined == row.response # "declined"

\* Nobody has answered the current quotation.
Answerable == row.response = None

QuoteAccept(u) ==
  /\ u \in Buyers
  /\ Room
  /\ Locked(u, "quoteAccept", {"quoted"})
  /\ Answerable
  /\ row' = [row EXCEPT !.response = "accepted"]
  /\ Record(Event("quote_accepted", u, None, None), FALSE)
  /\ UNCHANGED <<portal, exists, calls>>

QuoteDecline(u) ==
  /\ u \in Buyers
  /\ Room
  /\ Locked(u, "quoteDecline", {"quoted"})
  /\ Answerable
  /\ row' = [row EXCEPT !.status = "in_review", !.response = "declined"]
  /\ Record(Event("quote_declined", u, None, None), FALSE)
  /\ UNCHANGED <<portal, exists, calls>>

\* assign: hand a client's request to a colleague, in any status staff may see.
\* Naming the current assignee writes nothing.
Assign(u, target) ==
  /\ u \in Staff
  /\ Room
  /\ exists /\ portal /\ Visible(portal, row.status, "internal")
  /\ row.assignee # target
  /\ row' = [row EXCEPT !.assignee = target]
  /\ Record(Event("assigned", u, None, target), FALSE)
  /\ UNCHANGED <<portal, exists, calls>>

-----------------------------------------------------------------------------
Start(c, op, u) == calls' = [calls EXCEPT ![c] = [op |-> op, user |-> u]]

End(c) == calls' = [calls EXCEPT ![c] = Idle]

\* assertWritable, read without a lock.
BeginEdit(c, u) ==
  /\ calls[c] = Idle
  /\ exists
  /\ Visible(portal, row.status, SideOf(u)) /\ CanWrite(portal, row.status, SideOf(u))
  /\ Start(c, "edit", u)
  /\ UNCHANGED <<portal, exists, row, events>>

\* configs.update: the same check, and never on a client's project.
BeginSwitch(c, u) ==
  /\ calls[c] = Idle
  /\ exists /\ ~portal
  /\ u \in Staff /\ CanWrite(portal, row.status, "internal")
  /\ Start(c, "switch", u)
  /\ UNCHANGED <<portal, exists, row, events>>

\* The one guarded UPDATE that ends an edit: it writes when the row is still
\* the caller's to write, and is a CONFLICT otherwise.
WriteInputs(c, x) ==
  /\ IF exists /\ WritableBy(portal, row.status, SideOf(calls[c].user))
     THEN row' = [row EXCEPT !.inputs = x]
     ELSE UNCHANGED row
  /\ End(c)
  /\ UNCHANGED <<portal, exists, events>>

FinishEdit(c, x) == calls[c].op = "edit" /\ WriteInputs(c, x)

FinishSwitch(c) == calls[c].op = "switch" /\ WriteInputs(c, BlankInputs)

\* addComment and addFile: the fence is read, then the event is inserted.
BeginComment(c, u) ==
  /\ calls[c] = Idle
  /\ exists /\ Visible(portal, row.status, SideOf(u))
  /\ Start(c, "comment", u)
  /\ UNCHANGED <<portal, exists, row, events>>

FinishComment(c) ==
  /\ calls[c].op = "comment"
  /\ Room
  /\ IF exists
     THEN events' = Append(events, Event("comment", calls[c].user, None, None))
     ELSE UNCHANGED events
  /\ End(c)
  /\ UNCHANGED <<portal, exists, row>>

\* configs.remove: quoted rows and clients' requests are refused up front ...
BeginRemove(c, u) ==
  /\ calls[c] = Idle
  /\ u \in Staff
  /\ exists /\ ~portal /\ row.status # "quoted"
  /\ Start(c, "remove", u)
  /\ UNCHANGED <<portal, exists, row, events>>

Delete == exists' = FALSE /\ events' = <<>> /\ UNCHANGED <<portal, row>>

\* ... and the DELETE that follows spares clients' requests only.
FinishRemove(c) ==
  /\ calls[c].op = "remove"
  /\ IF exists /\ ~portal THEN Delete ELSE UNCHANGED <<portal, exists, row, events>>
  /\ End(c)

\* The portal's remove is one guarded DELETE.
RemoveDraft(u) ==
  /\ u \in Buyers
  /\ exists /\ portal /\ row.status = "draft"
  /\ Delete
  /\ UNCHANGED calls

Next ==
  \/ \E u \in Users :
       \/ Submit(u) \/ Resubmit(u) \/ Withdraw(u) \/ Accept(u) \/ SendBack(u)
       \/ Decline(u) \/ Quote(u) \/ QuoteAccept(u) \/ QuoteDecline(u) \/ RemoveDraft(u)
  \/ \E u \in Staff, target \in Staff : Assign(u, target)
  \/ \E c \in Calls, u \in Users :
       BeginEdit(c, u) \/ BeginSwitch(c, u) \/ BeginComment(c, u) \/ BeginRemove(c, u)
  \/ \E c \in Calls, x \in InputVals : FinishEdit(c, x)
  \/ \E c \in Calls : FinishSwitch(c) \/ FinishComment(c) \/ FinishRemove(c)

Spec == Init /\ [][Next]_vars

-----------------------------------------------------------------------------
Disclosures == {"submitted", "resubmitted", "quoted", "revised"}

\* The events that show the client the inputs: those that froze a round, and
\* the staff's changes listed when a round closes.
IsDisclosure(i) == NewestOf(events, Disclosures, i)

Disclosed == \E i \in 1..Len(events) : IsDisclosure(i) /\ events[i].inputs = row.inputs

\* Once a project is submitted, declined or quoted its inputs are exactly the
\* ones its timeline last showed: no edit that was in flight when the status
\* moved lands on it, and no staff change goes unlisted.
NothingHidden ==
  exists /\ row.status \in {"submitted", "declined", "quoted"} => Disclosed

\* A client who gets a request back can read every change staff made to it off
\* the timeline, whatever staff edits raced the hand-back.
ReturnedDisclosed ==
  [][row.status # "returned" /\ row'.status = "returned" => Disclosed']_vars

\* An edit that began on one side of a hand-over never writes on the other: a
\* caller's value reaches the row only while its side owns the status.
EditsKeepTurns ==
  [][\A c \in Calls : \A u \in Users :
       (calls[c].user = u /\ calls'[c] = Idle /\ row'.inputs # row.inputs)
         => CanWrite(portal, row.status, SideOf(u))]_vars

\* Accept is final: nobody edits, reopens, re-quotes or deletes a project whose
\* quotation the client accepted, and the answer itself never changes.
AcceptIsFinal ==
  [][exists /\ row.response = "accepted"
       => exists' /\ row'.response = "accepted" /\ row'.status = "quoted" /\ row'.inputs = row.inputs]_vars

Answers == {"quote_accepted", "quote_declined"}

\* However many buyers answer at once, a quotation has one answer: between two
\* `quoted` events the timeline holds at most one accept or decline.
AnsweredOnce ==
  \A i \in 1..Len(events) : events[i].kind \in Answers =>
    \E j \in 1..(i - 1) :
      /\ events[j].kind = "quoted"
      /\ \A k \in (j + 1)..(i - 1) : events[k].kind \notin Answers \cup {"quoted"}

\* Who holds a request can be read off its timeline: the last colleague it was
\* assigned to, or the first who accepted it when nobody was; a second accept
\* (after a withdrawal) takes it from nobody.
AssigneeFollowsTimeline ==
  \A a \in Staff : exists /\ row.assignee = a =>
    \/ \E i \in 1..Len(events) : NewestOf(events, {"assigned"}, i) /\ events[i].target = a
    \/ /\ \A i \in 1..Len(events) : events[i].kind # "assigned"
       /\ \E i \in 1..Len(events) :
            /\ events[i].kind = "accepted" /\ events[i].by = a
            /\ \A j \in 1..(i - 1) : events[j].kind # "accepted"

-----------------------------------------------------------------------------
\* The state of the negotiation a project stands for.
TurnOf ==
  CASE ~exists -> "discarded"
    [] exists /\ ~portal -> IF row.status = "quoted" THEN "posted" ELSE "own"
    [] OTHER ->
       CASE row.status = "submitted" -> "inbox"
         [] row.status = "in_review" -> "staff"
         [] row.status = "declined" -> "refused"
         [] row.status = "quoted" -> IF row.response = "accepted" THEN "agreed" ELSE "offer"
         [] OTHER -> row.status

SharedInputs ==
  IF \E i \in 1..Len(events) : IsDisclosure(i)
  THEN events[CHOOSE i \in 1..Len(events) : IsDisclosure(i)].inputs
  ELSE None

Abstract == INSTANCE Negotiation
  WITH Docs <- InputVals, Blank <- BlankInputs, turn <- TurnOf, doc <- row.inputs, shared <- SharedInputs

\* A project is a negotiation: every step of the handlers, in-flight
\* calls included, is a step of Negotiation or changes nothing it can see.
ImplementsNegotiation == Abstract!NSpec
=============================================================================
