----------------------- MODULE ProjectLifecycleProofs -----------------------
(***************************************************************************)
(* Theorems about ProjectLifecycle, for every number of users, requests,   *)
(* input values and every length of the timeline.                          *)
(***************************************************************************)
EXTENDS ProjectLifecycle, TLAPS

-----------------------------------------------------------------------------
(* The timeline as a sequence: what an append does to the newest event.    *)

\* A value built by Event is an event.
LEMMA EventType ==
  ASSUME NEW kind \in EventKinds, NEW u \in Users,
         NEW x \in InputVals \cup {None}, NEW t \in Staff \cup {None}
  PROVE  /\ Event(kind, u, x, t) \in Events
         /\ Event(kind, u, x, t).kind = kind
         /\ Event(kind, u, x, t).inputs = x
BY DEF Event, Events

\* An appended event of one of the kinds is the newest of them.
LEMMA AppendNewest ==
  ASSUME NEW s \in Seq(Events), NEW e \in Events, NEW kinds, e.kind \in kinds
  PROVE  NewestOf(Append(s, e), kinds, Len(s) + 1) /\ Append(s, e)[Len(s) + 1] = e
BY DEF NewestOf

\* An appended event of another kind leaves the newest where it was.
LEMMA AppendOther ==
  ASSUME NEW s \in Seq(Events), NEW e \in Events, NEW kinds, e.kind \notin kinds,
         NEW i, NewestOf(s, kinds, i)
  PROVE  NewestOf(Append(s, e), kinds, i) /\ Append(s, e)[i] = s[i]
BY DEF NewestOf

\* There is one newest event of some kinds.
LEMMA NewestUnique ==
  ASSUME NEW s \in Seq(Events), NEW kinds, NEW i, NEW j,
         NewestOf(s, kinds, i), NewestOf(s, kinds, j)
  PROVE  i = j
<1>1. i \in Nat /\ j \in Nat /\ i \in 1..Len(s) /\ j \in 1..Len(s)
  BY DEF NewestOf
<1>2. ~(i < j) /\ ~(j < i)
  BY <1>1 DEF NewestOf
<1>3. QED
  BY <1>1, <1>2

-----------------------------------------------------------------------------
(* Type correctness.                                                       *)

\* The event that lists staff's changes.
RevisedBy(e) == Event("revised", e.by, row.inputs, None)

\* A list of changes is an event that carries the row's inputs.
LEMMA RevisedType ==
  ASSUME TypeOK, NEW e \in Events
  PROVE  RevisedBy(e) \in Events /\ RevisedBy(e).kind = "revised" /\ RevisedBy(e).inputs = row.inputs
<1>1. e.by \in Users /\ row.inputs \in InputVals \cup {None} /\ "revised" \in EventKinds
  BY DEF TypeOK, Rows, Events, EventKinds
<1>2. QED
  BY <1>1, EventType DEF RevisedBy

\* What Record does to the timeline: the event is appended, after at most one
\* list of changes.
LEMMA RecordAppends ==
  ASSUME TypeOK, NEW e \in Events, NEW revise, Record(e, revise)
  PROVE  /\ events' \in Seq(Events)
         /\ \E s \in Seq(Events) : events' = Append(s, e)
<1>1. events \in Seq(Events)
  BY DEF TypeOK
<1>2. CASE revise /\ portal /\ Revised
  <2>1. Append(events, RevisedBy(e)) \in Seq(Events)
    BY <1>1, RevisedType
  <2>2. events' = Append(Append(events, RevisedBy(e)), e)
    BY <1>2 DEF Record, RevisedBy
  <2>3. ASSUME NEW s \in Seq(Events), events' = Append(s, e)
        PROVE  events' \in Seq(Events) /\ \E t \in Seq(Events) : events' = Append(t, e)
    BY <2>3
  <2>4. QED
    BY <2>1, <2>2, <2>3
<1>3. CASE ~(revise /\ portal /\ Revised)
  BY <1>1, <1>3 DEF Record
<1>4. QED
  BY <1>2, <1>3

\* A plain transition keeps the types, whatever its table entry names.
LEMMA MoveType ==
  ASSUME TypeOK, NEW u \in Users, NEW action, NEW from, NEW to \in Statuses,
         NEW kind \in EventKinds, NEW x \in InputVals \cup {None}, NEW revise,
         Move(u, action, from, to, kind, x, revise)
  PROVE  TypeOK'
<1>1. Event(kind, u, x, None) \in Events
  BY EventType
<1>2. events' \in Seq(Events)
  BY <1>1, RecordAppends DEF Move
<1>3. row' \in Rows
  BY DEF Move, TypeOK, Rows
<1>4. QED
  BY <1>2, <1>3 DEF Move, TypeOK

\* The state always has its type: every handler writes a status, an input
\* value, an assignee and an event the schema allows.
THEOREM TypeCorrect == Spec => []TypeOK
<1>1. Init => TypeOK
  <2>1. ASSUME Init PROVE TypeOK
    <3>1. PICK u \in Users : events = <<Event("created", u, None, None)>>
      BY <2>1 DEF Init
    <3>2. Event("created", u, None, None) \in Events
      BY EventType DEF EventKinds
    <3>3. events \in Seq(Events)
      BY <3>1, <3>2
    <3>4. row \in Rows
      BY <2>1, InputsAssumption DEF Init, Rows, Statuses
    <3>5. calls \in [Calls -> CallRecords]
      BY <2>1 DEF Init, CallRecords
    <3>6. QED
      BY <2>1, <3>3, <3>4, <3>5 DEF Init, TypeOK
  <2>2. QED
    BY <2>1
<1>2. TypeOK /\ [Next]_vars => TypeOK'
  <2> SUFFICES ASSUME TypeOK, [Next]_vars PROVE TypeOK'
    OBVIOUS
  <2> USE DEF Users
  <2>0. /\ row.inputs \in InputVals
        /\ {"draft", "submitted", "in_review", "returned", "declined", "quoted"} \subseteq Statuses
        /\ {"created", "submitted", "resubmitted", "quoted", "withdrawn", "accepted", "returned", "declined",
            "revised", "quote_accepted", "quote_declined", "comment", "assigned"} \subseteq EventKinds
    BY DEF TypeOK, Rows, Statuses, EventKinds, InputEvents
  <2>1. ASSUME NEW u \in Users, Submit(u) \/ Resubmit(u) \/ Withdraw(u) \/ SendBack(u) \/ Decline(u)
        PROVE TypeOK'
    BY <2>0, <2>1, MoveType DEF Submit, Resubmit, Withdraw, SendBack, Decline
  <2>2. ASSUME NEW u \in Users, Accept(u) PROVE TypeOK'
    <3>1. Event("accepted", u, None, None) \in Events
      BY <2>0, EventType
    <3>2. row' \in Rows
      BY <2>0, <2>2 DEF Accept, TypeOK, Rows
    <3>3. QED
      BY <2>2, <3>1, <3>2, RecordAppends DEF Accept, TypeOK
  <2>3. ASSUME NEW u \in Users, Quote(u) PROVE TypeOK'
    <3>1. Event("quoted", u, row.inputs, None) \in Events
      BY <2>0, EventType
    <3>2. row' \in Rows
      BY <2>0, <2>3 DEF Quote, TypeOK, Rows
    <3>3. QED
      BY <2>3, <3>1, <3>2, RecordAppends DEF Quote, TypeOK
  <2>4. ASSUME NEW u \in Users, QuoteAccept(u) PROVE TypeOK'
    <3>1. Event("quote_accepted", u, None, None) \in Events
      BY <2>0, EventType
    <3>2. row' \in Rows
      BY <2>0, <2>4 DEF QuoteAccept, TypeOK, Rows
    <3>3. QED
      BY <2>4, <3>1, <3>2, RecordAppends DEF QuoteAccept, TypeOK
  <2>5. ASSUME NEW u \in Users, QuoteDecline(u) PROVE TypeOK'
    <3>1. Event("quote_declined", u, None, None) \in Events
      BY <2>0, EventType
    <3>2. row' \in Rows
      BY <2>0, <2>5 DEF QuoteDecline, TypeOK, Rows
    <3>3. QED
      BY <2>5, <3>1, <3>2, RecordAppends DEF QuoteDecline, TypeOK
  <2>6. ASSUME NEW u \in Staff, NEW target \in Staff, Assign(u, target) PROVE TypeOK'
    <3>1. Event("assigned", u, None, target) \in Events
      BY <2>0, EventType
    <3>2. row' \in Rows
      BY <2>0, <2>6 DEF Assign, TypeOK, Rows
    <3>3. QED
      BY <2>6, <3>1, <3>2, RecordAppends DEF Assign, TypeOK
  <2>7. ASSUME NEW c \in Calls, NEW u \in Users,
               BeginEdit(c, u) \/ BeginSwitch(c, u) \/ BeginComment(c, u) \/ BeginRemove(c, u)
        PROVE TypeOK'
    BY <2>7 DEF BeginEdit, BeginSwitch, BeginComment, BeginRemove, Start, TypeOK, CallRecords
  <2>8. ASSUME NEW c \in Calls, NEW x \in InputVals, WriteInputs(c, x) PROVE TypeOK'
    <3>1. row' \in Rows
      BY <2>8 DEF WriteInputs, TypeOK, Rows
    <3>2. QED
      BY <2>8, <3>1 DEF WriteInputs, End, TypeOK, CallRecords
  <2>9. ASSUME NEW c \in Calls, FinishComment(c) PROVE TypeOK'
    <3>1. calls[c].user \in Users
      BY <2>9 DEF FinishComment, TypeOK, CallRecords, Idle
    <3>2. Event("comment", calls[c].user, None, None) \in Events
      BY <2>0, <3>1, EventType
    <3>3. events' \in Seq(Events)
      BY <2>9, <3>2 DEF FinishComment, TypeOK
    <3>4. calls' \in [Calls -> CallRecords]
      BY <2>9 DEF FinishComment, End, TypeOK, CallRecords
    <3>5. QED
      BY <2>9, <3>3, <3>4 DEF FinishComment, TypeOK
  <2>10. ASSUME NEW c \in Calls, FinishRemove(c) PROVE TypeOK'
    <3>1. calls' \in [Calls -> CallRecords]
      BY <2>10 DEF FinishRemove, End, TypeOK, CallRecords
    <3>2. <<>> \in Seq(Events)
      OBVIOUS
    <3>3. QED
      BY <2>10, <3>1, <3>2 DEF FinishRemove, Delete, TypeOK
  <2>11. ASSUME NEW u \in Users, RemoveDraft(u) PROVE TypeOK'
    <3>1. <<>> \in Seq(Events)
      OBVIOUS
    <3>2. QED
      BY <2>11, <3>1 DEF RemoveDraft, Delete, TypeOK
  <2>12. CASE UNCHANGED vars
    BY <2>12 DEF vars, TypeOK
  <2>13. QED
    BY <2>1, <2>2, <2>3, <2>4, <2>5, <2>6, <2>7, <2>8, <2>9, <2>10, <2>11, <2>12, InputsAssumption
    DEF Next, FinishEdit, FinishSwitch
<1>3. QED
  BY <1>1, <1>2, PTL DEF Spec

-----------------------------------------------------------------------------
(* An accepted quotation is the end.                                       *)

\* Only a client's quoted project carries an accept.
AcceptInv == exists /\ row.response = "accepted" => portal /\ row.status = "quoted"

\* No step of any handler breaks it.
LEMMA AcceptInductive == TypeOK /\ AcceptInv /\ [Next]_vars => AcceptInv'
<1> SUFFICES ASSUME TypeOK, AcceptInv, [Next]_vars PROVE AcceptInv'
  OBVIOUS
<1> USE DEF AcceptInv
<1>0. row \in Rows
  BY DEF TypeOK
<1>1. ASSUME NEW u \in Users, Submit(u) \/ Resubmit(u) \/ Withdraw(u) \/ SendBack(u) \/ Decline(u)
      PROVE AcceptInv'
  BY <1>0, <1>1 DEF Submit, Resubmit, Withdraw, SendBack, Decline, Move, Locked, FromOf, Rows
<1>2. ASSUME NEW u \in Users, Accept(u) \/ Quote(u) \/ QuoteAccept(u) \/ QuoteDecline(u)
      PROVE AcceptInv'
  BY <1>0, <1>2, ActorsAssumption DEF Accept, Quote, QuoteAccept, QuoteDecline, Locked, FromOf, Rows
<1>3. ASSUME NEW u \in Staff, NEW target \in Staff, Assign(u, target) PROVE AcceptInv'
  BY <1>0, <1>3 DEF Assign, Rows
<1>4. ASSUME NEW c \in Calls, NEW x \in InputVals, WriteInputs(c, x) PROVE AcceptInv'
  BY <1>0, <1>4 DEF WriteInputs, Rows
<1>5. ASSUME NEW c \in Calls, FinishComment(c) \/ FinishRemove(c) PROVE AcceptInv'
  BY <1>5 DEF FinishComment, FinishRemove, Delete
<1>6. ASSUME NEW u \in Users, RemoveDraft(u) PROVE AcceptInv'
  BY <1>6 DEF RemoveDraft, Delete
<1>7. ASSUME NEW c \in Calls, NEW u \in Users,
             BeginEdit(c, u) \/ BeginSwitch(c, u) \/ BeginComment(c, u) \/ BeginRemove(c, u)
      PROVE AcceptInv'
  BY <1>7 DEF BeginEdit, BeginSwitch, BeginComment, BeginRemove
<1>8. CASE UNCHANGED vars
  BY <1>8 DEF vars
<1>9. QED
  BY <1>1, <1>2, <1>3, <1>4, <1>5, <1>6, <1>7, <1>8, InputsAssumption DEF Next, FinishEdit, FinishSwitch

\* Accept is final (quoteAccept): once the client accepted, no transition, no
\* edit in flight and no delete touches the status, the inputs or the answer.
THEOREM AcceptedForever == Spec => AcceptIsFinal
<1> DEFINE Final == exists /\ row.response = "accepted"
                      => exists' /\ row'.response = "accepted" /\ row'.status = "quoted" /\ row'.inputs = row.inputs
<1>1. Init => AcceptInv
  BY ActorsAssumption DEF Init, AcceptInv
<1>2. TypeOK /\ AcceptInv /\ [Next]_vars => [Final]_vars
  <2> SUFFICES ASSUME TypeOK, AcceptInv, Next, exists, row.response = "accepted"
               PROVE  exists' /\ row'.response = "accepted" /\ row'.status = "quoted" /\ row'.inputs = row.inputs
    BY DEF vars
  <2>0. row \in Rows /\ portal /\ row.status = "quoted"
    BY DEF TypeOK, AcceptInv
  <2>1. ASSUME NEW u \in Users, Submit(u) \/ Resubmit(u) \/ Withdraw(u) \/ SendBack(u) \/ Decline(u)
        PROVE FALSE
    BY <2>0, <2>1 DEF Submit, Resubmit, Withdraw, SendBack, Decline, Move, Locked, FromOf
  <2>2. ASSUME NEW u \in Users, Accept(u) \/ Quote(u) \/ QuoteAccept(u) \/ QuoteDecline(u)
        PROVE FALSE
    BY <2>0, <2>2, ActorsAssumption DEF Accept, Quote, QuoteAccept, QuoteDecline, Locked, FromOf, Answerable
  <2>3. ASSUME NEW u \in Staff, NEW target \in Staff, Assign(u, target)
        PROVE exists' /\ row'.response = "accepted" /\ row'.status = "quoted" /\ row'.inputs = row.inputs
    BY <2>0, <2>3 DEF Assign, Rows
  <2>4. ASSUME NEW c \in Calls, NEW x \in InputVals, WriteInputs(c, x)
        PROVE UNCHANGED <<exists, row>>
    BY <2>0, <2>4 DEF WriteInputs, WritableBy
  <2>5. ASSUME NEW c \in Calls, FinishComment(c) \/ FinishRemove(c) PROVE UNCHANGED <<exists, row>>
    BY <2>0, <2>5 DEF FinishComment, FinishRemove
  <2>6. ASSUME NEW u \in Users, RemoveDraft(u) PROVE FALSE
    BY <2>0, <2>6 DEF RemoveDraft
  <2>7. ASSUME NEW c \in Calls, NEW u \in Users,
               BeginEdit(c, u) \/ BeginSwitch(c, u) \/ BeginComment(c, u) \/ BeginRemove(c, u)
        PROVE UNCHANGED <<exists, row>>
    BY <2>7 DEF BeginEdit, BeginSwitch, BeginComment, BeginRemove
  <2>8. QED
    BY <2>0, <2>1, <2>2, <2>3, <2>4, <2>5, <2>6, <2>7, InputsAssumption DEF Next, FinishEdit, FinishSwitch
<1>3. QED
  BY <1>1, <1>2, AcceptInductive, TypeCorrect, PTL DEF Spec, AcceptIsFinal

-----------------------------------------------------------------------------
(* Nothing hidden: what the timeline shows is what the row holds.          *)

\* Under the client's nose or on the supplier's desk, the newest thing a
\* client's timeline shows is a round's frozen inputs, not a list of changes.
RoundOpen ==
  exists /\ portal /\ row.status \in {"submitted", "in_review", "quoted"}
    => \E i \in 1..Len(events) : IsDisclosure(i) /\ events[i].kind \in InputEvents

\* A configuration of the staff's own is a draft or quoted.
OwnStatus == ~portal => row.status \in {"draft", "quoted"}

HiddenInv == NothingHidden /\ RoundOpen /\ OwnStatus

\* An event that freezes the row's inputs shows them.
LEMMA FreezeShows ==
  ASSUME TypeOK, NEW e \in Events, NEW revise, Record(e, revise),
         e.kind \in InputEvents, e.inputs = row.inputs
  PROVE  \E i \in 1..Len(events') :
           NewestOf(events', Disclosures, i) /\ events'[i].kind \in InputEvents /\ events'[i].inputs = row.inputs
<1>1. e.kind \in Disclosures
  BY DEF InputEvents, Disclosures
<1>3. PICK s \in Seq(Events) : events' = Append(s, e)
  BY RecordAppends
<1>4. NewestOf(events', Disclosures, Len(s) + 1) /\ events'[Len(s) + 1] = e
  BY <1>1, <1>3, AppendNewest
<1>5. Len(s) + 1 \in 1..Len(events')
  BY <1>4 DEF NewestOf
<1>6. QED
  BY <1>4, <1>5

\* An event that shows no inputs leaves what was shown.
LEMMA OtherKeeps ==
  ASSUME TypeOK, NEW s \in Seq(Events), NEW e \in Events, e.kind \notin Disclosures,
         NEW i \in 1..Len(s), NewestOf(s, Disclosures, i)
  PROVE  i \in 1..Len(Append(s, e)) /\ NewestOf(Append(s, e), Disclosures, i) /\ Append(s, e)[i] = s[i]
<1>1. NewestOf(Append(s, e), Disclosures, i) /\ Append(s, e)[i] = s[i]
  BY AppendOther
<1>2. QED
  BY <1>1 DEF NewestOf

\* Closing a client's round shows its inputs: staff's changes are listed, or
\* there were none.
LEMMA CloseShows ==
  ASSUME TypeOK, NEW e \in Events, Record(e, TRUE), e.kind \notin Disclosures, portal,
         NEW b \in 1..Len(events), IsDisclosure(b), events[b].kind \in InputEvents
  PROVE  \E i \in 1..Len(events') : NewestOf(events', Disclosures, i) /\ events'[i].inputs = row.inputs
<1> DEFINE r == RevisedBy(e)
<1>0. events \in Seq(Events)
  BY DEF TypeOK
<1>1. r \in Events /\ r.kind = "revised" /\ r.inputs = row.inputs
  BY RevisedType
<1> HIDE DEF r
<1>2. CASE Revised
  <2>1. NewestOf(Append(events, r), Disclosures, Len(events) + 1) /\ Append(events, r)[Len(events) + 1] = r
    BY <1>0, <1>1, AppendNewest DEF Disclosures
  <2>2. Append(events, r) \in Seq(Events) /\ Len(events) + 1 \in 1..Len(Append(events, r))
    BY <1>0, <1>1
  <2>3. events' = Append(Append(events, r), e)
    BY <1>2 DEF Record, RevisedBy, r
  <2>4. /\ Len(events) + 1 \in 1..Len(events')
        /\ NewestOf(events', Disclosures, Len(events) + 1)
        /\ events'[Len(events) + 1] = r
    BY <2>1, <2>2, <2>3, OtherKeeps
  <2>5. QED
    BY <1>1, <2>4
<1>3. CASE ~Revised
  <2>1. IsBase(b)
    BY DEF IsBase, IsDisclosure, NewestOf, InputEvents, Disclosures
  <2>2. events[b].inputs = row.inputs
    BY <1>3, <2>1 DEF Revised
  <2>3. events' = Append(events, e)
    BY <1>3 DEF Record
  <2>4. QED
    BY <1>0, <2>2, <2>3, OtherKeeps DEF IsDisclosure
<1>4. QED
  BY <1>2, <1>3

\* The invariant that NothingHidden rests on is inductive: a transition that
\* hands the project over freezes or lists its inputs, and an edit in flight
\* writes only where a round is open to its side.
LEMMA HiddenInductive == TypeOK /\ HiddenInv /\ [Next]_vars => HiddenInv'
<1> SUFFICES ASSUME TypeOK, HiddenInv, [Next]_vars PROVE HiddenInv'
  OBVIOUS
<1>0. row \in Rows /\ events \in Seq(Events)
  BY DEF TypeOK
<1>1. ASSUME NEW u \in Users, Submit(u) \/ Resubmit(u) \/ Quote(u) PROVE HiddenInv'
  <2>1. PICK kind \in InputEvents, revise \in BOOLEAN : Record(Event(kind, u, row.inputs, None), revise)
    BY <1>1 DEF Submit, Resubmit, Quote, Move, InputEvents
  <2> DEFINE e == Event(kind, u, row.inputs, None)
  <2>2. e \in Events /\ e.kind \in InputEvents /\ e.inputs = row.inputs
    BY <1>0, EventType DEF EventKinds, Rows
  <2>3. PICK i \in 1..Len(events') :
          NewestOf(events', Disclosures, i) /\ events'[i].kind \in InputEvents /\ events'[i].inputs = row.inputs
    BY <2>1, <2>2, FreezeShows
  <2>4. row'.inputs = row.inputs /\ portal' = portal /\ exists' = exists
    BY <1>0, <1>1 DEF Submit, Resubmit, Quote, Move, Rows
  <2>5. ~portal => row'.status = "quoted"
    BY <1>0, <1>1 DEF Submit, Resubmit, Quote, Move, Locked, FromOf, Rows
  <2>6. QED
    BY <2>3, <2>4, <2>5 DEF HiddenInv, NothingHidden, RoundOpen, OwnStatus, Disclosed, IsDisclosure
<1>2. ASSUME NEW u \in Users, SendBack(u) \/ Decline(u) PROVE HiddenInv'
  <2>1. PICK kind \in {"returned", "declined"} : Record(Event(kind, u, None, None), TRUE)
    BY <1>2 DEF SendBack, Decline, Move
  <2> DEFINE e == Event(kind, u, None, None)
  <2>2. e \in Events /\ e.kind \notin Disclosures
    BY EventType DEF EventKinds, Disclosures
  <2>3. portal /\ exists /\ row.status \in {"submitted", "in_review"}
    BY <1>2 DEF SendBack, Decline, Move, Locked, FromOf
  <2>4. PICK b \in 1..Len(events) : IsDisclosure(b) /\ events[b].kind \in InputEvents
    BY <2>3 DEF HiddenInv, RoundOpen
  <2>5. PICK i \in 1..Len(events') : NewestOf(events', Disclosures, i) /\ events'[i].inputs = row.inputs
    BY <2>1, <2>2, <2>3, <2>4, CloseShows
  <2>6. row'.inputs = row.inputs /\ portal' = portal /\ row'.status \in {"returned", "declined"}
    BY <1>0, <1>2 DEF SendBack, Decline, Move, Rows
  <2>7. QED
    BY <2>3, <2>5, <2>6 DEF HiddenInv, NothingHidden, RoundOpen, OwnStatus, Disclosed, IsDisclosure
<1>3. ASSUME NEW e \in Events, e.kind \notin Disclosures, events' = Append(events, e),
             row'.inputs = row.inputs, portal' = portal, exists' = exists,
             ~portal => row'.status = row.status,
             portal => \/ row'.status = row.status
                       \/ row'.status = "draft"
                       \/ row'.status = "in_review" /\ row.status \in {"submitted", "quoted"}
      PROVE HiddenInv'
  <2>1. ASSUME NEW i \in 1..Len(events), IsDisclosure(i)
        PROVE  i \in 1..Len(events') /\ NewestOf(events', Disclosures, i) /\ events'[i] = events[i]
    BY <1>0, <1>3, <2>1, OtherKeeps DEF IsDisclosure
  <2>2. Disclosed => Disclosed'
    BY <1>3, <2>1 DEF Disclosed, IsDisclosure
  <2>3. RoundOpen'
    BY <1>3, <2>1 DEF HiddenInv, RoundOpen, IsDisclosure
  <2>4. NothingHidden'
    BY <1>3, <2>2 DEF HiddenInv, NothingHidden, OwnStatus
  <2>5. QED
    BY <1>3, <2>3, <2>4 DEF HiddenInv, OwnStatus
<1>4. ASSUME NEW u \in Users, Withdraw(u) \/ Accept(u) \/ QuoteAccept(u) \/ QuoteDecline(u) PROVE HiddenInv'
  <2>1. PICK kind \in {"withdrawn", "accepted", "quote_accepted", "quote_declined"} :
          events' = Append(events, Event(kind, u, None, None))
    BY <1>4 DEF Withdraw, Accept, QuoteAccept, QuoteDecline, Move, Record
  <2>2. Event(kind, u, None, None) \in Events /\ Event(kind, u, None, None).kind \notin Disclosures
    BY EventType DEF EventKinds, Disclosures
  <2>3. /\ row'.inputs = row.inputs /\ portal' = portal /\ exists' = exists /\ portal
        /\ \/ row'.status = row.status
           \/ row'.status = "draft"
           \/ row'.status = "in_review" /\ row.status \in {"submitted", "quoted"}
    BY <1>0, <1>4 DEF Withdraw, Accept, QuoteAccept, QuoteDecline, Move, Locked, FromOf, Rows
  <2>4. QED
    BY <1>3, <2>1, <2>2, <2>3
<1>5. ASSUME NEW u \in Staff, NEW target \in Staff, Assign(u, target) PROVE HiddenInv'
  <2>1. Event("assigned", u, None, target) \in Events /\ Event("assigned", u, None, target).kind \notin Disclosures
    <3>1. "assigned" \in EventKinds /\ u \in Users
      BY DEF EventKinds, Users
    <3>2. QED
      BY <3>1, EventType DEF Disclosures
  <2>2. QED
    BY <1>0, <1>3, <1>5, <2>1 DEF Assign, Record, Rows
<1>6. ASSUME NEW c \in Calls, FinishComment(c) PROVE HiddenInv'
  <2>1. calls[c].user \in Users
    BY <1>6 DEF FinishComment, TypeOK, CallRecords, Idle
  <2>2. Event("comment", calls[c].user, None, None) \in Events
        /\ Event("comment", calls[c].user, None, None).kind \notin Disclosures
    <3>1. "comment" \in EventKinds
      BY DEF EventKinds
    <3>2. QED
      BY <2>1, <3>1, EventType DEF Disclosures
  <2>3. CASE exists
    BY <1>3, <1>6, <2>2, <2>3 DEF FinishComment
  <2>4. CASE ~exists
    BY <1>6, <2>4 DEF FinishComment, HiddenInv, NothingHidden, RoundOpen, OwnStatus
  <2>5. QED
    BY <2>3, <2>4
<1>7. ASSUME NEW c \in Calls, NEW x \in InputVals, WriteInputs(c, x) PROVE HiddenInv'
  <2>1. CASE UNCHANGED row
    BY <1>7, <2>1 DEF WriteInputs, HiddenInv, NothingHidden, RoundOpen, OwnStatus, Disclosed, IsDisclosure
  <2>2. CASE ~UNCHANGED row
    <3>1. /\ WritableBy(portal, row.status, SideOf(calls[c].user))
          /\ row' = [row EXCEPT !.inputs = x] /\ UNCHANGED <<portal, exists, events>>
      BY <1>7, <2>2 DEF WriteInputs
    <3>2. row.status \notin {"submitted", "declined", "quoted"}
      BY <3>1 DEF WritableBy, HiddenInv, OwnStatus
    <3>3. row'.status = row.status
      BY <1>0, <3>1 DEF Rows
    <3>4. QED
      BY <3>1, <3>2, <3>3 DEF HiddenInv, NothingHidden, RoundOpen, OwnStatus, IsDisclosure
  <2>3. QED
    BY <2>1, <2>2
<1>8. ASSUME UNCHANGED <<portal, exists, row, events>> \/ Delete PROVE HiddenInv'
  BY <1>8 DEF Delete, HiddenInv, NothingHidden, RoundOpen, OwnStatus, Disclosed, IsDisclosure
<1>9. ASSUME NEW c \in Calls, NEW u \in Users,
             BeginEdit(c, u) \/ BeginSwitch(c, u) \/ BeginComment(c, u) \/ BeginRemove(c, u)
      PROVE HiddenInv'
  BY <1>8, <1>9 DEF BeginEdit, BeginSwitch, BeginComment, BeginRemove
<1>10. ASSUME NEW c \in Calls, FinishRemove(c) PROVE HiddenInv'
  BY <1>8, <1>10 DEF FinishRemove
<1>11. ASSUME NEW u \in Users, RemoveDraft(u) PROVE HiddenInv'
  BY <1>8, <1>11 DEF RemoveDraft
<1>12. CASE UNCHANGED vars
  BY <1>8, <1>12 DEF vars
<1>13. QED
  BY <1>1, <1>2, <1>4, <1>5, <1>6, <1>7, <1>9, <1>10, <1>11, <1>12, InputsAssumption
  DEF Next, FinishEdit, FinishSwitch

\* Nothing is hidden: whenever a project is out of both sides' hands, its
\* timeline shows the very inputs the row holds.
THEOREM NothingIsHidden == Spec => []NothingHidden
<1>1. Init => HiddenInv
  BY DEF Init, HiddenInv, NothingHidden, RoundOpen, OwnStatus
<1>2. HiddenInv => NothingHidden
  BY DEF HiddenInv
<1>3. QED
  BY <1>1, <1>2, HiddenInductive, TypeCorrect, PTL DEF Spec

-----------------------------------------------------------------------------
(* Turns and hand-backs.                                                   *)

\* A caller's value reaches the row only while its side owns the status: the
\* guarded UPDATE asks for no more than the side table grants (assertWritable,
\* writableBy).
THEOREM TurnsAreKept == Spec => EditsKeepTurns
<1> DEFINE Kept == \A c \in Calls : \A u \in Users :
                     (calls[c].user = u /\ calls'[c] = Idle /\ row'.inputs # row.inputs)
                       => CanWrite(portal, row.status, SideOf(u))
<1>1. TypeOK /\ [Next]_vars => [Kept]_vars
  <2> SUFFICES ASSUME TypeOK, Next,
                      NEW c \in Calls, NEW u \in Users,
                      calls[c].user = u, calls'[c] = Idle, row'.inputs # row.inputs
               PROVE  CanWrite(portal, row.status, SideOf(u))
    BY DEF vars
  <2>0. row \in Rows /\ calls \in [Calls -> CallRecords]
    BY DEF TypeOK
  <2>1. ASSUME NEW v \in Users, Submit(v) \/ Resubmit(v) \/ Withdraw(v) \/ SendBack(v) \/ Decline(v)
        PROVE FALSE
    BY <2>0, <2>1 DEF Submit, Resubmit, Withdraw, SendBack, Decline, Move, Rows
  <2>2. ASSUME NEW v \in Users, Accept(v) \/ Quote(v) \/ QuoteAccept(v) \/ QuoteDecline(v) PROVE FALSE
    BY <2>0, <2>2 DEF Accept, Quote, QuoteAccept, QuoteDecline, Rows
  <2>3. ASSUME NEW v \in Staff, NEW target \in Staff, Assign(v, target) PROVE FALSE
    BY <2>0, <2>3 DEF Assign, Rows
  <2>4. ASSUME NEW d \in Calls, NEW x \in InputVals, WriteInputs(d, x)
        PROVE  CanWrite(portal, row.status, SideOf(u))
    <3>1. c = d
      <4>1. calls' = [calls EXCEPT ![d] = Idle]
        BY <2>4 DEF WriteInputs, End
      <4>2. c # d => calls'[c] = calls[c]
        BY <2>0, <4>1
      <4>3. calls[c] # Idle
        BY ActorsAssumption DEF Idle, Users
      <4> QED
        BY <4>2, <4>3
    <3>2. WritableBy(portal, row.status, SideOf(u))
      BY <2>4, <3>1 DEF WriteInputs
    <3> QED
      BY <3>2 DEF WritableBy, CanWrite, SideOf
  <2>5. ASSUME NEW d \in Calls, FinishComment(d) \/ FinishRemove(d) PROVE FALSE
    BY <2>5 DEF FinishComment, FinishRemove, Delete
  <2>6. ASSUME NEW v \in Users, RemoveDraft(v) PROVE FALSE
    BY <2>6 DEF RemoveDraft, Delete
  <2>7. ASSUME NEW d \in Calls, NEW v \in Users,
               BeginEdit(d, v) \/ BeginSwitch(d, v) \/ BeginComment(d, v) \/ BeginRemove(d, v)
        PROVE FALSE
    BY <2>7 DEF BeginEdit, BeginSwitch, BeginComment, BeginRemove
  <2> QED
    BY <2>1, <2>2, <2>3, <2>4, <2>5, <2>6, <2>7, InputsAssumption DEF Next, FinishEdit, FinishSwitch
<1>2. QED
  BY <1>1, TypeCorrect, PTL DEF Spec, EditsKeepTurns

\* A request that goes back to the client shows on its timeline what staff made
\* of it: sendBack lists the changes against the newest frozen inputs, and there
\* is one to list against (RoundOpen).
THEOREM HandBackDiscloses == Spec => ReturnedDisclosed
<1> DEFINE Shows == row.status # "returned" /\ row'.status = "returned" => Disclosed'
<1>1. TypeOK /\ HiddenInv /\ [Next]_vars => [Shows]_vars
  <2> SUFFICES ASSUME TypeOK, HiddenInv, Next, row.status # "returned", row'.status = "returned"
               PROVE  Disclosed'
    BY DEF vars
  <2>0. row \in Rows
    BY DEF TypeOK
  <2>1. ASSUME NEW u \in Users, Submit(u) \/ Resubmit(u) \/ Withdraw(u) \/ Decline(u) PROVE FALSE
    BY <2>0, <2>1 DEF Submit, Resubmit, Withdraw, Decline, Move, Rows
  <2>2. ASSUME NEW u \in Users, Accept(u) \/ Quote(u) \/ QuoteAccept(u) \/ QuoteDecline(u) PROVE FALSE
    BY <2>0, <2>2 DEF Accept, Quote, QuoteAccept, QuoteDecline, Rows
  <2>3. ASSUME NEW u \in Users, SendBack(u) PROVE Disclosed'
    <3> DEFINE e == Event("returned", u, None, None)
    <3>1. Record(e, TRUE) /\ portal /\ exists /\ row.status \in {"submitted", "in_review"}
      BY <2>3 DEF SendBack, Move, Locked, FromOf
    <3>2. e \in Events /\ e.kind \notin Disclosures
      BY EventType DEF EventKinds, Disclosures
    <3>3. PICK b \in 1..Len(events) : IsDisclosure(b) /\ events[b].kind \in InputEvents
      BY <3>1 DEF HiddenInv, RoundOpen
    <3>4. PICK i \in 1..Len(events') : NewestOf(events', Disclosures, i) /\ events'[i].inputs = row.inputs
      BY <3>1, <3>2, <3>3, CloseShows
    <3>5. row'.inputs = row.inputs
      BY <2>0, <2>3 DEF SendBack, Move, Rows
    <3> QED
      BY <3>4, <3>5 DEF Disclosed, IsDisclosure
  <2>4. ASSUME NEW u \in Staff, NEW target \in Staff, Assign(u, target) PROVE FALSE
    BY <2>0, <2>4 DEF Assign, Rows
  <2>5. ASSUME NEW c \in Calls, NEW x \in InputVals, WriteInputs(c, x) PROVE FALSE
    BY <2>0, <2>5 DEF WriteInputs, Rows
  <2>6. ASSUME NEW c \in Calls, FinishComment(c) \/ FinishRemove(c) PROVE FALSE
    BY <2>6 DEF FinishComment, FinishRemove, Delete
  <2>7. ASSUME NEW u \in Users, RemoveDraft(u) PROVE FALSE
    BY <2>7 DEF RemoveDraft, Delete
  <2>8. ASSUME NEW c \in Calls, NEW u \in Users,
               BeginEdit(c, u) \/ BeginSwitch(c, u) \/ BeginComment(c, u) \/ BeginRemove(c, u)
        PROVE FALSE
    BY <2>8 DEF BeginEdit, BeginSwitch, BeginComment, BeginRemove
  <2> QED
    BY <2>1, <2>2, <2>3, <2>4, <2>5, <2>6, <2>7, <2>8, InputsAssumption DEF Next, FinishEdit, FinishSwitch
<1>2. Init => HiddenInv
  BY DEF Init, HiddenInv, NothingHidden, RoundOpen, OwnStatus
<1>3. QED
  BY <1>1, <1>2, HiddenInductive, TypeCorrect, PTL DEF Spec, ReturnedDisclosed

-----------------------------------------------------------------------------
(* One answer to a quotation.                                              *)

\* A timeline in which every answer follows a quotation of its own.
AnsweredIn(s) ==
  \A i \in 1..Len(s) : s[i].kind \in Answers =>
    \E j \in 1..(i - 1) :
      /\ s[j].kind = "quoted"
      /\ \A k \in (j + 1)..(i - 1) : s[k].kind \notin Answers \cup {"quoted"}
Rounds == Answers \cup {"quoted"}
\* The newest quotation is unanswered.
OpenIn(s) == \E j \in 1..Len(s) : NewestOf(s, Rounds, j) /\ s[j].kind = "quoted"

\* A quotation that may be answered is one nobody has.
AnswerInv ==
  /\ AnsweredIn(events)
  /\ exists /\ row.status = "quoted" /\ row.response = None => OpenIn(events)

\* Events that are no answer keep the answers apart, and those that are no
\* quotation either keep it open.
LEMMA NoAnswer ==
  ASSUME NEW s \in Seq(Events), NEW e \in Events, AnsweredIn(s), e.kind \notin Answers
  PROVE  /\ AnsweredIn(Append(s, e))
         /\ e.kind = "quoted" => OpenIn(Append(s, e))
         /\ e.kind # "quoted" /\ OpenIn(s) => OpenIn(Append(s, e))
<1>1. /\ Len(Append(s, e)) = Len(s) + 1 /\ Append(s, e)[Len(s) + 1] = e
      /\ \A i \in 1..Len(s) : Append(s, e)[i] = s[i]
  OBVIOUS
<1>2. AnsweredIn(Append(s, e))
  <2> SUFFICES ASSUME NEW i \in 1..(Len(s) + 1), Append(s, e)[i].kind \in Answers
               PROVE  \E j \in 1..(i - 1) :
                        /\ Append(s, e)[j].kind = "quoted"
                        /\ \A k \in (j + 1)..(i - 1) : Append(s, e)[k].kind \notin Answers \cup {"quoted"}
    BY <1>1 DEF AnsweredIn
  <2>1. i \in 1..Len(s) /\ s[i].kind \in Answers
    BY <1>1
  <2>2. PICK j \in 1..(i - 1) :
          /\ s[j].kind = "quoted"
          /\ \A k \in (j + 1)..(i - 1) : s[k].kind \notin Answers \cup {"quoted"}
    BY <2>1 DEF AnsweredIn
  <2> QED
    BY <1>1, <2>1, <2>2
<1>3. e.kind = "quoted" => OpenIn(Append(s, e))
  BY <1>1, AppendNewest DEF OpenIn, Rounds
<1>4. e.kind # "quoted" /\ OpenIn(s) => OpenIn(Append(s, e))
  BY <1>1, AppendOther DEF OpenIn, Rounds
<1> QED
  BY <1>2, <1>3, <1>4

\* An answer to an open quotation is its only one.
LEMMA FirstAnswer ==
  ASSUME NEW s \in Seq(Events), NEW e \in Events, AnsweredIn(s), OpenIn(s)
  PROVE  AnsweredIn(Append(s, e))
<1>1. /\ Len(Append(s, e)) = Len(s) + 1
      /\ \A i \in 1..Len(s) : Append(s, e)[i] = s[i]
  OBVIOUS
<1>2. PICK q \in 1..Len(s) : NewestOf(s, Rounds, q) /\ s[q].kind = "quoted"
  BY DEF OpenIn
<1> SUFFICES ASSUME NEW i \in 1..(Len(s) + 1), Append(s, e)[i].kind \in Answers
             PROVE  \E j \in 1..(i - 1) :
                      /\ Append(s, e)[j].kind = "quoted"
                      /\ \A k \in (j + 1)..(i - 1) : Append(s, e)[k].kind \notin Answers \cup {"quoted"}
  BY <1>1 DEF AnsweredIn
<1>3. CASE i \in 1..Len(s)
  <2>1. PICK j \in 1..(i - 1) :
          /\ s[j].kind = "quoted"
          /\ \A k \in (j + 1)..(i - 1) : s[k].kind \notin Answers \cup {"quoted"}
    BY <1>1, <1>3 DEF AnsweredIn
  <2> QED
    BY <1>1, <1>3, <2>1
<1>4. CASE i = Len(s) + 1
  BY <1>1, <1>2, <1>4 DEF NewestOf, Rounds
<1> QED
  BY <1>3, <1>4

\* So does a recorded event, with the list of changes before it.
LEMMA RecordNoAnswer ==
  ASSUME TypeOK, NEW e \in Events, NEW revise, Record(e, revise),
         AnsweredIn(events), e.kind \notin Answers
  PROVE  /\ AnsweredIn(events')
         /\ e.kind = "quoted" => OpenIn(events')
         /\ e.kind # "quoted" /\ OpenIn(events) => OpenIn(events')
<1> DEFINE r == RevisedBy(e)
<1>0. events \in Seq(Events)
  BY DEF TypeOK
<1>1. r \in Events /\ r.kind = "revised"
  BY RevisedType
<1> HIDE DEF r
<1>2. CASE revise /\ portal /\ Revised
  <2>1. events' = Append(Append(events, r), e)
    BY <1>2 DEF Record, RevisedBy, r
  <2>2. r.kind \notin Answers /\ r.kind # "quoted"
    BY <1>1 DEF Answers
  <2>3. /\ Append(events, r) \in Seq(Events) /\ AnsweredIn(Append(events, r))
        /\ OpenIn(events) => OpenIn(Append(events, r))
    BY <1>0, <1>1, <2>2, NoAnswer
  <2> QED
    BY <2>1, <2>3, NoAnswer
<1>3. CASE ~(revise /\ portal /\ Revised)
  <2>1. events' = Append(events, e)
    BY <1>3 DEF Record
  <2> QED
    BY <1>0, <2>1, NoAnswer
<1> QED
  BY <1>2, <1>3

\* Only an open quotation is answered, and a new one is open.
LEMMA AnswerInductive == TypeOK /\ AnswerInv /\ [Next]_vars => AnswerInv'
<1> SUFFICES ASSUME TypeOK, AnswerInv, [Next]_vars PROVE AnswerInv'
  OBVIOUS
<1>0. row \in Rows /\ events \in Seq(Events) /\ AnsweredIn(events)
  BY DEF TypeOK, AnswerInv
<1>1. ASSUME NEW u \in Users, Submit(u) \/ Resubmit(u) \/ Withdraw(u) \/ SendBack(u) \/ Decline(u)
      PROVE AnswerInv'
  <2>1. PICK kind \in {"submitted", "resubmitted", "withdrawn", "returned", "declined"},
             x \in InputVals \cup {None}, revise \in BOOLEAN : Record(Event(kind, u, x, None), revise)
    BY <1>0, <1>1 DEF Submit, Resubmit, Withdraw, SendBack, Decline, Move, Rows
  <2>2. /\ Event(kind, u, x, None) \in Events
        /\ Event(kind, u, x, None).kind \notin Answers
    BY EventType DEF EventKinds, InputEvents, Answers
  <2>3. AnsweredIn(events')
    BY <1>0, <2>1, <2>2, RecordNoAnswer
  <2>4. row'.status # "quoted"
    BY <1>0, <1>1 DEF Submit, Resubmit, Withdraw, SendBack, Decline, Move, Rows
  <2> QED
    BY <2>3, <2>4 DEF AnswerInv
<1>2. ASSUME NEW u \in Users, Accept(u) PROVE AnswerInv'
  <2>1. Event("accepted", u, None, None) \in Events /\ Event("accepted", u, None, None).kind \notin Answers
    BY EventType DEF EventKinds, Answers
  <2>2. AnsweredIn(events')
    BY <1>0, <1>2, <2>1, RecordNoAnswer DEF Accept
  <2>3. row'.status # "quoted"
    BY <1>0, <1>2 DEF Accept, Rows
  <2> QED
    BY <2>2, <2>3 DEF AnswerInv
<1>3. ASSUME NEW u \in Users, Quote(u) PROVE AnswerInv'
  <2>1. /\ Event("quoted", u, row.inputs, None) \in Events
        /\ Event("quoted", u, row.inputs, None).kind = "quoted"
    BY <1>0, EventType DEF EventKinds, InputEvents, Rows
  <2>2. Event("quoted", u, row.inputs, None).kind \notin Answers
    BY <2>1 DEF Answers
  <2>3. AnsweredIn(events') /\ OpenIn(events')
    BY <1>0, <1>3, <2>1, <2>2, RecordNoAnswer DEF Quote
  <2> QED
    BY <2>3 DEF AnswerInv
<1>4. ASSUME NEW u \in Users, QuoteAccept(u) \/ QuoteDecline(u) PROVE AnswerInv'
  <2>1. PICK kind \in Answers : events' = Append(events, Event(kind, u, None, None))
    BY <1>4 DEF QuoteAccept, QuoteDecline, Record, Answers
  <2>2. Event(kind, u, None, None) \in Events
    BY EventType DEF EventKinds, Answers
  <2>3. exists /\ row.status = "quoted" /\ row.response = None
    BY <1>4 DEF QuoteAccept, QuoteDecline, Locked, FromOf, Answerable
  <2>4. AnsweredIn(events')
    BY <1>0, <2>1, <2>2, <2>3, FirstAnswer DEF AnswerInv
  <2>5. row'.status # "quoted" \/ row'.response # None
    BY <1>0, <1>4, ActorsAssumption DEF QuoteAccept, QuoteDecline, Rows
  <2> QED
    BY <2>4, <2>5 DEF AnswerInv
<1>5. ASSUME NEW e \in Events, e.kind \in {"assigned", "comment"}, events' = Append(events, e),
             row'.status = row.status, row'.response = row.response, exists' = exists
      PROVE AnswerInv'
  <2>1. e.kind \notin Answers /\ e.kind # "quoted"
    BY <1>5 DEF Answers
  <2>2. AnsweredIn(events') /\ (OpenIn(events) => OpenIn(events'))
    BY <1>0, <1>5, <2>1, NoAnswer
  <2> QED
    BY <1>5, <2>2 DEF AnswerInv
<1>6. ASSUME NEW u \in Staff, NEW target \in Staff, Assign(u, target) PROVE AnswerInv'
  <2>1. /\ "assigned" \in EventKinds /\ u \in Users
        /\ None \in InputVals \cup {None} /\ target \in Staff \cup {None}
    BY DEF EventKinds, Users
  <2>2. /\ Event("assigned", u, None, target) \in Events
        /\ Event("assigned", u, None, target).kind = "assigned"
    BY <2>1, EventType
  <2> QED
    BY <1>0, <1>5, <1>6, <2>2 DEF Assign, Record, Rows
<1>7. ASSUME NEW c \in Calls, FinishComment(c) PROVE AnswerInv'
  <2>1. calls[c].user \in Users /\ "comment" \in EventKinds /\ None \in Staff \cup {None}
    BY <1>7 DEF FinishComment, TypeOK, CallRecords, Idle, EventKinds
  <2>2. /\ Event("comment", calls[c].user, None, None) \in Events
        /\ Event("comment", calls[c].user, None, None).kind = "comment"
    BY <2>1, EventType
  <2>3. CASE exists
    BY <1>5, <1>7, <2>2, <2>3 DEF FinishComment
  <2>4. CASE ~exists
    BY <1>7, <2>4 DEF FinishComment, AnswerInv
  <2> QED
    BY <2>3, <2>4
<1>8. ASSUME NEW c \in Calls, NEW x \in InputVals, WriteInputs(c, x) PROVE AnswerInv'
  <2>1. /\ row'.status = row.status /\ row'.response = row.response
        /\ UNCHANGED <<portal, exists, events>>
    BY <1>0, <1>8 DEF WriteInputs, Rows
  <2> QED
    BY <2>1 DEF AnswerInv
<1>9. ASSUME UNCHANGED <<portal, exists, row, events>> \/ Delete PROVE AnswerInv'
  <2>1. CASE UNCHANGED <<portal, exists, row, events>>
    BY <2>1 DEF AnswerInv
  <2>2. CASE Delete
    BY <2>2 DEF Delete, AnswerInv, AnsweredIn
  <2> QED
    BY <1>9, <2>1, <2>2
<1>10. ASSUME NEW c \in Calls, NEW u \in Users,
              BeginEdit(c, u) \/ BeginSwitch(c, u) \/ BeginComment(c, u) \/ BeginRemove(c, u)
       PROVE AnswerInv'
  BY <1>9, <1>10 DEF BeginEdit, BeginSwitch, BeginComment, BeginRemove
<1>11. ASSUME NEW c \in Calls, FinishRemove(c) PROVE AnswerInv'
  BY <1>9, <1>11 DEF FinishRemove
<1>12. ASSUME NEW u \in Users, RemoveDraft(u) PROVE AnswerInv'
  BY <1>9, <1>12 DEF RemoveDraft
<1>13. CASE UNCHANGED vars
  BY <1>9, <1>13 DEF vars
<1> QED
  BY <1>1, <1>2, <1>3, <1>4, <1>6, <1>7, <1>8, <1>10, <1>11, <1>12, <1>13, InputsAssumption
  DEF Next, FinishEdit, FinishSwitch

\* A quotation has one answer, however many buyers answer at once.
THEOREM OneAnswer == Spec => []AnsweredOnce
<1>1. Init => AnswerInv
  <2> SUFFICES ASSUME Init PROVE AnswerInv
    OBVIOUS
  <2>1. PICK u \in Users : events = <<Event("created", u, None, None)>>
    BY DEF Init
  <2>2. Len(events) = 1 /\ events[1].kind = "created"
    BY <2>1 DEF Event
  <2>3. AnsweredIn(events)
    BY <2>2 DEF AnsweredIn, Answers
  <2>4. row.status # "quoted"
    BY DEF Init
  <2> QED
    BY <2>3, <2>4 DEF AnswerInv
<1>2. AnswerInv => AnsweredOnce
  BY DEF AnswerInv, AnsweredIn, AnsweredOnce
<1>3. QED
  BY <1>1, <1>2, AnswerInductive, TypeCorrect, PTL DEF Spec

-----------------------------------------------------------------------------
(* Who holds a request.                                                    *)

\* The first event of some kinds.
FirstOf(s, kind, i) ==
  /\ i \in 1..Len(s) /\ s[i].kind = kind
  /\ \A j \in 1..(i - 1) : s[j].kind # kind
NoneOf(s, kinds) == \A i \in 1..Len(s) : s[i].kind \notin kinds
\* What the timeline says of who holds the request.
HolderIn(s, a) ==
  \/ \E i \in 1..Len(s) : NewestOf(s, {"assigned"}, i) /\ s[i].target = a
  \/ NoneOf(s, {"assigned"}) /\ \E i \in 1..Len(s) : FirstOf(s, "accepted", i) /\ s[i].by = a

\* A request nobody holds has been neither accepted nor assigned: without
\* this, taking it might not be the first accept.
HolderInv ==
  exists => IF row.assignee = None THEN NoneOf(events, {"assigned", "accepted"})
                                   ELSE HolderIn(events, row.assignee)

\* Any event but an assignment leaves the holder who it is.
LEMMA HolderStays ==
  ASSUME NEW s \in Seq(Events), NEW e \in Events, e.kind # "assigned", NEW a, HolderIn(s, a)
  PROVE  HolderIn(Append(s, e), a)
<1>1. /\ Len(Append(s, e)) = Len(s) + 1 /\ Append(s, e)[Len(s) + 1] = e
      /\ \A i \in 1..Len(s) : Append(s, e)[i] = s[i]
  OBVIOUS
<1>2. CASE \E i \in 1..Len(s) : NewestOf(s, {"assigned"}, i) /\ s[i].target = a
  <2>1. PICK i \in 1..Len(s) : NewestOf(s, {"assigned"}, i) /\ s[i].target = a
    BY <1>2
  <2>2. NewestOf(Append(s, e), {"assigned"}, i) /\ Append(s, e)[i] = s[i]
    BY <2>1, AppendOther
  <2>3. i \in 1..Len(Append(s, e))
    BY <1>1
  <2> QED
    BY <2>1, <2>2, <2>3 DEF HolderIn
<1>3. CASE NoneOf(s, {"assigned"}) /\ \E i \in 1..Len(s) : FirstOf(s, "accepted", i) /\ s[i].by = a
  <2>1. NoneOf(Append(s, e), {"assigned"})
    BY <1>1, <1>3 DEF NoneOf
  <2>2. PICK i \in 1..Len(s) : FirstOf(s, "accepted", i) /\ s[i].by = a
    BY <1>3
  <2>3. i \in 1..Len(Append(s, e)) /\ FirstOf(Append(s, e), "accepted", i) /\ Append(s, e)[i].by = a
    BY <1>1, <2>2 DEF FirstOf
  <2> QED
    BY <2>1, <2>3 DEF HolderIn
<1> QED
  BY <1>2, <1>3 DEF HolderIn

\* The first accept makes a holder, and an assignment always does.
LEMMA HolderMade ==
  ASSUME NEW s \in Seq(Events), NEW e \in Events
  PROVE  /\ e.kind = "accepted" /\ NoneOf(s, {"assigned", "accepted"}) => HolderIn(Append(s, e), e.by)
         /\ e.kind = "assigned" => HolderIn(Append(s, e), e.target)
         /\ e.kind \notin {"assigned", "accepted"} /\ NoneOf(s, {"assigned", "accepted"})
              => NoneOf(Append(s, e), {"assigned", "accepted"})
<1>1. /\ Len(Append(s, e)) = Len(s) + 1 /\ Append(s, e)[Len(s) + 1] = e
      /\ \A i \in 1..Len(s) : Append(s, e)[i] = s[i]
      /\ Len(s) + 1 \in 1..Len(Append(s, e))
  OBVIOUS
<1>2. ASSUME e.kind = "accepted", NoneOf(s, {"assigned", "accepted"}) PROVE HolderIn(Append(s, e), e.by)
  <2>1. NoneOf(Append(s, e), {"assigned"})
    BY <1>1, <1>2 DEF NoneOf
  <2>2. FirstOf(Append(s, e), "accepted", Len(s) + 1)
    BY <1>1, <1>2 DEF NoneOf, FirstOf
  <2> QED
    BY <1>1, <2>1, <2>2 DEF HolderIn
<1>3. ASSUME e.kind = "assigned" PROVE HolderIn(Append(s, e), e.target)
  <2>1. NewestOf(Append(s, e), {"assigned"}, Len(s) + 1)
    BY <1>3, AppendNewest
  <2> QED
    BY <1>1, <2>1 DEF HolderIn
<1>4. e.kind \notin {"assigned", "accepted"} /\ NoneOf(s, {"assigned", "accepted"})
        => NoneOf(Append(s, e), {"assigned", "accepted"})
  BY <1>1 DEF NoneOf
<1> QED
  BY <1>2, <1>3, <1>4

\* A recorded event that is neither leaves the holder who it is.
LEMMA RecordHolder ==
  ASSUME TypeOK, HolderInv, NEW e \in Events, NEW revise, Record(e, revise),
         e.kind \notin {"assigned", "accepted"}, exists' = exists, row'.assignee = row.assignee
  PROVE  HolderInv'
<1> DEFINE r == RevisedBy(e)
<1>0. events \in Seq(Events)
  BY DEF TypeOK
<1>1. r \in Events /\ r.kind = "revised"
  BY RevisedType
<1> HIDE DEF r
<1>2. ASSUME NEW s \in Seq(Events), NEW x \in Events, x.kind \notin {"assigned", "accepted"}
      PROVE  /\ NoneOf(s, {"assigned", "accepted"}) => NoneOf(Append(s, x), {"assigned", "accepted"})
             /\ \A a : HolderIn(s, a) => HolderIn(Append(s, x), a)
             /\ Append(s, x) \in Seq(Events)
  BY <1>2, HolderStays, HolderMade
<1>3. \E s \in Seq(Events) :
        /\ events' = Append(s, e)
        /\ NoneOf(events, {"assigned", "accepted"}) => NoneOf(s, {"assigned", "accepted"})
        /\ \A a : HolderIn(events, a) => HolderIn(s, a)
  <2>1. CASE revise /\ portal /\ Revised
    <3>1. events' = Append(Append(events, r), e)
      BY <2>1 DEF Record, RevisedBy, r
    <3>2. r.kind \notin {"assigned", "accepted"}
      BY <1>1
    <3> QED
      BY <1>0, <1>1, <1>2, <3>1, <3>2
  <2>2. CASE ~(revise /\ portal /\ Revised)
    BY <1>0, <2>2 DEF Record
  <2> QED
    BY <2>1, <2>2
<1>4. PICK s \in Seq(Events) :
        /\ events' = Append(s, e)
        /\ NoneOf(events, {"assigned", "accepted"}) => NoneOf(s, {"assigned", "accepted"})
        /\ \A a : HolderIn(events, a) => HolderIn(s, a)
  BY <1>3
<1> QED
  BY <1>2, <1>4 DEF HolderInv

\* Accept takes a request that nobody holds, and assign any.
LEMMA HolderInductive == TypeOK /\ HolderInv /\ [Next]_vars => HolderInv'
<1> SUFFICES ASSUME TypeOK, HolderInv, [Next]_vars PROVE HolderInv'
  OBVIOUS
<1>0. row \in Rows /\ events \in Seq(Events)
  BY DEF TypeOK
<1>1. ASSUME NEW u \in Users, Submit(u) \/ Resubmit(u) \/ Withdraw(u) \/ SendBack(u) \/ Decline(u)
      PROVE HolderInv'
  <2>1. PICK kind \in {"submitted", "resubmitted", "withdrawn", "returned", "declined"},
             x \in InputVals \cup {None}, revise \in BOOLEAN : Record(Event(kind, u, x, None), revise)
    BY <1>0, <1>1 DEF Submit, Resubmit, Withdraw, SendBack, Decline, Move, Rows
  <2>2. /\ Event(kind, u, x, None) \in Events
        /\ Event(kind, u, x, None).kind \notin {"assigned", "accepted"}
    BY EventType DEF EventKinds, InputEvents
  <2>3. row'.assignee = row.assignee /\ exists' = exists
    BY <1>0, <1>1 DEF Submit, Resubmit, Withdraw, SendBack, Decline, Move, Rows
  <2> QED
    BY <2>1, <2>2, <2>3, RecordHolder
<1>2. ASSUME NEW u \in Users, Accept(u) PROVE HolderInv'
  <2> DEFINE e == Event("accepted", u, None, None)
  <2>1. e \in Events /\ e.kind = "accepted" /\ e.by = u
    BY EventType DEF EventKinds, Event
  <2>2. events' = Append(events, e) /\ u \in Staff /\ exists' = exists
    BY <1>2 DEF Accept, Record
  <2>3. row'.assignee = IF row.assignee = None THEN u ELSE row.assignee
    BY <1>0, <1>2 DEF Accept, Rows
  <2> HIDE DEF e
  <2>4. CASE ~exists
    BY <2>2, <2>4 DEF HolderInv
  <2>5. CASE exists /\ row.assignee = None
    <3>1. HolderIn(events', u)
      BY <1>0, <2>1, <2>2, <2>5, HolderMade DEF HolderInv
    <3>2. row'.assignee = u /\ u # None
      BY <2>2, <2>3, <2>5, ActorsAssumption
    <3> QED
      BY <3>1, <3>2 DEF HolderInv
  <2>6. CASE exists /\ row.assignee # None
    <3>1. HolderIn(events', row.assignee)
      BY <1>0, <2>1, <2>2, <2>6, HolderStays DEF HolderInv
    <3> QED
      BY <2>3, <2>6, <3>1 DEF HolderInv
  <2> QED
    BY <2>4, <2>5, <2>6
<1>3. ASSUME NEW u \in Users, Quote(u) PROVE HolderInv'
  <2>1. /\ Event("quoted", u, row.inputs, None) \in Events
        /\ Event("quoted", u, row.inputs, None).kind = "quoted"
    BY <1>0, EventType DEF EventKinds, InputEvents, Rows
  <2>2. row'.assignee = row.assignee /\ exists' = exists /\ Record(Event("quoted", u, row.inputs, None), TRUE)
    BY <1>0, <1>3 DEF Quote, Rows
  <2> QED
    BY <2>1, <2>2, RecordHolder
<1>4. ASSUME NEW u \in Users, QuoteAccept(u) \/ QuoteDecline(u) PROVE HolderInv'
  <2>1. PICK kind \in {"quote_accepted", "quote_declined"} : Record(Event(kind, u, None, None), FALSE)
    BY <1>4 DEF QuoteAccept, QuoteDecline
  <2>2. /\ Event(kind, u, None, None) \in Events
        /\ Event(kind, u, None, None).kind \notin {"assigned", "accepted"}
    BY EventType DEF EventKinds
  <2>3. row'.assignee = row.assignee /\ exists' = exists
    BY <1>0, <1>4 DEF QuoteAccept, QuoteDecline, Rows
  <2> QED
    BY <2>1, <2>2, <2>3, RecordHolder
<1>5. ASSUME NEW u \in Staff, NEW target \in Staff, Assign(u, target) PROVE HolderInv'
  <2> DEFINE e == Event("assigned", u, None, target)
  <2>1. /\ "assigned" \in EventKinds /\ u \in Users
        /\ None \in InputVals \cup {None} /\ target \in Staff \cup {None}
    BY DEF EventKinds, Users
  <2>2. e \in Events /\ e.kind = "assigned" /\ e.target = target
    BY <2>1, EventType DEF Event
  <2>3. events' = Append(events, e)
    BY <1>5 DEF Assign, Record
  <2> HIDE DEF e
  <2>4. HolderIn(events', target)
    BY <1>0, <2>2, <2>3, HolderMade
  <2>5. row'.assignee = target /\ target # None
    BY <1>0, <1>5, ActorsAssumption DEF Assign, Rows
  <2> QED
    BY <2>4, <2>5 DEF HolderInv
<1>6. ASSUME NEW c \in Calls, FinishComment(c) PROVE HolderInv'
  <2>1. calls[c].user \in Users /\ "comment" \in EventKinds /\ None \in Staff \cup {None}
    BY <1>6 DEF FinishComment, TypeOK, CallRecords, Idle, EventKinds
  <2>2. /\ Event("comment", calls[c].user, None, None) \in Events
        /\ Event("comment", calls[c].user, None, None).kind = "comment"
    BY <2>1, EventType
  <2>3. CASE exists
    <3>1. Record(Event("comment", calls[c].user, None, None), FALSE) /\ UNCHANGED <<exists, row>>
      BY <1>6, <2>3 DEF FinishComment, Record
    <3> QED
      BY <2>2, <3>1, RecordHolder
  <2>4. CASE ~exists
    BY <1>6, <2>4 DEF FinishComment, HolderInv
  <2> QED
    BY <2>3, <2>4
<1>7. ASSUME NEW c \in Calls, NEW x \in InputVals, WriteInputs(c, x) PROVE HolderInv'
  <2>1. row'.assignee = row.assignee /\ UNCHANGED <<exists, events>>
    BY <1>0, <1>7 DEF WriteInputs, Rows
  <2> QED
    BY <2>1 DEF HolderInv
<1>8. ASSUME UNCHANGED <<portal, exists, row, events>> \/ Delete PROVE HolderInv'
  BY <1>8 DEF Delete, HolderInv
<1>9. ASSUME NEW c \in Calls, NEW u \in Users,
             BeginEdit(c, u) \/ BeginSwitch(c, u) \/ BeginComment(c, u) \/ BeginRemove(c, u)
      PROVE HolderInv'
  BY <1>8, <1>9 DEF BeginEdit, BeginSwitch, BeginComment, BeginRemove
<1>10. ASSUME NEW c \in Calls, FinishRemove(c) PROVE HolderInv'
  BY <1>8, <1>10 DEF FinishRemove
<1>11. ASSUME NEW u \in Users, RemoveDraft(u) PROVE HolderInv'
  BY <1>8, <1>11 DEF RemoveDraft
<1>12. CASE UNCHANGED vars
  BY <1>8, <1>12 DEF vars
<1> QED
  BY <1>1, <1>2, <1>3, <1>4, <1>5, <1>6, <1>7, <1>9, <1>10, <1>11, <1>12, InputsAssumption
  DEF Next, FinishEdit, FinishSwitch

\* Who holds a request can be read off its timeline: accept takes it only from
\* nobody, and assign writes its event with the column.
THEOREM HolderIsTheTimelines == Spec => []AssigneeFollowsTimeline
<1>1. Init => HolderInv
  <2> SUFFICES ASSUME Init PROVE HolderInv
    OBVIOUS
  <2>1. PICK u \in Users : events = <<Event("created", u, None, None)>>
    BY DEF Init
  <2>2. Len(events) = 1 /\ events[1].kind = "created"
    BY <2>1 DEF Event
  <2>3. row.assignee = None
    BY DEF Init
  <2> QED
    BY <2>2, <2>3 DEF HolderInv, NoneOf
<1>2. HolderInv => AssigneeFollowsTimeline
  <2> SUFFICES ASSUME HolderInv, NEW a \in Staff, exists, row.assignee = a
               PROVE  \/ \E i \in 1..Len(events) : NewestOf(events, {"assigned"}, i) /\ events[i].target = a
                      \/ /\ \A i \in 1..Len(events) : events[i].kind # "assigned"
                         /\ \E i \in 1..Len(events) :
                              /\ events[i].kind = "accepted" /\ events[i].by = a
                              /\ \A j \in 1..(i - 1) : events[j].kind # "accepted"
    BY DEF AssigneeFollowsTimeline
  <2>1. HolderIn(events, a)
    BY ActorsAssumption DEF HolderInv
  <2> QED
    BY <2>1 DEF HolderIn, NoneOf, FirstOf
<1>3. QED
  BY <1>1, <1>2, HolderInductive, TypeCorrect, PTL DEF Spec

-----------------------------------------------------------------------------
(* A project is a negotiation.                                             *)

\* What a timeline shows, and in whose hands the columns say a project is.
SharedIn(s) ==
  IF \E i \in 1..Len(s) : NewestOf(s, Disclosures, i)
  THEN s[CHOOSE i \in 1..Len(s) : NewestOf(s, Disclosures, i)].inputs
  ELSE None
HandsIn(ex, po, status, response) ==
  CASE ~ex -> "discarded"
    [] ex /\ ~po -> IF status = "quoted" THEN "posted" ELSE "own"
    [] OTHER ->
       CASE status = "submitted" -> "inbox"
         [] status = "in_review" -> "staff"
         [] status = "declined" -> "refused"
         [] status = "quoted" -> IF response = "accepted" THEN "agreed" ELSE "offer"
         [] OTHER -> status

\* The refinement mapping, before and after a step.
LEMMA Mapping ==
  /\ SharedInputs = SharedIn(events) /\ SharedInputs' = SharedIn(events')
  /\ TurnOf = HandsIn(exists, portal, row.status, row.response)
  /\ TurnOf' = HandsIn(exists', portal', row'.status, row'.response)
BY DEF SharedInputs, SharedIn, IsDisclosure, TurnOf, HandsIn

\* A timeline shows the inputs of its newest disclosure.
LEMMA SharedIs ==
  ASSUME NEW s \in Seq(Events), NEW i \in 1..Len(s), NewestOf(s, Disclosures, i)
  PROVE  SharedIn(s) = s[i].inputs
<1> DEFINE c == CHOOSE j \in 1..Len(s) : NewestOf(s, Disclosures, j)
<1>1. c \in 1..Len(s) /\ NewestOf(s, Disclosures, c)
  OBVIOUS
<1>2. SharedIn(s) = s[c].inputs
  BY DEF SharedIn
<1> HIDE DEF c
<1>3. c = i
  BY <1>1, NewestUnique
<1> QED
  BY <1>2, <1>3

\* Other events leave what it shows.
LEMMA SharedStays ==
  ASSUME NEW s \in Seq(Events), NEW e \in Events, e.kind \notin Disclosures
  PROVE  SharedIn(Append(s, e)) = SharedIn(s)
<1>0. Append(s, e) \in Seq(Events)
  OBVIOUS
<1>1. CASE \E i \in 1..Len(s) : NewestOf(s, Disclosures, i)
  <2>1. PICK i \in 1..Len(s) : NewestOf(s, Disclosures, i)
    BY <1>1
  <2>2. NewestOf(Append(s, e), Disclosures, i) /\ Append(s, e)[i] = s[i]
    BY <2>1, AppendOther
  <2>3. i \in 1..Len(Append(s, e))
    BY <2>2 DEF NewestOf
  <2> QED
    BY <1>0, <2>1, <2>2, <2>3, SharedIs
<1>2. CASE ~\E i \in 1..Len(s) : NewestOf(s, Disclosures, i)
  <2>1. ASSUME NEW i \in 1..Len(Append(s, e)), NewestOf(Append(s, e), Disclosures, i) PROVE FALSE
    <3>1. /\ Len(Append(s, e)) = Len(s) + 1 /\ Append(s, e)[Len(s) + 1] = e
          /\ \A j \in 1..Len(s) : Append(s, e)[j] = s[j]
      OBVIOUS
    <3>2. i \in 1..Len(s)
      BY <2>1, <3>1 DEF NewestOf
    <3>3. NewestOf(s, Disclosures, i)
      BY <2>1, <3>1, <3>2 DEF NewestOf
    <3> QED
      BY <1>2, <3>2, <3>3
  <2> QED
    BY <1>2, <2>1 DEF SharedIn
<1> QED
  BY <1>1, <1>2

\* A project starts as a negotiation does.
LEMMA InitMaps == Init => Abstract!NInit
<1> SUFFICES ASSUME Init PROVE Abstract!NInit
  OBVIOUS
<1>1. PICK u \in Users : events = <<Event("created", u, None, None)>>
  BY DEF Init
<1>2. Len(events) = 1 /\ events[1].kind = "created"
  BY <1>1 DEF Event
<1>3. SharedIn(events) = None
  BY <1>2 DEF SharedIn, NewestOf, Disclosures
<1>4. TurnOf \in {"draft", "own"}
  <2>1. row.status = "draft" /\ exists = TRUE /\ portal \in BOOLEAN
    BY DEF Init
  <2> QED
    BY <2>1, Mapping DEF HandsIn
<1>5. row.inputs = BlankInputs
  BY DEF Init
<1> QED
  BY <1>3, <1>4, <1>5, Mapping DEF Abstract!NInit

\* A step that writes no disclosure and leaves the inputs and the hands.
LEMMA Stutters ==
  ASSUME TypeOK, NEW e \in Events, e.kind \notin Disclosures, events' = Append(events, e),
         row'.inputs = row.inputs, row'.status = row.status, row'.response = row.response,
         exists' = exists, portal' = portal
  PROVE  UNCHANGED <<TurnOf, row.inputs, SharedInputs>>
<1>1. SharedIn(events') = SharedIn(events)
  BY SharedStays DEF TypeOK
<1> QED
  BY <1>1, Mapping

\* Every step of the handlers is a step of the negotiation, or changes nothing
\* it can see.
LEMMA StepMaps ==
  TypeOK /\ HiddenInv /\ [Next]_vars => Abstract!NNext \/ UNCHANGED <<TurnOf, row.inputs, SharedInputs>>
<1> DEFINE Goal == Abstract!NNext \/ UNCHANGED <<TurnOf, row.inputs, SharedInputs>>
<1> SUFFICES ASSUME TypeOK, HiddenInv, [Next]_vars PROVE Goal
  OBVIOUS
<1>0. /\ row \in Rows /\ events \in Seq(Events) /\ row.status \in Statuses
      /\ portal \in BOOLEAN /\ exists \in BOOLEAN
      /\ {"draft", "submitted", "in_review", "returned", "declined", "quoted"} \subseteq Statuses
  BY DEF TypeOK, Rows, Statuses
<1> HIDE DEF Goal
<1>1. ASSUME NEW u \in Users, Submit(u) \/ Resubmit(u) \/ Quote(u) PROVE Goal
  <2>1. PICK kind \in InputEvents, revise \in BOOLEAN : Record(Event(kind, u, row.inputs, None), revise)
    BY <1>1 DEF Submit, Resubmit, Quote, Move, InputEvents
  <2> DEFINE e == Event(kind, u, row.inputs, None)
  <2>2. e \in Events /\ e.kind \in InputEvents /\ e.inputs = row.inputs
    BY <1>0, EventType DEF EventKinds, Rows
  <2>3. PICK i \in 1..Len(events') :
          NewestOf(events', Disclosures, i) /\ events'[i].kind \in InputEvents /\ events'[i].inputs = row.inputs
    BY <2>1, <2>2, FreezeShows
  <2>4. SharedInputs' = row.inputs
    <3>1. events' \in Seq(Events)
      BY <2>1, <2>2, RecordAppends
    <3> QED
      BY <2>3, <3>1, SharedIs, Mapping
  <2>5. row'.inputs = row.inputs /\ portal' = portal /\ exists /\ exists'
    BY <1>0, <1>1 DEF Submit, Resubmit, Quote, Move, Locked, Rows
  <2>6. CASE Submit(u) \/ Resubmit(u)
    <3>1. portal /\ row.status \in {"draft", "returned"} /\ row'.status = "submitted"
      BY <1>0, <2>6 DEF Submit, Resubmit, Move, Locked, FromOf, Rows
    <3>2. TurnOf \in {"draft", "returned"} /\ TurnOf' = "inbox"
      BY <1>0, <2>5, <3>1, Mapping DEF HandsIn
    <3> QED
      BY <2>4, <2>5, <3>2 DEF Goal, Abstract!NNext, Abstract!HandOver, Abstract!Share
  <2>7. CASE Quote(u) /\ portal
    <3>1. row.status = "in_review" /\ row'.status = "quoted" /\ row'.response # "accepted"
      BY <1>0, <2>7, ActorsAssumption DEF Quote, Locked, FromOf, Rows
    <3>2. TurnOf = "staff" /\ TurnOf' = "offer"
      BY <1>0, <2>5, <2>7, <3>1, Mapping DEF HandsIn
    <3> QED
      BY <2>4, <2>5, <3>2 DEF Goal, Abstract!NNext, Abstract!Offer, Abstract!Share
  <2>8. CASE Quote(u) /\ ~portal
    <3>1. row.status = "draft" /\ row'.status = "quoted"
      BY <1>0, <2>8 DEF Quote, Locked, FromOf, Rows
    <3>2. TurnOf = "own" /\ TurnOf' = "posted"
      BY <1>0, <2>5, <2>8, <3>1, Mapping DEF HandsIn
    <3> QED
      BY <2>4, <2>5, <3>2 DEF Goal, Abstract!NNext, Abstract!Post, Abstract!Share
  <2> QED
    BY <1>0, <1>1, <2>6, <2>7, <2>8
<1>2. ASSUME NEW u \in Users, SendBack(u) \/ Decline(u) PROVE Goal
  <2>1. PICK kind \in {"returned", "declined"} :
          Record(Event(kind, u, None, None), TRUE) /\ row' = [row EXCEPT !.status = kind]
    BY <1>2 DEF SendBack, Decline, Move
  <2> DEFINE e == Event(kind, u, None, None)
  <2>2. e \in Events /\ e.kind \notin Disclosures
    BY EventType DEF EventKinds, Disclosures
  <2>3. portal /\ exists /\ row.status \in {"submitted", "in_review"} /\ UNCHANGED <<portal, exists>>
    BY <1>2 DEF SendBack, Decline, Move, Locked, FromOf
  <2>4. PICK b \in 1..Len(events) : IsDisclosure(b) /\ events[b].kind \in InputEvents
    BY <2>3 DEF HiddenInv, RoundOpen
  <2>5. PICK i \in 1..Len(events') : NewestOf(events', Disclosures, i) /\ events'[i].inputs = row.inputs
    BY <2>1, <2>2, <2>3, <2>4, CloseShows
  <2>6. SharedInputs' = row.inputs
    <3>1. events' \in Seq(Events)
      BY <2>1, <2>2, RecordAppends
    <3> QED
      BY <2>5, <3>1, SharedIs, Mapping
  <2>7. row'.inputs = row.inputs /\ row'.status = kind
    BY <1>0, <2>1 DEF Rows
  <2>8. /\ TurnOf \in {"inbox", "staff"}
        /\ TurnOf' = IF kind = "returned" THEN "returned" ELSE "refused"
    BY <1>0, <2>1, <2>3, <2>7, Mapping DEF HandsIn
  <2>9. CASE kind = "returned"
    BY <2>6, <2>7, <2>8, <2>9 DEF Goal, Abstract!NNext, Abstract!HandBack, Abstract!Share
  <2>10. CASE kind = "declined"
    BY <2>6, <2>7, <2>8, <2>10 DEF Goal, Abstract!NNext, Abstract!Refuse, Abstract!Share
  <2> QED
    BY <2>9, <2>10
<1>3. ASSUME NEW u \in Users, Withdraw(u) \/ Accept(u) \/ QuoteAccept(u) \/ QuoteDecline(u) PROVE Goal
  <2>1. PICK kind \in {"withdrawn", "accepted", "quote_accepted", "quote_declined"} :
          events' = Append(events, Event(kind, u, None, None))
    BY <1>3 DEF Withdraw, Accept, QuoteAccept, QuoteDecline, Move, Record
  <2>2. Event(kind, u, None, None) \in Events /\ Event(kind, u, None, None).kind \notin Disclosures
    BY EventType DEF EventKinds, Disclosures
  <2>3. SharedInputs' = SharedInputs
    BY <1>0, <2>1, <2>2, SharedStays, Mapping
  <2>4. row'.inputs = row.inputs /\ portal' = portal /\ exists' = exists /\ exists /\ portal
    BY <1>0, <1>3 DEF Withdraw, Accept, QuoteAccept, QuoteDecline, Move, Locked, FromOf, Rows
  <2>5. CASE Withdraw(u)
    <3>1. row.status = "submitted" /\ row'.status = "draft"
      BY <1>0, <2>5 DEF Withdraw, Move, Locked, FromOf, Rows
    <3>2. TurnOf = "inbox" /\ TurnOf' = "draft"
      BY <1>0, <2>4, <3>1, Mapping DEF HandsIn
    <3> QED
      BY <2>3, <2>4, <3>2 DEF Goal, Abstract!NNext, Abstract!TakeBack
  <2>6. CASE Accept(u)
    <3>1. row.status = "submitted" /\ row'.status = "in_review"
      BY <1>0, <2>4, <2>6 DEF Accept, Locked, FromOf, Rows
    <3>2. TurnOf = "inbox" /\ TurnOf' = "staff"
      BY <1>0, <2>4, <3>1, Mapping DEF HandsIn
    <3> QED
      BY <2>3, <2>4, <3>2 DEF Goal, Abstract!NNext, Abstract!TakeUp
  <2>7. CASE QuoteAccept(u)
    <3>1. /\ row.status = "quoted" /\ row'.status = "quoted"
          /\ row.response # "accepted" /\ row'.response = "accepted"
      BY <1>0, <2>4, <2>7, ActorsAssumption DEF QuoteAccept, Answerable, Locked, FromOf, Rows
    <3>2. TurnOf = "offer" /\ TurnOf' = "agreed"
      BY <1>0, <2>4, <3>1, Mapping DEF HandsIn
    <3> QED
      BY <2>3, <2>4, <3>2 DEF Goal, Abstract!NNext, Abstract!Agree
  <2>8. CASE QuoteDecline(u)
    <3>1. row.status = "quoted" /\ row'.status = "in_review" /\ row.response # "accepted"
      BY <1>0, <2>4, <2>8, ActorsAssumption DEF QuoteDecline, Answerable, Locked, FromOf, Rows
    <3>2. TurnOf = "offer" /\ TurnOf' = "staff"
      BY <1>0, <2>4, <3>1, Mapping DEF HandsIn
    <3> QED
      BY <2>3, <2>4, <3>2 DEF Goal, Abstract!NNext, Abstract!TurnDown
  <2> QED
    BY <1>3, <2>5, <2>6, <2>7, <2>8
<1>4. ASSUME NEW u \in Staff, NEW target \in Staff, Assign(u, target) PROVE Goal
  <2>1. /\ "assigned" \in EventKinds /\ u \in Users
        /\ None \in InputVals \cup {None} /\ target \in Staff \cup {None}
    BY DEF EventKinds, Users
  <2>2. Event("assigned", u, None, target) \in Events /\ Event("assigned", u, None, target).kind \notin Disclosures
    BY <2>1, EventType DEF Disclosures
  <2>3. /\ events' = Append(events, Event("assigned", u, None, target))
        /\ row'.inputs = row.inputs /\ row'.status = row.status /\ row'.response = row.response
        /\ exists' = exists /\ portal' = portal
    BY <1>0, <1>4 DEF Assign, Record, Rows
  <2> QED
    BY <2>2, <2>3, Stutters DEF Goal
<1>5. ASSUME NEW c \in Calls, FinishComment(c) PROVE Goal
  <2>1. calls[c].user \in Users /\ "comment" \in EventKinds /\ None \in Staff \cup {None}
    BY <1>5 DEF FinishComment, TypeOK, CallRecords, Idle, EventKinds
  <2>2. /\ Event("comment", calls[c].user, None, None) \in Events
        /\ Event("comment", calls[c].user, None, None).kind \notin Disclosures
    BY <2>1, EventType DEF Disclosures
  <2>3. CASE exists
    <3>1. /\ events' = Append(events, Event("comment", calls[c].user, None, None))
          /\ UNCHANGED <<portal, exists, row>>
      BY <1>5, <2>3 DEF FinishComment
    <3> QED
      BY <2>2, <3>1, Stutters DEF Goal
  <2>4. CASE ~exists
    BY <1>5, <2>4, Mapping DEF FinishComment, Goal
  <2> QED
    BY <2>3, <2>4
<1>6. ASSUME NEW c \in Calls, NEW x \in InputVals, WriteInputs(c, x) PROVE Goal
  <2>1. UNCHANGED <<portal, exists, events>> /\ SharedInputs' = SharedInputs
    BY <1>6, Mapping DEF WriteInputs
  <2>2. CASE UNCHANGED row
    BY <2>1, <2>2, Mapping DEF Goal
  <2>3. CASE ~UNCHANGED row
    <3>1. /\ exists /\ WritableBy(portal, row.status, SideOf(calls[c].user))
          /\ row' = [row EXCEPT !.inputs = x]
      BY <1>6, <2>3 DEF WriteInputs
    <3>2. row'.inputs = x /\ row'.status = row.status /\ row'.response = row.response
      BY <1>0, <3>1 DEF Rows
    <3>3. TurnOf' = TurnOf
      BY <2>1, <3>2, Mapping
    <3>4. TurnOf \in {"draft", "returned", "staff", "own"}
      <4>1. portal => row.status \in {"draft", "returned", "in_review"}
        BY <3>1 DEF WritableBy
      <4>2. ~portal => row.status # "quoted"
        BY <3>1 DEF WritableBy
      <4> QED
        BY <1>0, <3>1, <4>1, <4>2, Mapping DEF HandsIn
    <3> QED
      BY <2>1, <3>2, <3>3, <3>4 DEF Goal, Abstract!NNext, Abstract!ClientWrites, Abstract!StaffWrites
  <2> QED
    BY <2>2, <2>3
<1>7. ASSUME UNCHANGED <<portal, exists, row, events>> PROVE Goal
  BY <1>7, Mapping DEF Goal
<1>8. ASSUME Delete, exists, TurnOf \in {"draft", "own", "posted"} PROVE Goal
  <2>1. SharedInputs' = None
    BY <1>8, Mapping DEF Delete, SharedIn
  <2>2. TurnOf' = "discarded"
    BY <1>0, <1>8, Mapping DEF HandsIn, Delete
  <2> QED
    BY <1>8, <2>1, <2>2 DEF Goal, Delete, Abstract!NNext, Abstract!Discard
<1>9. ASSUME NEW c \in Calls, NEW u \in Users,
             BeginEdit(c, u) \/ BeginSwitch(c, u) \/ BeginComment(c, u) \/ BeginRemove(c, u)
      PROVE Goal
  BY <1>7, <1>9 DEF BeginEdit, BeginSwitch, BeginComment, BeginRemove
<1>10. ASSUME NEW c \in Calls, FinishRemove(c) PROVE Goal
  <2>1. CASE exists /\ ~portal
    <3>1. TurnOf \in {"own", "posted"}
      BY <1>0, <2>1, Mapping DEF HandsIn
    <3> QED
      BY <1>8, <1>10, <2>1, <3>1 DEF FinishRemove
  <2>2. CASE ~(exists /\ ~portal)
    BY <1>7, <1>10, <2>2 DEF FinishRemove
  <2> QED
    BY <2>1, <2>2
<1>11. ASSUME NEW u \in Users, RemoveDraft(u) PROVE Goal
  <2>1. TurnOf = "draft" /\ exists /\ Delete
    BY <1>0, <1>11, Mapping DEF HandsIn, RemoveDraft
  <2> QED
    BY <1>8, <2>1
<1>12. CASE UNCHANGED vars
  BY <1>7, <1>12 DEF vars
<1> QED
  BY <1>1, <1>2, <1>3, <1>4, <1>5, <1>6, <1>9, <1>10, <1>11, <1>12, InputsAssumption
  DEF Next, FinishEdit, FinishSwitch

\* A project is a negotiation, for any number of users, requests and input
\* values: whatever the handlers and the requests in flight do, one document
\* changes hands, only the side that has it writes it, and it is shared by the
\* time it leaves the supplier's.
THEOREM IsNegotiation == Spec => ImplementsNegotiation
<1>1. Init => HiddenInv
  BY DEF Init, HiddenInv, NothingHidden, RoundOpen, OwnStatus
<1> QED
  BY <1>1, InitMaps, StepMaps, HiddenInductive, TypeCorrect, PTL
  DEF Spec, ImplementsNegotiation, Abstract!NSpec, Abstract!nvars

=============================================================================
