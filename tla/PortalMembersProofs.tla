------------------------- MODULE PortalMembersProofs ------------------------
(***************************************************************************)
(* Theorems about PortalMembers, for any users, companies, invitations and *)
(* requests.  Three things no index guarantees are kept by row locks: a    *)
(* seat to a user, an open invitation to an address, an owner to a company *)
(* that changes its owners.                                                *)
(***************************************************************************)
EXTENDS PortalMembers, FiniteSetTheorems, TLAPS

Handling == {"entered", "read"}
\* What a request's operation and stage say of the rest of it.
Shaped(x) ==
  /\ x.op = "none" => x.at = "idle"
  /\ x.op = "accept" => /\ x.at \in {"checked"} \cup Handling
                        /\ x.inv \in Invitations /\ x.user \in Users
                        /\ x.company \in Cards /\ x.role \in Roles
  /\ x.op = "submit" => /\ x.at \in {"form", "post", "found"} \cup Handling
                        /\ x.inv \in Invitations /\ x.user \in Users /\ x.role = "owner"
                        /\ x.at \in {"found"} \cup Handling => x.company \in LeadCards
  /\ x.op = "join" => /\ x.at \in Handling /\ x.inv = None /\ x.user \in Users
                      /\ x.company \in Cards /\ x.role = "viewer"
  /\ x.op = "send" => /\ x.at \in {"guarded", "cleared"} /\ x.inv = None /\ x.user \in Users
                      /\ x.company \in Cards \cup {New} /\ x.role \in Roles
  /\ x.op = "change" => /\ x.at \in {"snapped", "locked"} /\ x.inv = None
                        /\ x.user \in Users /\ x.company \in Cards
  /\ x.row # None => x.at = "read" /\ x.seen \in Seats /\ x.seen.user = x.user
Shape == \A c \in Calls : Shaped(call[c])
\* Rows of invitations are never deleted.
Sent == \A c \in Calls : call[c].inv # None => invitation[call[c].inv] # None

-----------------------------------------------------------------------------
(* The types *)

\* Constants keep to themselves.
LEMMA Apart ==
  /\ None \notin Users /\ None \notin Cards /\ None \notin Invitations /\ None \notin RowIds
  /\ None \notin Roles /\ None \notin Domains /\ New \notin Cards /\ New # None
  /\ LeadCards \subseteq Cards /\ BPs \subseteq Cards
  BY PortalAssumption DEF Cards

\* The idle request.
LEMMA IdleTypes == Idle \in CallRecords /\ Shaped(Idle) /\ Idle.at = "idle" /\ Idle.op = "none"
  <1>1. Idle \in CallRecords
    BY DEF Idle, CallRecords, Stages
  <1>2. Shaped(Idle)
    BY DEF Idle, Shaped
  <1> QED
    BY <1>1, <1>2 DEF Idle

\* What the variables hold.
LEMMA Fields ==
  ASSUME TypeOK, Shape
  PROVE  /\ \A c \in Calls : call[c] \in CallRecords /\ Shaped(call[c])
         /\ \A i \in Invitations : invitation[i] # None => invitation[i] \in Letters
         /\ \A r \in RowIds : member[r] # None => member[r] \in Seats
  BY DEF TypeOK, Shape

\* A step of c alone.
LEMMA OneCall ==
  ASSUME TypeOK, Shape, NEW c \in Calls, NEW x \in CallRecords, Shaped(x),
         call' = [call EXCEPT ![c] = x]
  PROVE  call' \in [Calls -> CallRecords] /\ Shape'
  <1>1. /\ call' \in [Calls -> CallRecords]
        /\ \A d \in Calls : call'[d] = IF d = c THEN x ELSE call[d]
    BY DEF TypeOK
  <1> QED
    BY <1>1 DEF Shape, Shaped

\* A step of c alone that writes nothing.
LEMMA OneType ==
  ASSUME TypeOK, Shape, NEW c \in Calls, NEW x \in CallRecords, Shaped(x),
         call' = [call EXCEPT ![c] = x], served' \in 0..MaxRequests, Kept
  PROVE  TypeOK' /\ Shape'
  <1>1. call' \in [Calls -> CallRecords] /\ Shape'
    BY OneCall
  <1> QED
    BY <1>1 DEF Kept, TypeOK

\* A request ends.
LEMMA EndType ==
  ASSUME TypeOK, Shape, NEW c \in Calls, End(c)
  PROVE  /\ call' \in [Calls -> CallRecords] /\ Shape' /\ served' \in 0..MaxRequests
  BY IdleTypes, OneCall DEF End, Put, TypeOK

\* A request begins.
LEMMA BeginType ==
  ASSUME TypeOK, NEW c \in Calls, NEW x, Begin(c, x)
  PROVE  served' \in 0..MaxRequests /\ call' = [call EXCEPT ![c] = x]
  <1>1. served \in 0..MaxRequests /\ served < MaxRequests /\ served' = served + 1
    BY DEF TypeOK, Begin
  <1>2. MaxRequests \in Nat
    BY PortalAssumption
  <1> QED
    BY <1>1, <1>2 DEF Begin

\* An invitee accepts, submits the form or joins.
LEMMA AcceptTypes ==
  ASSUME TypeOK, Shape, NEW c \in Calls, NEW i \in Invitations, Accept(c, i)
  PROVE  TypeOK' /\ Shape'
  <1> DEFINE x == [Idle EXCEPT !.op = "accept", !.at = "checked", !.user = invitation[i].user,
                               !.company = invitation[i].company, !.role = invitation[i].role,
                               !.inv = i]
  <1>1. call' = [call EXCEPT ![c] = x] /\ served' \in 0..MaxRequests /\ Kept
    BY BeginType DEF Accept
  <1>2. invitation[i] \in Letters /\ invitation[i].company \in Cards
    <2>1. invitation[i] \in Letters
      BY Fields DEF Accept, Open
    <2> QED
      BY <2>1 DEF Accept, Letters
  <1>3. x \in CallRecords
    BY <1>2 DEF Idle, CallRecords, Stages, Letters
  <1>4. Shaped(x)
    BY <1>2 DEF Idle, Shaped, Letters
  <1> HIDE DEF x
  <1> QED
    BY <1>1, <1>3, <1>4, OneType

\* The new client's form is sent.
LEMMA SubmitTypes ==
  ASSUME TypeOK, Shape, NEW c \in Calls, NEW i \in Invitations, Submit(c, i)
  PROVE  TypeOK' /\ Shape'
  <1> DEFINE b == LeadsOf(i) # {}
             x == [Idle EXCEPT !.op = "submit", !.at = "form", !.user = invitation[i].user,
                               !.role = "owner", !.inv = i, !.late = b]
  <1>1. call' = [call EXCEPT ![c] = x] /\ served' \in 0..MaxRequests /\ Kept
    BY BeginType DEF Submit
  <1>2. invitation[i] \in Letters
    BY Fields DEF Submit, Open
  <1>3. b \in BOOLEAN
    OBVIOUS
  <1> HIDE DEF b
  <1>4. x \in CallRecords
    BY <1>2, <1>3 DEF Idle, CallRecords, Stages, Letters, Roles
  <1>5. Shaped(x)
    BY <1>2 DEF Idle, Shaped, Letters, Handling
  <1> HIDE DEF x
  <1> QED
    BY <1>1, <1>4, <1>5, OneType

\* A colleague joins by domain.
LEMMA JoinTypes ==
  ASSUME TypeOK, Shape, NEW c \in Calls, NEW u \in Users, Join(c, u)
  PROVE  TypeOK' /\ Shape'
  <1> DEFINE k == domain[DomainOf[u]]
             x == [Idle EXCEPT !.op = "join", !.at = "entered", !.user = u,
                               !.company = k, !.role = "viewer"]
  <1>1. call' = [call EXCEPT ![c] = x] /\ served' \in 0..MaxRequests /\ Kept
    BY BeginType DEF Join
  <1>2. k \in Cards
    <2>1. DomainOf[u] \in Domains
      BY PortalAssumption DEF Join
    <2> QED
      BY <2>1 DEF Join, TypeOK
  <1> HIDE DEF k
  <1>3. x \in CallRecords
    BY <1>2 DEF Idle, CallRecords, Stages, Roles
  <1>4. Shaped(x)
    BY <1>2 DEF Idle, Shaped, Handling
  <1> HIDE DEF x
  <1> QED
    BY <1>1, <1>3, <1>4, OneType

\* The lead is looked for and posted.
LEMMA SearchTypes ==
  ASSUME TypeOK, Shape, NEW c \in Calls, Search(c)
  PROVE  TypeOK' /\ Shape'
  <1>0. call[c] \in CallRecords /\ Shaped(call[c]) /\ call[c].at = "form" /\ Kept /\ served' \in 0..MaxRequests
    BY Fields DEF Search, Step, Put, TypeOK
  <1>1. call[c].op = "submit" /\ call[c].row = None
    BY <1>0 DEF CallRecords, Shaped, Handling
  <1>2. CASE LeadsOf(call[c].inv) = {}
    <2> DEFINE x == [call[c] EXCEPT !.at = "post"]
    <2>1. call' = [call EXCEPT ![c] = x]
      BY <1>2 DEF Search, Step, Put
    <2>2. x \in CallRecords
      BY <1>0 DEF CallRecords, Stages
    <2>3. Shaped(x)
      BY <1>0, <1>1 DEF CallRecords, Shaped, Handling
    <2> HIDE DEF x
    <2> QED
      BY <1>0, <2>1, <2>2, <2>3, OneType
  <1>3. CASE LeadsOf(call[c].inv) # {}
    <2>1. PICK k \in LeadsOf(call[c].inv) : Put(c, [call[c] EXCEPT !.at = "found", !.company = k])
      BY <1>3 DEF Search
    <2>2. k \in LeadCards
      BY DEF LeadsOf
    <2> DEFINE x == [call[c] EXCEPT !.at = "found", !.company = k]
    <2>3. x \in CallRecords
      BY <1>0, <2>2, Apart DEF CallRecords, Stages
    <2>4. Shaped(x)
      BY <1>0, <1>1, <2>2 DEF CallRecords, Shaped, Handling
    <2>5. call' = [call EXCEPT ![c] = x]
      BY <2>1 DEF Put
    <2> HIDE DEF x
    <2> QED
      BY <1>0, <2>3, <2>4, <2>5, OneType
  <1> QED
    BY <1>2, <1>3

\* The lead is posted.
LEMMA PostTypes ==
  ASSUME TypeOK, Shape, NEW c \in Calls, Post(c)
  PROVE  TypeOK' /\ Shape'
  <1>0. call[c] \in CallRecords /\ Shaped(call[c]) /\ call[c].at = "post"
    BY Fields DEF Post
  <1>1. call[c].op = "submit" /\ call[c].row = None /\ call[c].inv \in Invitations
    BY <1>0 DEF CallRecords, Shaped, Handling
  <1>2. PICK k \in LeadCards : /\ leads' = [leads EXCEPT ![k] = call[c].inv]
                               /\ Put(c, [call[c] EXCEPT !.at = "found", !.company = k])
    BY DEF Post
  <1> DEFINE x == [call[c] EXCEPT !.at = "found", !.company = k]
  <1>3. x \in CallRecords
    BY <1>0, Apart DEF CallRecords, Stages
  <1>4. Shaped(x)
    BY <1>0, <1>1 DEF CallRecords, Shaped, Handling
  <1>5. call' = [call EXCEPT ![c] = x] /\ served' = served
    BY <1>2 DEF Put
  <1> HIDE DEF x
  <1>6. call' \in [Calls -> CallRecords] /\ Shape'
    BY <1>3, <1>4, <1>5, OneCall
  <1>7. leads' \in [LeadCards -> Invitations \cup {None}]
    BY <1>1, <1>2 DEF TypeOK
  <1> QED
    BY <1>5, <1>6, <1>7 DEF Post, TypeOK

\* The invitation, then the user, are locked.
LEMMA EnterTypes ==
  ASSUME TypeOK, Shape, NEW c \in Calls, Enter(c)
  PROVE  TypeOK' /\ Shape'
  <1>0. call[c] \in CallRecords /\ Shaped(call[c]) /\ call[c].at \in {"checked", "found"} /\ Kept
    BY Fields DEF Enter
  <1>1. call[c].op \in {"accept", "submit"} /\ call[c].row = None
    BY <1>0 DEF CallRecords, Shaped, Handling
  <1>2. CASE StillPending(c)
    <2> DEFINE x == [call[c] EXCEPT !.at = "entered"]
    <2>1. call' = [call EXCEPT ![c] = x] /\ served' \in 0..MaxRequests
      BY <1>2 DEF Enter, Step, Put, TypeOK
    <2>2. x \in CallRecords
      BY <1>0 DEF CallRecords, Stages
    <2>3. Shaped(x)
      BY <1>0, <1>1 DEF CallRecords, Shaped, Handling
    <2> HIDE DEF x
    <2> QED
      BY <1>0, <2>1, <2>2, <2>3, OneType
  <1>3. CASE ~StillPending(c)
    BY <1>0, <1>3, EndType DEF Enter, Kept, TypeOK
  <1> QED
    BY <1>2, <1>3

\* The user is locked and the membership read.
LEMMA TakeUserTypes ==
  ASSUME TypeOK, Shape, NEW c \in Calls, TakeUser(c)
  PROVE  TypeOK' /\ Shape'
  <1>0. /\ call[c] \in CallRecords /\ Shaped(call[c]) /\ call[c].at = "entered" /\ Kept
        /\ served' \in 0..MaxRequests
    BY Fields DEF TakeUser, Step, Put, TypeOK
  <1>1. call[c].op \in {"accept", "submit", "join"} /\ call[c].row = None
    BY <1>0 DEF CallRecords, Shaped, Handling
  <1>2. CASE SeatsOf(call[c].user) = {}
    <2> DEFINE x == [call[c] EXCEPT !.at = "read"]
    <2>1. call' = [call EXCEPT ![c] = x]
      BY <1>2 DEF TakeUser, Step, Put
    <2>2. x \in CallRecords
      BY <1>0 DEF CallRecords, Stages
    <2>3. Shaped(x)
      BY <1>0, <1>1 DEF CallRecords, Shaped, Handling
    <2> HIDE DEF x
    <2> QED
      BY <1>0, <2>1, <2>2, <2>3, OneType
  <1>3. CASE SeatsOf(call[c].user) # {}
    <2>1. PICK r \in SeatsOf(call[c].user) :
            Put(c, [call[c] EXCEPT !.at = "read", !.row = r, !.seen = member[r]])
      BY <1>3 DEF TakeUser
    <2>2. r \in RowIds /\ member[r] \in Seats /\ member[r].user = call[c].user
      BY Fields DEF SeatsOf
    <2> DEFINE x == [call[c] EXCEPT !.at = "read", !.row = r, !.seen = member[r]]
    <2>3. x \in CallRecords
      BY <1>0, <2>2 DEF CallRecords, Stages
    <2>4. Shaped(x)
      BY <1>0, <1>1, <2>2 DEF CallRecords, Shaped, Handling
    <2>5. call' = [call EXCEPT ![c] = x]
      BY <2>1 DEF Put
    <2> HIDE DEF x
    <2> QED
      BY <1>0, <2>3, <2>4, <2>5, OneType
  <1> QED
    BY <1>2, <1>3

\* What a request that is about to commit holds.
LEMMA Reading ==
  ASSUME TypeOK, Shape, NEW c \in Calls, call[c].at = "read"
  PROVE  /\ call[c] \in CallRecords /\ Shaped(call[c]) /\ call[c].op \in {"accept", "submit", "join"}
         /\ call[c].user \in Users /\ call[c].company \in Cards /\ call[c].role \in Roles
         /\ call[c].inv \in Invitations \cup {None}
  <1>1. call[c] \in CallRecords /\ Shaped(call[c])
    BY Fields
  <1>2. call[c].op \in {"accept", "submit", "join"}
    BY <1>1 DEF CallRecords, Shaped, Handling
  <1> QED
    BY <1>1, <1>2, Apart DEF CallRecords, Shaped, Handling, Roles

\* The seats after a commit: one more of the request's user, or one raised.
LEMMA SeatedIs ==
  ASSUME TypeOK, Shape, NEW c \in Calls, call[c].at = "read", Seated(c)
  PROVE  /\ member' \in [RowIds -> Seats \cup {None}]
         /\ \/ UNCHANGED member
            \/ \E r \in RowIds :
                 /\ call[c].row = None /\ member[r] = None /\ r \in FreshRows
                 /\ member' = [member EXCEPT ![r] = [user |-> call[c].user, company |-> call[c].company,
                                                     role |-> call[c].role]]
            \/ /\ call[c].row \in RowIds /\ member[call[c].row] # None
               /\ RANK[call[c].role] > RANK[call[c].seen.role]
               /\ RowsFree(c, {call[c].row})
               /\ member' = [member EXCEPT ![call[c].row].role = call[c].role]
  <1>0. /\ call[c].user \in Users /\ call[c].company \in Cards /\ call[c].role \in Roles
        /\ call[c].row \in RowIds \cup {None}
    BY Reading DEF CallRecords
  <1>1. CASE call[c].row = None
    <2>1. PICK r \in FreshRows :
            member' = [member EXCEPT ![r] = [user |-> call[c].user, company |-> call[c].company,
                                             role |-> call[c].role]]
      BY <1>1 DEF Seated
    <2>2. r \in RowIds /\ member[r] = None
      BY DEF FreshRows
    <2>3. member' \in [RowIds -> Seats \cup {None}]
      BY <1>0, <2>1, <2>2 DEF TypeOK, Seats
    <2> QED
      BY <1>1, <2>1, <2>2, <2>3
  <1>2. CASE /\ call[c].row # None /\ RANK[call[c].role] > RANK[call[c].seen.role]
             /\ member[call[c].row] # None
    <2>1. /\ RowsFree(c, {call[c].row})
          /\ member' = [member EXCEPT ![call[c].row].role = call[c].role]
      BY <1>2 DEF Seated
    <2>2. call[c].row \in RowIds /\ member[call[c].row] \in Seats
      BY <1>0, <1>2, Fields
    <2>3. member' \in [RowIds -> Seats \cup {None}]
      BY <1>0, <2>1, <2>2 DEF TypeOK, Seats
    <2> QED
      BY <1>2, <2>1, <2>2, <2>3
  <1>3. CASE /\ call[c].row # None
             /\ ~(RANK[call[c].role] > RANK[call[c].seen.role] /\ member[call[c].row] # None)
    BY <1>3 DEF Seated, TypeOK
  <1> QED
    BY <1>1, <1>2, <1>3

\* A request commits: the seat, the invitation, the domain.
LEMMA CommitTypes ==
  ASSUME TypeOK, Shape, Sent, NEW c \in Calls, Commit(c)
  PROVE  TypeOK' /\ Shape'
  <1>0. /\ call[c].at = "read" /\ call[c].user \in Users /\ call[c].company \in Cards
        /\ call[c].inv \in Invitations \cup {None}
    BY Reading DEF Commit
  <1>1. call' \in [Calls -> CallRecords] /\ Shape' /\ served' \in 0..MaxRequests
    BY EndType DEF Commit
  <1>2. CASE Refused(c)
    BY <1>1, <1>2 DEF Commit, TypeOK
  <1>3. CASE ~Refused(c)
    <2>1. Seated(c) /\ invitation' = Settled(c) /\ domain' = Claimed(c)
      BY <1>3 DEF Commit
    <2>2. member' \in [RowIds -> Seats \cup {None}]
      BY <1>0, <2>1, SeatedIs
    <2>3. invitation' \in [Invitations -> Letters \cup {None}]
      <3>1. CASE call[c].inv = None
        BY <2>1, <3>1 DEF Settled, TypeOK
      <3>2. CASE call[c].inv # None /\ invitation[call[c].inv] \in Letters
        BY <1>0, <2>1, <3>2 DEF Settled, TypeOK, Letters
      <3>3. CASE call[c].inv # None /\ invitation[call[c].inv] = None
        BY <3>3 DEF Sent
      <3> QED
        BY <1>0, <3>1, <3>2, <3>3 DEF TypeOK
    <2>4. domain' \in [Domains -> Cards \cup {None}]
      BY <1>0, <2>1 DEF Claimed, TypeOK
    <2> QED
      BY <1>1, <2>2, <2>3, <2>4 DEF Commit, TypeOK
  <1> QED
    BY <1>2, <1>3

\* An invitation is sent.
LEMMA SendTypes ==
  ASSUME TypeOK, Shape, NEW c \in Calls, NEW u \in Users, NEW k \in Cards \cup {New},
         NEW role \in Roles, Send(c, u, k, role)
  PROVE  TypeOK' /\ Shape'
  <1> DEFINE x == [Idle EXCEPT !.op = "send", !.at = "guarded", !.user = u,
                               !.company = k, !.role = role]
  <1>1. call' = [call EXCEPT ![c] = x] /\ served' \in 0..MaxRequests /\ Kept
    BY BeginType DEF Send
  <1>2. x \in CallRecords
    BY DEF Idle, CallRecords, Stages
  <1>3. Shaped(x)
    BY DEF Idle, Shaped
  <1> HIDE DEF x
  <1> QED
    BY <1>1, <1>2, <1>3, OneType

\* The organization is locked and the open invitations read.
LEMMA ClearTypes ==
  ASSUME TypeOK, Shape, NEW c \in Calls, Clear(c)
  PROVE  TypeOK' /\ Shape'
  <1>0. call[c] \in CallRecords /\ Shaped(call[c]) /\ call[c].at = "guarded" /\ Kept
    BY Fields DEF Clear
  <1>1. call[c].op = "send" /\ call[c].row = None
    BY <1>0 DEF CallRecords, Shaped, Handling
  <1>2. CASE End(c)
    BY <1>0, <1>2, EndType DEF Kept, TypeOK
  <1>3. CASE Step(c, "cleared")
    <2> DEFINE x == [call[c] EXCEPT !.at = "cleared"]
    <2>1. call' = [call EXCEPT ![c] = x] /\ served' \in 0..MaxRequests
      BY <1>3 DEF Step, Put, TypeOK
    <2>2. x \in CallRecords
      BY <1>0 DEF CallRecords, Stages
    <2>3. Shaped(x)
      BY <1>0, <1>1 DEF CallRecords, Shaped, Handling
    <2> HIDE DEF x
    <2> QED
      BY <1>0, <2>1, <2>2, <2>3, OneType
  <1> QED
    BY <1>2, <1>3 DEF Clear

\* A request about to insert its invitation.
LEMMA Clearing ==
  ASSUME TypeOK, Shape, NEW c \in Calls, call[c].at = "cleared"
  PROVE  /\ call[c].op = "send" /\ call[c].user \in Users /\ call[c].company \in Cards \cup {New}
         /\ call[c].role \in Roles
  <1>1. call[c] \in CallRecords /\ Shaped(call[c])
    BY Fields
  <1> QED
    BY <1>1 DEF CallRecords, Shaped, Handling

\* The invitation's row.
LEMMA InsertTypes ==
  ASSUME TypeOK, Shape, NEW c \in Calls, Insert(c)
  PROVE  TypeOK' /\ Shape'
  <1>0. call[c].user \in Users /\ call[c].company \in Cards \cup {New} /\ call[c].role \in Roles
    BY Clearing DEF Insert
  <1>1. PICK i \in FreshIds :
          invitation' = [invitation EXCEPT ![i] =
            [user |-> call[c].user, company |-> call[c].company, role |-> call[c].role,
             status |-> "pending", expired |-> FALSE]]
    BY DEF Insert
  <1>2. call' \in [Calls -> CallRecords] /\ Shape' /\ served' \in 0..MaxRequests
    BY EndType DEF Insert
  <1>3. invitation' \in [Invitations -> Letters \cup {None}]
    BY <1>0, <1>1 DEF TypeOK, Letters
  <1> QED
    BY <1>2, <1>3 DEF Insert, TypeOK

\* A seat's role is changed, or the seat removed.
LEMMA ChangeTypes ==
  ASSUME TypeOK, Shape, NEW c \in Calls, NEW u \in Users, NEW k \in Cards,
         NEW role \in Roles \cup {None}, Change(c, u, k, role)
  PROVE  TypeOK' /\ Shape'
  <1> DEFINE o == OwnersOf(k)
             x == [Idle EXCEPT !.op = "change", !.at = "snapped", !.user = u,
                               !.company = k, !.role = role, !.owners = o]
  <1>1. call' = [call EXCEPT ![c] = x] /\ served' \in 0..MaxRequests /\ Kept
    BY BeginType DEF Change
  <1>2. o \in SUBSET RowIds
    BY DEF OwnersOf
  <1> HIDE DEF o
  <1>3. x \in CallRecords
    BY <1>2 DEF Idle, CallRecords, Stages
  <1>4. Shaped(x)
    BY DEF Idle, Shaped
  <1> HIDE DEF x
  <1> QED
    BY <1>1, <1>3, <1>4, OneType

\* The owners' rows are locked.
LEMMA LockOwnersTypes ==
  ASSUME TypeOK, Shape, NEW c \in Calls, LockOwners(c)
  PROVE  TypeOK' /\ Shape'
  <1> DEFINE o == call[c].owners \cap OwnersOf(call[c].company)
             x == [call[c] EXCEPT !.at = "locked", !.owners = o]
  <1>0. call[c] \in CallRecords /\ Shaped(call[c]) /\ call[c].at = "snapped" /\ Kept
    BY Fields DEF LockOwners
  <1>1. call[c].op = "change" /\ call[c].row = None
    BY <1>0 DEF CallRecords, Shaped, Handling
  <1>2. CASE End(c)
    BY <1>0, <1>2, EndType DEF Kept, TypeOK
  <1>3. CASE Put(c, x)
    <2>1. call' = [call EXCEPT ![c] = x] /\ served' \in 0..MaxRequests
      BY <1>3 DEF Put, TypeOK
    <2>2. o \in SUBSET RowIds
      BY DEF OwnersOf
    <2> HIDE DEF o
    <2>3. x \in CallRecords
      BY <1>0, <2>2 DEF CallRecords, Stages
    <2>4. Shaped(x)
      BY <1>0, <1>1 DEF CallRecords, Shaped, Handling
    <2> HIDE DEF x
    <2> QED
      BY <1>0, <2>1, <2>3, <2>4, OneType
  <1> QED
    BY <1>2, <1>3 DEF LockOwners

\* The seats after a change.
LEMMA ChangedIs ==
  ASSUME TypeOK, Shape, NEW c \in Calls, WriteChange(c)
  PROVE  /\ member' \in [RowIds -> Seats \cup {None}]
         /\ call[c] \in CallRecords /\ call[c].op = "change" /\ call[c].company \in Cards
         /\ \A r \in RowIds :
              /\ r \notin SeatsAt(call[c].user, call[c].company) => member'[r] = member[r]
              /\ r \in SeatsAt(call[c].user, call[c].company) =>
                   IF call[c].role = None THEN member'[r] = None
                   ELSE member'[r] = [member[r] EXCEPT !.role = call[c].role]
  <1> DEFINE targets == SeatsAt(call[c].user, call[c].company)
  <1>1. call[c] \in CallRecords /\ Shaped(call[c]) /\ call[c].at = "locked"
    BY Fields DEF WriteChange
  <1>2. call[c].op = "change" /\ call[c].role \in Roles \cup {None} /\ call[c].company \in Cards
    BY <1>1 DEF CallRecords, Shaped, Handling
  <1>3. member' = [r \in RowIds |->
          IF r \notin targets THEN member[r]
          ELSE IF call[c].role = None THEN None ELSE [member[r] EXCEPT !.role = call[c].role]]
    BY DEF WriteChange
  <1>4. \A r \in targets : r \in RowIds /\ member[r] \in Seats
    BY Fields DEF SeatsAt, SeatsOf
  <1> HIDE DEF targets
  <1>5. ASSUME NEW r \in RowIds PROVE member'[r] \in Seats \cup {None}
    <2>1. CASE r \notin targets
      BY <1>3, <2>1 DEF TypeOK
    <2>2. CASE r \in targets /\ call[c].role = None
      BY <1>3, <2>2
    <2>3. CASE r \in targets /\ call[c].role # None
      BY <1>2, <1>3, <1>4, <2>3 DEF Seats
    <2> QED
      BY <2>1, <2>2, <2>3
  <1>6. member' \in [RowIds -> Seats \cup {None}]
    BY <1>3, <1>5
  <1> QED
    BY <1>1, <1>2, <1>3, <1>6 DEF targets

\* The change is written.
LEMMA WriteChangeTypes ==
  ASSUME TypeOK, Shape, NEW c \in Calls, WriteChange(c)
  PROVE  TypeOK' /\ Shape'
  <1>1. call' \in [Calls -> CallRecords] /\ Shape' /\ served' \in 0..MaxRequests
    BY EndType DEF WriteChange
  <1> QED
    BY <1>1, ChangedIs DEF WriteChange, TypeOK

\* What happens to invitations and domains beside the requests.
LEMMA OutsideTypes ==
  ASSUME TypeOK, Shape,
         \/ \E i \in Invitations : Cancel(i) \/ Expire(i)
         \/ \E d \in Domains : RemoveDomain(d) \/ \E k \in Customers : AddDomain(d, k)
  PROVE  TypeOK' /\ Shape'
  <1>1. ASSUME NEW i \in Invitations, Cancel(i) \/ Expire(i) PROVE TypeOK' /\ Shape'
    <2>1. invitation[i] \in Letters
      BY <1>1, Fields DEF Cancel, Expire, Open
    <2>2. invitation' \in [Invitations -> Letters \cup {None}]
      <3>1. CASE Cancel(i)
        BY <2>1, <3>1 DEF Cancel, TypeOK, Letters
      <3>2. CASE Expire(i)
        BY <2>1, <3>2 DEF Expire, TypeOK, Letters
      <3> QED
        BY <1>1, <3>1, <3>2
    <2> QED
      BY <1>1, <2>2 DEF Cancel, Expire, TypeOK, Shape, Shaped
  <1>2. ASSUME NEW d \in Domains, RemoveDomain(d) \/ \E k \in Customers : AddDomain(d, k)
        PROVE TypeOK' /\ Shape'
    <2>1. Customers \subseteq Cards
      BY DEF Customers, Cards
    <2> QED
      BY <1>2, <2>1, Apart DEF RemoveDomain, AddDomain, TypeOK, Shape, Shaped
  <1> QED
    BY <1>1, <1>2

\* Every step keeps the types.
LEMMA NextType == TypeOK /\ Shape /\ Sent /\ [Next]_vars => TypeOK' /\ Shape'
  <1> SUFFICES ASSUME TypeOK, Shape, Sent, [Next]_vars PROVE TypeOK' /\ Shape'
    OBVIOUS
  <1>1. ASSUME NEW c \in Calls, NEW i \in Invitations, Accept(c, i) \/ Submit(c, i)
        PROVE TypeOK' /\ Shape'
    BY <1>1, AcceptTypes, SubmitTypes
  <1>2. ASSUME NEW c \in Calls, NEW u \in Users,
               \/ Join(c, u) \/ Send(c, u, New, "owner")
               \/ \E k \in Customers, role \in InviteRoles : Send(c, u, k, role)
               \/ \E k \in Cards, role \in Roles \cup {None} : Change(c, u, k, role)
        PROVE TypeOK' /\ Shape'
    <2>1. "owner" \in Roles /\ InviteRoles \subseteq Roles /\ Customers \subseteq Cards
      BY PortalAssumption DEF Roles, Cards, Customers
    <2> QED
      BY <1>2, <2>1, JoinTypes, SendTypes, ChangeTypes
  <1>3. ASSUME NEW c \in Calls,
               \/ Search(c) \/ Post(c) \/ Enter(c) \/ TakeUser(c) \/ Commit(c)
               \/ Clear(c) \/ Insert(c) \/ LockOwners(c) \/ WriteChange(c)
        PROVE TypeOK' /\ Shape'
    BY <1>3, SearchTypes, PostTypes, EnterTypes, TakeUserTypes, CommitTypes, ClearTypes,
       InsertTypes, LockOwnersTypes, WriteChangeTypes
  <1>4. ASSUME NEW c \in Calls, Abort(c) PROVE TypeOK' /\ Shape'
    BY <1>4, EndType DEF Abort, Kept, TypeOK
  <1>5. CASE UNCHANGED vars
    BY <1>5 DEF vars, TypeOK, Shape, Shaped
  <1> QED
    BY <1>1, <1>2, <1>3, <1>4, <1>5, OutsideTypes DEF Next

\* A step of the request c.
Begins(c) ==
  \/ \E i \in Invitations : Accept(c, i) \/ Submit(c, i)
  \/ \E u \in Users :
       \/ Join(c, u)
       \/ \E k \in Cards \cup {New}, role \in Roles : Send(c, u, k, role)
       \/ \E k \in Cards, role \in Roles \cup {None} : Change(c, u, k, role)
Advances(c) == \/ Search(c) \/ Post(c) \/ Enter(c) \/ TakeUser(c) \/ Commit(c)
               \/ Clear(c) \/ Insert(c) \/ LockOwners(c) \/ WriteChange(c) \/ Abort(c)
\* A step of nobody's.
Outside == \/ \E i \in Invitations : Cancel(i) \/ Expire(i)
           \/ \E d \in Domains : RemoveDomain(d) \/ \E k \in Customers : AddDomain(d, k)

\* A step is a request's or nobody's.
LEMMA Steps == [Next]_vars => \/ UNCHANGED vars \/ Outside
                             \/ \E c \in Calls : Begins(c) \/ Advances(c)
  <1>1. "owner" \in Roles /\ InviteRoles \subseteq Roles /\ Customers \subseteq Cards
    BY PortalAssumption DEF Roles, Cards, Customers
  <1> SUFFICES ASSUME Next PROVE Outside \/ \E c \in Calls : Begins(c) \/ Advances(c)
    OBVIOUS
  <1>2. ASSUME NEW c \in Calls, NEW u \in Users,
               \E k \in Customers, role \in InviteRoles : Send(c, u, k, role)
        PROVE \E k \in Cards \cup {New}, role \in Roles : Send(c, u, k, role)
    BY <1>1, <1>2
  <1>3. ASSUME NEW c \in Calls, NEW u \in Users, Send(c, u, New, "owner")
        PROVE \E k \in Cards \cup {New}, role \in Roles : Send(c, u, k, role)
    BY <1>1, <1>3
  <1> QED
    BY <1>2, <1>3 DEF Next, Begins, Advances, Outside

\* A request keeps its fields but in its own steps.
LEMMA Others ==
  ASSUME TypeOK, [Next]_vars, NEW c \in Calls
  PROVE  call'[c] = call[c] \/ Begins(c) \/ Advances(c)
  <1>1. ASSUME NEW d \in Calls, d # c, Begins(d) PROVE call'[c] = call[c]
    BY <1>1 DEF TypeOK, Begins, Accept, Submit, Join, Send, Change, Begin
  <1>2. ASSUME NEW d \in Calls, d # c, Advances(d) PROVE call'[c] = call[c]
    <2>1. \E x : call' = [call EXCEPT ![d] = x]
      BY <1>2 DEF Advances, Search, Post, Enter, TakeUser, Commit, Clear, Insert, LockOwners,
         WriteChange, Abort, Step, Put, End
    <2> QED
      BY <1>2, <2>1 DEF TypeOK
  <1>3. ASSUME Outside PROVE call'[c] = call[c]
    BY <1>3 DEF Outside, Cancel, Expire, RemoveDomain, AddDomain
  <1> QED
    BY <1>1, <1>2, <1>3, Steps DEF vars

\* A request that begins: it holds no row, and its invitation is open.
LEMMA Beginning ==
  ASSUME TypeOK, Shape, NEW c \in Calls, Begins(c)
  PROVE  /\ call[c] = Idle /\ Kept
         /\ call'[c].row = None /\ call'[c].at \in {"checked", "form", "entered", "guarded", "snapped"}
         /\ call'[c].inv # None => /\ call'[c].inv \in Invitations /\ Open(call'[c].inv)
                                   /\ call'[c].at \in {"checked", "form"}
  <1>0. ASSUME NEW x, Begin(c, x) PROVE call[c] = Idle /\ call'[c] = x
    BY <1>0 DEF Begin, TypeOK
  <1>1. ASSUME NEW i \in Invitations, Accept(c, i)
        PROVE  /\ call[c] = Idle /\ Kept /\ call'[c].row = None
               /\ call'[c].at = "checked" /\ call'[c].inv = i /\ Open(i)
    <2> DEFINE u == invitation[i].user
               k == invitation[i].company
               role == invitation[i].role
    <2>1. Begin(c, [Idle EXCEPT !.op = "accept", !.at = "checked", !.user = u,
                                !.company = k, !.role = role, !.inv = i])
      BY <1>1 DEF Accept
    <2> HIDE DEF u, k, role
    <2>2. call'[c] = [Idle EXCEPT !.op = "accept", !.at = "checked", !.user = u,
                                  !.company = k, !.role = role, !.inv = i]
      BY <1>0, <2>1
    <2> QED
      BY <1>0, <1>1, <2>1, <2>2 DEF Accept, Idle
  <1>2. ASSUME NEW i \in Invitations, Submit(c, i)
        PROVE  /\ call[c] = Idle /\ Kept /\ call'[c].row = None
               /\ call'[c].at = "form" /\ call'[c].inv = i /\ Open(i)
    <2> DEFINE u == invitation[i].user
               b == LeadsOf(i) # {}
    <2>1. Begin(c, [Idle EXCEPT !.op = "submit", !.at = "form", !.user = u,
                                !.role = "owner", !.inv = i, !.late = b])
      BY <1>2 DEF Submit
    <2> HIDE DEF u, b
    <2>2. call'[c] = [Idle EXCEPT !.op = "submit", !.at = "form", !.user = u,
                                  !.role = "owner", !.inv = i, !.late = b]
      BY <1>0, <2>1
    <2> QED
      BY <1>0, <1>2, <2>1, <2>2 DEF Submit, Idle
  <1>3. ASSUME NEW u \in Users, Join(c, u)
        PROVE  /\ call[c] = Idle /\ Kept /\ call'[c].row = None /\ call'[c].inv = None
               /\ call'[c].at = "entered"
    <2> DEFINE k == domain[DomainOf[u]]
    <2>1. Begin(c, [Idle EXCEPT !.op = "join", !.at = "entered", !.user = u,
                                !.company = k, !.role = "viewer"])
      BY <1>3 DEF Join
    <2> HIDE DEF k
    <2>2. call'[c] = [Idle EXCEPT !.op = "join", !.at = "entered", !.user = u,
                                  !.company = k, !.role = "viewer"]
      BY <1>0, <2>1
    <2> QED
      BY <1>0, <1>3, <2>1, <2>2 DEF Join, Idle
  <1>4. ASSUME NEW u \in Users, NEW k \in Cards \cup {New}, NEW role \in Roles, Send(c, u, k, role)
        PROVE  /\ call[c] = Idle /\ Kept /\ call'[c].row = None /\ call'[c].inv = None
               /\ call'[c].at = "guarded"
    <2>1. Begin(c, [Idle EXCEPT !.op = "send", !.at = "guarded", !.user = u,
                                !.company = k, !.role = role])
      BY <1>4 DEF Send
    <2>2. call'[c] = [Idle EXCEPT !.op = "send", !.at = "guarded", !.user = u,
                                  !.company = k, !.role = role]
      BY <1>0, <2>1
    <2> QED
      BY <1>0, <1>4, <2>1, <2>2 DEF Send, Idle
  <1>5. ASSUME NEW u \in Users, NEW k \in Cards, NEW role \in Roles \cup {None}, Change(c, u, k, role)
        PROVE  /\ call[c] = Idle /\ Kept /\ call'[c].row = None /\ call'[c].inv = None
               /\ call'[c].at = "snapped"
    <2> DEFINE o == OwnersOf(k)
    <2>1. Begin(c, [Idle EXCEPT !.op = "change", !.at = "snapped", !.user = u,
                                !.company = k, !.role = role, !.owners = o])
      BY <1>5 DEF Change
    <2> HIDE DEF o
    <2>2. call'[c] = [Idle EXCEPT !.op = "change", !.at = "snapped", !.user = u,
                                  !.company = k, !.role = role, !.owners = o]
      BY <1>0, <2>1
    <2> QED
      BY <1>0, <1>5, <2>1, <2>2 DEF Change, Idle
  <1>6. CASE \E i \in Invitations : Accept(c, i) \/ Submit(c, i)
    BY <1>1, <1>2, <1>6
  <1>7. CASE \E u \in Users : \/ Join(c, u)
                              \/ \E k \in Cards \cup {New}, role \in Roles : Send(c, u, k, role)
                              \/ \E k \in Cards, role \in Roles \cup {None} : Change(c, u, k, role)
    BY <1>3, <1>4, <1>5, <1>7
  <1> QED
    BY <1>6, <1>7 DEF Begins

\* A request that goes on keeps who asks, for what and by which invitation.
LEMMA Advancing ==
  ASSUME TypeOK, Shape, NEW c \in Calls, Advances(c)
  PROVE  \/ call'[c] = Idle
         \/ /\ call'[c].op = call[c].op /\ call'[c].user = call[c].user
            /\ call'[c].role = call[c].role /\ call'[c].inv = call[c].inv
            /\ call'[c].late = call[c].late
            /\ ~Search(c) /\ ~Post(c) => call'[c].company = call[c].company
            /\ ~TakeUser(c) => call'[c].row = call[c].row
            /\ ~LockOwners(c) => call'[c].owners = call[c].owners
  <1>0. call[c] \in CallRecords
    BY DEF TypeOK
  <1>1. ASSUME NEW x, Put(c, x) PROVE call'[c] = x
    BY <1>1 DEF Put, TypeOK
  <1>2. ASSUME NEW at, Step(c, at) PROVE call'[c] = [call[c] EXCEPT !.at = at]
    BY <1>1, <1>2 DEF Step
  <1>3. ASSUME End(c) PROVE call'[c] = Idle
    BY <1>1, <1>3 DEF End
  <1>4. ASSUME Search(c) \/ Post(c)
        PROVE \E at, k : call'[c] = [call[c] EXCEPT !.at = at, !.company = k]
    <2>1. ASSUME NEW at, Step(c, at) PROVE \E k : call'[c] = [call[c] EXCEPT !.at = at, !.company = k]
      <3>1. call'[c] = [call[c] EXCEPT !.at = at, !.company = call[c].company]
        BY <1>0, <1>2, <2>1 DEF CallRecords
      <3> QED
        BY <3>1
    <2>2. ASSUME NEW k, Put(c, [call[c] EXCEPT !.at = "found", !.company = k])
          PROVE \E at : call'[c] = [call[c] EXCEPT !.at = at, !.company = k]
      BY <1>1, <2>2
    <2>3. \/ Step(c, "post") \/ \E k : Put(c, [call[c] EXCEPT !.at = "found", !.company = k])
      BY <1>4 DEF Search, Post
    <2> QED
      BY <2>1, <2>2, <2>3
  <1>5. ASSUME Enter(c) \/ Clear(c)
        PROVE call'[c] = Idle \/ \E at : call'[c] = [call[c] EXCEPT !.at = at]
    BY <1>2, <1>3, <1>5 DEF Enter, Clear
  <1>6. ASSUME TakeUser(c)
        PROVE \E r, m : call'[c] = [call[c] EXCEPT !.at = "read", !.row = r, !.seen = m]
    <2>1. CASE Step(c, "read")
      <3>1. call'[c] = [call[c] EXCEPT !.at = "read", !.row = call[c].row, !.seen = call[c].seen]
        BY <1>0, <1>2, <2>1 DEF CallRecords
      <3> QED
        BY <3>1
    <2>2. ASSUME NEW r, NEW m, Put(c, [call[c] EXCEPT !.at = "read", !.row = r, !.seen = m])
          PROVE call'[c] = [call[c] EXCEPT !.at = "read", !.row = r, !.seen = m]
      BY <1>1, <2>2
    <2>3. Step(c, "read") \/ \E r, m : Put(c, [call[c] EXCEPT !.at = "read", !.row = r, !.seen = m])
      BY <1>6 DEF TakeUser
    <2> QED
      BY <2>1, <2>2, <2>3
  <1>7. ASSUME LockOwners(c)
        PROVE call'[c] = Idle \/ \E o : call'[c] = [call[c] EXCEPT !.at = "locked", !.owners = o]
    <2> DEFINE o == call[c].owners \cap OwnersOf(call[c].company)
    <2>1. End(c) \/ Put(c, [call[c] EXCEPT !.at = "locked", !.owners = o])
      BY <1>7 DEF LockOwners
    <2> HIDE DEF o
    <2> QED
      BY <1>1, <1>3, <2>1
  <1>8. ASSUME Commit(c) \/ Insert(c) \/ WriteChange(c) \/ Abort(c) PROVE call'[c] = Idle
    BY <1>3, <1>8 DEF Commit, Insert, WriteChange, Abort
  <1>9. CASE Search(c) \/ Post(c)
    BY <1>0, <1>4, <1>9 DEF CallRecords
  <1>10. CASE Enter(c) \/ Clear(c)
    BY <1>0, <1>5, <1>10 DEF CallRecords
  <1>11. CASE TakeUser(c)
    BY <1>0, <1>6, <1>11 DEF CallRecords
  <1>12. CASE LockOwners(c)
    BY <1>0, <1>7, <1>12 DEF CallRecords
  <1> QED
    BY <1>8, <1>9, <1>10, <1>11, <1>12 DEF Advances

\* The stage a request has come to tells the step it took.
LEMMA Arriving ==
  ASSUME TypeOK, Shape, NEW c \in Calls, Advances(c)
  PROVE  /\ call'[c].at \in {"idle", "post", "found", "entered", "read", "cleared", "locked"}
         /\ call'[c].at = "post" => Search(c)
         /\ call'[c].at = "found" => Search(c) \/ Post(c)
         /\ call'[c].at = "entered" => Enter(c)
         /\ call'[c].at = "read" => TakeUser(c)
         /\ call'[c].at = "cleared" => Clear(c)
         /\ call'[c].at = "locked" => LockOwners(c)
  <1>0. call[c] \in CallRecords
    BY DEF TypeOK
  <1>1. ASSUME NEW x, Put(c, x) PROVE call'[c] = x
    BY <1>1 DEF Put, TypeOK
  <1>2. ASSUME NEW at, Step(c, at) PROVE call'[c].at = at
    BY <1>0, <1>1, <1>2 DEF Step, CallRecords
  <1>3. ASSUME End(c) PROVE call'[c].at = "idle"
    BY <1>1, <1>3 DEF End, Idle
  <1>4. Search(c) => call'[c].at \in {"post", "found"}
    <2> SUFFICES ASSUME Search(c) PROVE call'[c].at \in {"post", "found"}
      OBVIOUS
    <2>1. ASSUME NEW k, Put(c, [call[c] EXCEPT !.at = "found", !.company = k])
          PROVE call'[c].at = "found"
      BY <1>0, <1>1, <2>1 DEF CallRecords
    <2> QED
      BY <1>2, <2>1 DEF Search
  <1>5. Post(c) => call'[c].at = "found"
    <2>1. ASSUME NEW k, Put(c, [call[c] EXCEPT !.at = "found", !.company = k])
          PROVE call'[c].at = "found"
      BY <1>0, <1>1, <2>1 DEF CallRecords
    <2> QED
      BY <2>1 DEF Post
  <1>6. Enter(c) => call'[c].at \in {"entered", "idle"}
    BY <1>2, <1>3 DEF Enter
  <1>7. TakeUser(c) => call'[c].at = "read"
    <2>1. ASSUME NEW r, NEW m, Put(c, [call[c] EXCEPT !.at = "read", !.row = r, !.seen = m])
          PROVE call'[c].at = "read"
      BY <1>0, <1>1, <2>1 DEF CallRecords
    <2> QED
      BY <1>2, <2>1 DEF TakeUser
  <1>8. Clear(c) => call'[c].at \in {"cleared", "idle"}
    BY <1>2, <1>3 DEF Clear
  <1>9. LockOwners(c) => call'[c].at \in {"locked", "idle"}
    <2> DEFINE o == call[c].owners \cap OwnersOf(call[c].company)
    <2>1. ASSUME Put(c, [call[c] EXCEPT !.at = "locked", !.owners = o])
          PROVE call'[c].at = "locked"
      <3> HIDE DEF o
      <3> QED
        BY <1>0, <1>1, <2>1 DEF CallRecords
    <2> QED
      BY <1>3, <2>1 DEF LockOwners
  <1>10. Commit(c) \/ Insert(c) \/ WriteChange(c) \/ Abort(c) => call'[c].at = "idle"
    BY <1>3 DEF Commit, Insert, WriteChange, Abort
  <1> QED
    BY <1>4, <1>5, <1>6, <1>7, <1>8, <1>9, <1>10 DEF Advances

\* The steps that write an invitation.
LEMMA WhoWrites ==
  ASSUME TypeOK, Shape, [Next]_vars
  PROVE  \/ UNCHANGED invitation
         \/ \E i \in Invitations : Cancel(i) \/ Expire(i)
         \/ \E c \in Calls : Insert(c)
         \/ \E c \in Calls : /\ Commit(c) /\ ~Refused(c) /\ call[c].inv # None
                             /\ invitation' = Settled(c)
  <1>1. ASSUME NEW c \in Calls, Commit(c), ~UNCHANGED invitation
        PROVE ~Refused(c) /\ call[c].inv # None /\ invitation' = Settled(c)
    BY <1>1 DEF Commit, Settled
  <1>2. ASSUME NEW c \in Calls, Advances(c), ~Commit(c), ~Insert(c) PROVE UNCHANGED invitation
    BY <1>2 DEF Advances, Search, Post, Enter, TakeUser, Clear, LockOwners, WriteChange, Abort, Kept
  <1>3. ASSUME NEW c \in Calls, Begins(c) PROVE UNCHANGED invitation
    BY <1>3, Beginning DEF Kept
  <1>4. ASSUME Outside
        PROVE UNCHANGED invitation \/ \E i \in Invitations : Cancel(i) \/ Expire(i)
    BY <1>4 DEF Outside, RemoveDomain, AddDomain
  <1>5. UNCHANGED vars => UNCHANGED invitation
    BY DEF vars
  <1> QED
    BY <1>1, <1>2, <1>3, <1>4, <1>5, Steps

\* What can happen to an invitation that was sent.
LEMMA LetterMoves ==
  ASSUME TypeOK, Shape, [Next]_vars, NEW i \in Invitations, invitation[i] # None
  PROVE  /\ invitation[i] \in Letters
         /\ \/ invitation'[i] = invitation[i]
            \/ /\ Open(i) /\ UNCHANGED call
               /\ invitation'[i] = [invitation[i] EXCEPT !.expired = TRUE]
            \/ /\ invitation[i].status = "pending" /\ InvFree(i) /\ UNCHANGED call
               /\ invitation'[i] = [invitation[i] EXCEPT !.status = "canceled"]
            \/ \E c \in Calls :
                 /\ Commit(c) /\ ~Refused(c) /\ call[c].inv = i
                 /\ invitation'[i] = [invitation[i] EXCEPT !.status = "accepted",
                                                           !.company = call[c].company]
  <1>0. /\ invitation[i] \in Letters /\ invitation \in [Invitations -> Letters \cup {None}]
    BY Fields DEF TypeOK
  <1>1. ASSUME NEW j \in Invitations, Cancel(j)
        PROVE \/ invitation'[i] = invitation[i]
              \/ /\ invitation[i].status = "pending" /\ InvFree(i) /\ UNCHANGED call
                 /\ invitation'[i] = [invitation[i] EXCEPT !.status = "canceled"]
    BY <1>0, <1>1 DEF Cancel
  <1>2. ASSUME NEW j \in Invitations, Expire(j)
        PROVE \/ invitation'[i] = invitation[i]
              \/ /\ Open(i) /\ UNCHANGED call
                 /\ invitation'[i] = [invitation[i] EXCEPT !.expired = TRUE]
    BY <1>0, <1>2 DEF Expire
  <1>3. ASSUME NEW c \in Calls, Insert(c) PROVE invitation'[i] = invitation[i]
    BY <1>0, <1>3 DEF Insert, FreshIds
  <1>4. ASSUME NEW c \in Calls, Commit(c), ~Refused(c), call[c].inv # None, invitation' = Settled(c)
        PROVE \/ invitation'[i] = invitation[i]
              \/ /\ call[c].inv = i
                 /\ invitation'[i] = [invitation[i] EXCEPT !.status = "accepted",
                                                           !.company = call[c].company]
    <2>1. CASE call[c].inv # i
      BY <1>0, <1>4, <2>1 DEF Settled
    <2>2. CASE call[c].inv = i
      BY <1>0, <1>4, <2>2 DEF Settled
    <2> QED
      BY <2>1, <2>2
  <1> QED
    BY <1>0, <1>1, <1>2, <1>3, <1>4, WhoWrites

\* Its address and its role never change, and it opens once.
LEMMA LetterStays ==
  ASSUME TypeOK, Shape, [Next]_vars, NEW i \in Invitations, invitation[i] # None
  PROVE  /\ invitation'[i] \in Letters /\ invitation'[i] # None
         /\ invitation'[i].user = invitation[i].user /\ invitation'[i].role = invitation[i].role
         /\ invitation'[i].status = "pending" =>
              /\ invitation[i].status = "pending" /\ invitation'[i].company = invitation[i].company
              /\ ~invitation'[i].expired => ~invitation[i].expired
  <1>0. invitation[i] \in Letters
    BY LetterMoves
  <1>1. CASE invitation'[i] = invitation[i]
    BY <1>0, <1>1, RowsAssumption DEF Letters
  <1>2. CASE invitation'[i] = [invitation[i] EXCEPT !.expired = TRUE]
    <2>1. invitation'[i] \in Letters
      BY <1>0, <1>2 DEF Letters
    <2> QED
      BY <1>0, <1>2, <2>1, RowsAssumption DEF Letters
  <1>3. CASE invitation'[i] = [invitation[i] EXCEPT !.status = "canceled"]
    <2>1. invitation'[i] \in Letters
      BY <1>0, <1>3 DEF Letters
    <2> QED
      BY <1>0, <1>3, <2>1, RowsAssumption DEF Letters
  <1>4. ASSUME NEW c \in Calls, Commit(c),
               invitation'[i] = [invitation[i] EXCEPT !.status = "accepted", !.company = call[c].company]
        PROVE  /\ invitation'[i] \in Letters /\ invitation'[i] # None
               /\ invitation'[i].user = invitation[i].user /\ invitation'[i].role = invitation[i].role
               /\ invitation'[i].status # "pending"
    <2>1. call[c].company \in Cards
      BY <1>4, Reading DEF Commit
    <2>2. invitation'[i] \in Letters
      BY <1>0, <1>4, <2>1 DEF Letters
    <2> QED
      BY <1>0, <1>4, <2>2, RowsAssumption DEF Letters
  <1> QED
    BY <1>1, <1>2, <1>3, <1>4, LetterMoves

\* A sent invitation stays a row, and a request names one that was sent.
LEMMA NextSent == TypeOK /\ Shape /\ Sent /\ [Next]_vars => Sent'
  <1> SUFFICES ASSUME TypeOK, Shape, Sent, [Next]_vars PROVE Sent'
    OBVIOUS
  <1>1. ASSUME NEW i \in Invitations, invitation[i] # None PROVE invitation'[i] # None
    BY <1>1, LetterStays
  <1>2. ASSUME NEW c \in Calls, call'[c].inv # None
        PROVE call'[c].inv \in Invitations /\ invitation[call'[c].inv] # None
    <2>1. CASE call'[c] = call[c]
      BY <1>2, <2>1 DEF Sent, TypeOK, CallRecords
    <2>2. CASE Begins(c)
      BY <1>2, <2>2, Beginning DEF Open
    <2>3. CASE Advances(c)
      BY <1>2, <2>3, Advancing DEF Sent, TypeOK, CallRecords, Idle
    <2> QED
      BY <2>1, <2>2, <2>3, Others
  <1> QED
    BY <1>1, <1>2 DEF Sent

\* Every portal begins well-formed.
LEMMA InitType == Init => TypeOK /\ Shape /\ Sent
  <1> SUFFICES ASSUME Init PROVE TypeOK /\ Shape /\ Sent
    OBVIOUS
  <1>1. [user : Users, company : BPs, role : Roles] \subseteq Seats
    BY DEF Seats, Cards
  <1>2. 0 \in 0..MaxRequests
    BY PortalAssumption
  <1>3. Idle.inv = None
    BY DEF Idle
  <1> QED
    BY <1>1, <1>2, <1>3, IdleTypes DEF Init, TypeOK, Shape, Sent

\* Seats, invitations, domains, leads and requests stay what they are.
THEOREM TypeCorrect == Spec => []TypeOK
  <1>1. TypeOK /\ Shape /\ Sent /\ [Next]_vars => (TypeOK /\ Shape /\ Sent)'
    BY NextType, NextSent
  <1> QED
    BY <1>1, InitType, PTL DEF Spec

-----------------------------------------------------------------------------
(* One seat *)

\* The user's row is one transaction's at a time.
OneReader == \A c, d \in Calls : /\ call[c].at = "read" /\ call[d].at = "read"
                                /\ call[c].user = call[d].user => c = d
\* Who read no membership still has none.
Seatless(u) == \A r \in RowIds : member[r] # None => member[r].user # u
ReadHolds == \A c \in Calls : call[c].at = "read" /\ call[c].row = None => Seatless(call[c].user)
Seating == OneReader /\ ReadHolds /\ OneSeat

\* A seat there after a step was its user's before it, or is the one new seat
\* of a request that commits.
LEMMA WhoSits ==
  ASSUME TypeOK, Shape, [Next]_vars
  PROVE  \/ \A r \in RowIds : member'[r] # None =>
              /\ member[r] # None /\ member'[r].user = member[r].user
              /\ member'[r].company = member[r].company
         \/ \E c \in Calls, r \in RowIds :
              /\ Commit(c) /\ call[c].at = "read" /\ call[c].row = None
              /\ member[r] = None
              /\ member' = [member EXCEPT ![r] = [user |-> call[c].user, company |-> call[c].company,
                                                  role |-> call[c].role]]
  <1> DEFINE Still == \A r \in RowIds : member'[r] # None =>
                        /\ member[r] # None /\ member'[r].user = member[r].user
                        /\ member'[r].company = member[r].company
  <1>1. ASSUME UNCHANGED member PROVE Still
    BY <1>1
  <1>2. ASSUME NEW c \in Calls, WriteChange(c) PROVE Still
    <2> SUFFICES ASSUME NEW r \in RowIds, member'[r] # None
                 PROVE  /\ member[r] # None /\ member'[r].user = member[r].user
                        /\ member'[r].company = member[r].company
      OBVIOUS
    <2>1. CASE r \notin SeatsAt(call[c].user, call[c].company)
      BY <1>2, <2>1, ChangedIs
    <2>2. CASE r \in SeatsAt(call[c].user, call[c].company)
      <3>1. member[r] # None /\ member[r] \in Seats
        BY <2>2, Fields DEF SeatsAt, SeatsOf
      <3>2. member'[r] = [member[r] EXCEPT !.role = call[c].role]
        BY <1>2, <2>2, ChangedIs
      <3> QED
        BY <3>1, <3>2 DEF Seats
    <2> QED
      BY <2>1, <2>2
  <1>3. ASSUME NEW c \in Calls, Commit(c), ~Still
        PROVE  \E r \in RowIds :
                 /\ Commit(c) /\ call[c].at = "read" /\ call[c].row = None /\ member[r] = None
                 /\ member' = [member EXCEPT ![r] = [user |-> call[c].user, company |-> call[c].company,
                                                     role |-> call[c].role]]
    <2>1. call[c].at = "read" /\ Seated(c)
      BY <1>1, <1>3 DEF Commit
    <2>2. ~UNCHANGED member
      BY <1>1, <1>3
    <2>3. CASE /\ call[c].row \in RowIds /\ member[call[c].row] # None
               /\ member' = [member EXCEPT ![call[c].row].role = call[c].role]
      <3> SUFFICES ASSUME NEW r \in RowIds, member'[r] # None
                   PROVE  /\ member[r] # None /\ member'[r].user = member[r].user
                          /\ member'[r].company = member[r].company
        BY <1>3
      <3>1. member[call[c].row] \in Seats
        BY <2>3, Fields
      <3>2. CASE r # call[c].row
        BY <2>3, <3>2 DEF TypeOK
      <3>3. CASE r = call[c].row
        <4>1. member'[r] = [member[r] EXCEPT !.role = call[c].role]
          BY <2>3, <3>3 DEF TypeOK
        <4> QED
          BY <2>3, <3>1, <3>3, <4>1 DEF Seats
      <3> QED
        BY <3>2, <3>3
    <2> HIDE DEF Still
    <2> QED
      BY <1>3, <2>1, <2>2, <2>3, SeatedIs
  <1> HIDE DEF Still
  <1>4. ASSUME NEW c \in Calls, Begins(c) PROVE Still
    BY <1>1, <1>4, Beginning DEF Kept, Still
  <1>5. ASSUME NEW c \in Calls, Advances(c), ~Commit(c), ~WriteChange(c) PROVE Still
    BY <1>1, <1>5 DEF Advances, Search, Post, Enter, TakeUser, Clear, Insert, LockOwners, Abort, Kept
  <1>6. ASSUME Outside PROVE Still
    BY <1>1, <1>6 DEF Outside, Cancel, Expire, RemoveDomain, AddDomain
  <1>7. ASSUME UNCHANGED vars PROVE Still
    BY <1>1, <1>7 DEF vars
  <1> DEFINE Joins(c) == \E r \in RowIds :
                           /\ Commit(c) /\ call[c].at = "read" /\ call[c].row = None /\ member[r] = None
                           /\ member' = [member EXCEPT ![r] = [user |-> call[c].user,
                                                  company |-> call[c].company, role |-> call[c].role]]
  <1>8. ASSUME NEW c \in Calls, Commit(c) PROVE Still \/ Joins(c)
    BY <1>3, <1>8
  <1> HIDE DEF Joins
  <1>9. Still \/ \E c \in Calls : Joins(c)
    <2>1. ASSUME NEW c \in Calls, Advances(c) PROVE Still \/ Joins(c)
      BY <1>2, <1>5, <1>8, <2>1
    <2> QED
      BY <1>4, <1>6, <1>7, <2>1, Steps
  <1> QED
    BY <1>9 DEF Still, Joins

\* A request that has read the membership read it before, or reads it now.
LEMMA WhoReads ==
  ASSUME TypeOK, Shape, [Next]_vars, NEW c \in Calls, call'[c].at = "read"
  PROVE  \/ call'[c] = call[c]
         \/ /\ TakeUser(c) /\ call'[c].user = call[c].user
            /\ UNCHANGED member /\ \A d \in Calls \ {c} : call'[d] = call[d]
            /\ call'[c].row = None => Seatless(call[c].user)
  <1>1. CASE Begins(c)
    BY <1>1, Beginning
  <1>2. CASE Advances(c) /\ call'[c] # call[c]
    <2>1. TakeUser(c) /\ call'[c].user = call[c].user
      <3>1. Idle.at = "idle"
        BY IdleTypes
      <3> QED
        BY <1>2, <3>1, Arriving, Advancing
    <2>2. \A d \in Calls \ {c} : call'[d] = call[d]
      BY <2>1 DEF TypeOK, TakeUser, Step, Put
    <2>3. call'[c].row = None => Seatless(call[c].user)
      <3>1. CASE SeatsOf(call[c].user) = {}
        BY <3>1 DEF SeatsOf, Seatless
      <3>2. CASE SeatsOf(call[c].user) # {}
        <4>1. PICK r \in SeatsOf(call[c].user) :
                Put(c, [call[c] EXCEPT !.at = "read", !.row = r, !.seen = member[r]])
          BY <2>1, <3>2 DEF TakeUser
        <4> DEFINE m == member[r]
        <4>2. call'[c] = [call[c] EXCEPT !.at = "read", !.row = r, !.seen = m]
          BY <4>1 DEF Put, TypeOK
        <4> HIDE DEF m
        <4>3. r \in RowIds /\ call[c] \in CallRecords
          BY DEF SeatsOf, TypeOK
        <4> QED
          BY <4>2, <4>3, Apart DEF CallRecords
      <3> QED
        BY <3>1, <3>2
    <2> QED
      BY <2>1, <2>2, <2>3 DEF TakeUser, Kept
  <1> QED
    BY <1>1, <1>2, Others

\* Every step keeps a seat to a user.
LEMMA NextSeating == TypeOK /\ Shape /\ Seating /\ [Next]_vars => Seating'
  <1> SUFFICES ASSUME TypeOK, Shape, Seating, [Next]_vars PROVE Seating'
    OBVIOUS
  <1>1. OneReader'
    <2> SUFFICES ASSUME NEW c \in Calls, NEW d \in Calls, c # d, call'[c].at = "read",
                        call'[d].at = "read", call'[c].user = call'[d].user
                 PROVE FALSE
      BY DEF OneReader
    <2>1. CASE call'[c] = call[c] /\ call'[d] = call[d]
      BY <2>1 DEF Seating, OneReader
    <2>2. CASE TakeUser(c) /\ call'[c].user = call[c].user /\ call'[d] = call[d]
      BY <2>2 DEF TakeUser, UserFree
    <2>3. CASE TakeUser(d) /\ call'[d].user = call[d].user /\ call'[c] = call[c]
      BY <2>3 DEF TakeUser, UserFree
    <2> QED
      BY <2>1, <2>2, <2>3, WhoReads
  <1>2. ReadHolds'
    <2> SUFFICES ASSUME NEW c \in Calls, call'[c].at = "read", call'[c].row = None,
                        NEW r \in RowIds, member'[r] # None
                 PROVE member'[r].user # call'[c].user
      BY DEF ReadHolds, Seatless
    <2>1. CASE call'[c] = call[c]
      <3>1. Seatless(call[c].user)
        BY <2>1 DEF Seating, ReadHolds
      <3>2. CASE member[r] # None /\ member'[r].user = member[r].user
        BY <2>1, <3>1, <3>2 DEF Seatless
      <3>3. ASSUME NEW d \in Calls, NEW s \in RowIds, Commit(d), call[d].at = "read", member[s] = None,
                   member' = [member EXCEPT ![s] = [user |-> call[d].user, company |-> call[d].company,
                                                    role |-> call[d].role]]
            PROVE member'[r].user # call'[c].user
        <4>1. d # c
          BY <2>1, <3>3 DEF Commit, End, Put, TypeOK, Idle
        <4>2. call[d].user # call[c].user
          BY <2>1, <3>3, <4>1 DEF Seating, OneReader
        <4> QED
          BY <2>1, <3>1, <3>3, <4>2 DEF Seatless, TypeOK
      <3> QED
        BY <3>2, <3>3, WhoSits
    <2>2. CASE TakeUser(c) /\ call'[c].user = call[c].user /\ UNCHANGED member /\ Seatless(call[c].user)
      BY <2>2 DEF Seatless
    <2> QED
      BY <2>1, <2>2, WhoReads
  <1>3. OneSeat'
    <2> SUFFICES ASSUME NEW r \in RowIds, NEW s \in RowIds, member'[r] # None, member'[s] # None,
                        member'[r].user = member'[s].user
                 PROVE r = s
      BY DEF OneSeat
    <2>1. CASE \A q \in RowIds : member'[q] # None => member[q] # None /\ member'[q].user = member[q].user
      BY <2>1 DEF Seating, OneSeat
    <2>2. ASSUME NEW d \in Calls, NEW q \in RowIds, call[d].at = "read", call[d].row = None,
                 member' = [member EXCEPT ![q] = [user |-> call[d].user, company |-> call[d].company,
                                                  role |-> call[d].role]]
          PROVE r = s
      <3>1. Seatless(call[d].user)
        BY <2>2 DEF Seating, ReadHolds
      <3> QED
        BY <2>2, <3>1 DEF Seating, OneSeat, Seatless, TypeOK
    <2> QED
      BY <2>1, <2>2, WhoSits
  <1> QED
    BY <1>1, <1>2, <1>3 DEF Seating

\* A user never has two seats at the supplier, however accepts, submits and
\* joins overlap: the membership is read and written under the user's row.
THEOREM SeatCorrect == Spec => []OneSeat
  <1>1. Init => Seating
    BY DEF Init, Idle, Seating, OneReader, ReadHolds, OneSeat
  <1>2. /\ TypeOK /\ Shape /\ Sent /\ Seating /\ [Next]_vars
        => (TypeOK /\ Shape /\ Sent /\ Seating)'
    BY NextType, NextSent, NextSeating
  <1>3. Seating => OneSeat
    BY DEF Seating
  <1> QED
    BY <1>1, <1>2, <1>3, InitType, PTL DEF Spec

-----------------------------------------------------------------------------
(* Invitations *)

\* The invitation's row is one transaction's at a time, and still pending.
Holds(c) == call[c].at \in Handling /\ call[c].inv # None
OneHandler == \A c, d \in Calls : /\ Holds(c) /\ Holds(d) /\ call[c].inv = call[d].inv => c = d
Held == \A c \in Calls : Holds(c) => invitation[call[c].inv].status = "pending"
\* One request has the organization's row, and its address no open invitation.
Unasked(u) == \A i \in Invitations : Open(i) => invitation[i].user # u
OneClearing == \A c, d \in Calls : call[c].at = "cleared" /\ call[d].at = "cleared" => c = d
Cleared == \A c \in Calls : call[c].at = "cleared" => Unasked(call[c].user)
Letting == OneHandler /\ Held /\ OneClearing /\ Cleared /\ OneOpenInvitation

\* A request that holds an invitation held it before, or takes it now.
LEMMA WhoHolds ==
  ASSUME TypeOK, Shape, [Next]_vars, NEW c \in Calls, call'[c].at \in Handling, call'[c].inv # None
  PROVE  \/ call'[c] = call[c] /\ Holds(c)
         \/ TakeUser(c) /\ call'[c].inv = call[c].inv /\ Holds(c)
         \/ /\ Enter(c) /\ call'[c].inv = call[c].inv /\ InvFree(call[c].inv)
            /\ invitation[call[c].inv].status = "pending"
  <1>1. CASE call'[c] = call[c]
    BY <1>1 DEF Holds
  <1>2. CASE Begins(c)
    BY <1>2, Beginning DEF Handling
  <1>3. CASE Advances(c)
    <2>0. Idle.at = "idle"
      BY IdleTypes
    <2>1. call'[c].inv = call[c].inv /\ call'[c] # Idle
      BY <1>3, <2>0, Advancing DEF Handling
    <2>2. CASE call'[c].at = "read"
      BY <1>3, <2>1, <2>2, Arriving DEF TakeUser, Holds, Handling
    <2>3. CASE call'[c].at = "entered"
      <3>1. Enter(c)
        BY <1>3, <2>3, Arriving
      <3>2. StillPending(c)
        BY <2>1, <3>1 DEF Enter, End, Put, TypeOK
      <3> QED
        BY <2>1, <3>1, <3>2 DEF Enter, StillPending, Open
    <2> QED
      BY <2>2, <2>3 DEF Handling
  <1> QED
    BY <1>1, <1>2, <1>3, Others

\* A request that has the organization's row had it before, or takes it now.
LEMMA WhoClears ==
  ASSUME TypeOK, Shape, [Next]_vars, NEW c \in Calls, call'[c].at = "cleared"
  PROVE  \/ call'[c] = call[c]
         \/ /\ Clear(c) /\ call'[c].user = call[c].user
            /\ OrgFree /\ UNCHANGED invitation /\ Unasked(call[c].user)
  <1>1. CASE Begins(c)
    BY <1>1, Beginning
  <1>2. CASE Advances(c)
    <2>0. Idle.at = "idle"
      BY IdleTypes
    <2>1. Clear(c) /\ call'[c].user = call[c].user /\ call'[c] # Idle
      BY <1>2, <2>0, Advancing, Arriving
    <2>2. ~\E i \in Invitations : Open(i) /\ invitation[i].user = call[c].user
      BY <2>1 DEF Clear, End, Put, TypeOK
    <2> QED
      BY <2>1, <2>2 DEF Clear, Kept, Unasked
  <1> QED
    BY <1>1, <1>2, Others

\* An invitation open after a step was open for its address before it, or is
\* the one a request inserts.
LEMMA WhoOpens ==
  ASSUME TypeOK, Shape, Sent, [Next]_vars
  PROVE  \/ \A i \in Invitations : Open(i)' => Open(i) /\ invitation'[i].user = invitation[i].user
         \/ \E c \in Calls, i \in Invitations :
              /\ Insert(c) /\ invitation[i] = None
              /\ invitation' = [invitation EXCEPT ![i] =
                   [user |-> call[c].user, company |-> call[c].company, role |-> call[c].role,
                    status |-> "pending", expired |-> FALSE]]
  <1>1. CASE \E c \in Calls : Insert(c)
    BY <1>1 DEF Insert, FreshIds
  <1>2. CASE ~\E c \in Calls : Insert(c)
    <2> SUFFICES ASSUME NEW i \in Invitations, Open(i)'
                 PROVE Open(i) /\ invitation'[i].user = invitation[i].user
      OBVIOUS
    <2>0. invitation'[i] # None /\ invitation'[i].status = "pending" /\ ~invitation'[i].expired
      BY DEF Open
    <2>1. CASE invitation[i] # None
      BY <2>0, <2>1, LetterStays DEF Open
    <2>2. CASE invitation[i] = None
      <3>1. ASSUME NEW j \in Invitations, Cancel(j) \/ Expire(j) PROVE i # j
        BY <2>2, <3>1 DEF Cancel, Expire, Open
      <3>2. ASSUME NEW j \in Invitations, Cancel(j) \/ Expire(j) PROVE invitation'[i] = None
        BY <2>2, <3>1, <3>2 DEF Cancel, Expire, TypeOK
      <3>3. ASSUME NEW c \in Calls, call[c].inv # None, invitation' = Settled(c)
            PROVE invitation'[i] = None
        BY <2>2, <3>3 DEF Settled, Sent, TypeOK
      <3> QED
        BY <1>2, <2>0, <2>2, <3>2, <3>3, WhoWrites
    <2> QED
      BY <2>1, <2>2
  <1> QED
    BY <1>1, <1>2

\* Every step keeps the locks on invitations and on the organization, and an
\* open invitation to an address.
LEMMA NextLetting == TypeOK /\ Shape /\ Sent /\ Letting /\ [Next]_vars => Letting'
  <1> SUFFICES ASSUME TypeOK, Shape, Sent, Letting, [Next]_vars PROVE Letting'
    OBVIOUS
  <1>1. OneHandler'
    <2> SUFFICES ASSUME NEW c \in Calls, NEW d \in Calls, c # d,
                        call'[c].at \in Handling, call'[d].at \in Handling,
                        call'[c].inv # None, call'[c].inv = call'[d].inv
                 PROVE FALSE
      BY DEF OneHandler, Holds
    <2>1. ASSUME NEW a \in Calls, NEW b \in Calls, a # b, Enter(a), InvFree(call[a].inv),
                 call'[b].at \in Handling, call'[b].inv = call[a].inv
          PROVE FALSE
      <3>1. call'[b] = call[b]
        BY <2>1 DEF Enter, Step, End, Put, TypeOK
      <3> QED
        BY <2>1, <3>1 DEF InvFree, Handling
    <2>2. CASE Holds(c) /\ Holds(d) /\ call'[c].inv = call[c].inv /\ call'[d].inv = call[d].inv
      BY <2>2 DEF Letting, OneHandler
    <2>3. /\ \/ Holds(c) /\ call'[c].inv = call[c].inv
             \/ Enter(c) /\ call'[c].inv = call[c].inv /\ InvFree(call[c].inv)
          /\ \/ Holds(d) /\ call'[d].inv = call[d].inv
             \/ Enter(d) /\ call'[d].inv = call[d].inv /\ InvFree(call[d].inv)
      BY WhoHolds
    <2> QED
      BY <2>1, <2>2, <2>3
  <1>2. Held'
    <2> SUFFICES ASSUME NEW c \in Calls, call'[c].at \in Handling, call'[c].inv # None
                 PROVE invitation'[call'[c].inv].status = "pending"
      BY DEF Held, Holds
    <2>1. CASE Holds(c) /\ call'[c].inv = call[c].inv
      <3> DEFINE i == call[c].inv
      <3>1. /\ i \in Invitations /\ invitation[i] # None /\ invitation[i].status = "pending"
        BY <2>1 DEF Letting, Held, Holds, Sent, TypeOK, CallRecords
      <3>2. ~InvFree(i)
        BY <2>1 DEF Holds, InvFree, Handling
      <3>3. ASSUME NEW d \in Calls, Commit(d), call[d].inv = i PROVE FALSE
        <4>1. d = c
          BY <2>1, <3>3 DEF Letting, OneHandler, Holds, Commit, Handling
        <4> QED
          BY <3>3, <4>1, IdleTypes DEF Commit, End, Put, TypeOK, Handling
      <3>4. invitation[i] \in Letters
        BY <3>1, Fields
      <3> HIDE DEF i
      <3>5. invitation'[i].status = "pending"
        BY <3>1, <3>2, <3>3, <3>4, LetterMoves DEF Letters
      <3> QED
        BY <2>1, <3>5 DEF i
    <2>2. CASE /\ Enter(c) /\ call'[c].inv = call[c].inv
               /\ invitation[call[c].inv].status = "pending"
      BY <2>2 DEF Enter, Kept
    <2> QED
      BY <2>1, <2>2, WhoHolds
  <1>3. OneClearing'
    <2> SUFFICES ASSUME NEW c \in Calls, NEW d \in Calls, c # d,
                        call'[c].at = "cleared", call'[d].at = "cleared"
                 PROVE FALSE
      BY DEF OneClearing
    <2>1. ASSUME NEW a \in Calls, NEW b \in Calls, a # b, Clear(a), OrgFree, call'[b].at = "cleared"
          PROVE FALSE
      <3>1. call'[b] = call[b]
        BY <2>1 DEF Clear, Step, End, Put, TypeOK
      <3> QED
        BY <2>1, <3>1 DEF OrgFree
    <2>2. CASE call'[c] = call[c] /\ call'[d] = call[d]
      BY <2>2 DEF Letting, OneClearing
    <2> QED
      BY <2>1, <2>2, WhoClears
  <1>4. Cleared'
    <2> SUFFICES ASSUME NEW c \in Calls, call'[c].at = "cleared", NEW i \in Invitations, Open(i)'
                 PROVE invitation'[i].user # call'[c].user
      BY DEF Cleared, Unasked
    <2>1. CASE call'[c] = call[c]
      <3>1. Unasked(call[c].user)
        BY <2>1 DEF Letting, Cleared
      <3>2. CASE Open(i) /\ invitation'[i].user = invitation[i].user
        BY <2>1, <3>1, <3>2 DEF Unasked
      <3>3. ASSUME NEW d \in Calls, Insert(d) PROVE FALSE
        <4>1. d = c
          BY <2>1, <3>3 DEF Insert, Letting, OneClearing
        <4> QED
          BY <3>3, <4>1, IdleTypes DEF Insert, End, Put, TypeOK
      <3> QED
        BY <3>2, <3>3, WhoOpens
    <2>2. CASE call'[c].user = call[c].user /\ UNCHANGED invitation /\ Unasked(call[c].user)
      BY <2>2 DEF Unasked, Open
    <2> QED
      BY <2>1, <2>2, WhoClears
  <1>5. OneOpenInvitation'
    <2> SUFFICES ASSUME NEW i \in Invitations, NEW j \in Invitations, Open(i)', Open(j)',
                        invitation'[i].user = invitation'[j].user
                 PROVE i = j
      BY DEF OneOpenInvitation
    <2>1. CASE \A h \in Invitations : Open(h)' => Open(h) /\ invitation'[h].user = invitation[h].user
      BY <2>1 DEF Letting, OneOpenInvitation
    <2>2. ASSUME NEW c \in Calls, NEW h \in Invitations, Insert(c), invitation[h] = None,
                 invitation' = [invitation EXCEPT ![h] =
                   [user |-> call[c].user, company |-> call[c].company, role |-> call[c].role,
                    status |-> "pending", expired |-> FALSE]]
          PROVE i = j
      <3>1. Unasked(call[c].user)
        BY <2>2 DEF Letting, Cleared, Insert
      <3>2. ASSUME NEW k \in Invitations, k # h, Open(k)'
            PROVE Open(k) /\ invitation'[k] = invitation[k] /\ invitation'[k].user # call[c].user
        BY <2>2, <3>1, <3>2 DEF Open, Unasked, TypeOK
      <3>3. invitation'[h].user = call[c].user
        BY <2>2 DEF TypeOK
      <3> QED
        BY <3>2, <3>3 DEF Letting, OneOpenInvitation
    <2> QED
      BY <2>1, <2>2, WhoOpens
  <1> QED
    BY <1>1, <1>2, <1>3, <1>4, <1>5 DEF Letting

\* Types, locks and invitations.
Portal == TypeOK /\ Shape /\ Sent /\ Letting

\* It holds at the start.
LEMMA InitPortal == Init => Portal
  <1>1. Init => Letting
    BY IdleTypes DEF Init, Letting, OneHandler, Held, OneClearing, Cleared, OneOpenInvitation, Holds,
       Handling, Open
  <1> QED
    BY <1>1, InitType DEF Portal

\* Every reachable state has its invitations in order.
LEMMA PortalHolds == Spec => []Portal
  <1>1. Portal /\ [Next]_vars => Portal'
    BY NextType, NextSent, NextLetting DEF Portal
  <1> QED
    BY <1>1, InitPortal, PTL DEF Spec

\* However sends overlap, an address has one open invitation.
THEOREM OpenCorrect == Spec => []OneOpenInvitation
  BY PortalHolds, PTL DEF Portal, Letting

\* An accepted or cancelled invitation never changes again, whatever clicks,
\* cancels and late submits are still under way.
THEOREM SettledCorrect == Spec => SettledStays
  <1> DEFINE Stays == \A i \in Invitations :
                        invitation[i] # None /\ invitation[i].status # "pending"
                          => invitation'[i] = invitation[i]
  <1>1. Portal /\ [Next]_vars => Stays
    <2> SUFFICES ASSUME Portal, [Next]_vars, NEW i \in Invitations, invitation[i] # None,
                        invitation[i].status # "pending"
                 PROVE invitation'[i] = invitation[i]
      OBVIOUS
    <2>1. ASSUME NEW c \in Calls, Commit(c), call[c].inv = i PROVE invitation[i].status = "pending"
      BY <2>1, Apart DEF Portal, Letting, Held, Holds, Handling, Commit
    <2> QED
      BY <2>1, LetterMoves DEF Portal, Open
  <1> QED
    BY <1>1, PortalHolds, PTL DEF Spec, SettledStays

-----------------------------------------------------------------------------
(* Leads, and what an acceptance leaves *)

\* What a request carries of the invitation it is answering.
Answers(x) ==
  LET letter == invitation[x.inv] IN
  /\ x.op = "accept" => /\ letter.user = x.user /\ letter.role = x.role
                        /\ letter.company = x.company
  /\ x.op = "submit" => /\ letter.user = x.user
                        /\ letter.status = "pending" => letter.company = New
                        /\ x.at \in {"found"} \cup Handling => leads[x.company] = x.inv
                        /\ x.late => x.at # "post" /\ LeadsOf(x.inv) # {}
Answering == \A c \in Calls : Answers(call[c])

\* A lead is posted once, under the invitation of the request that posts it.
LEMMA LeadsMove ==
  ASSUME TypeOK, Shape, [Next]_vars, NEW k \in LeadCards, leads'[k] # leads[k]
  PROVE  leads[k] = None /\ \E c \in Calls : Post(c) /\ call[c].at = "post" /\ leads'[k] = call[c].inv
  <1>1. ASSUME NEW c \in Calls, Post(c)
        PROVE leads[k] = None /\ call[c].at = "post" /\ leads'[k] = call[c].inv
    BY <1>1 DEF Post, TypeOK
  <1>2. ASSUME NEW c \in Calls, Advances(c), ~Post(c) PROVE FALSE
    BY <1>2 DEF Advances, Search, Enter, TakeUser, Commit, Clear, Insert, LockOwners, WriteChange,
       Abort, Kept
  <1>3. ASSUME NEW c \in Calls, Begins(c) PROVE FALSE
    BY <1>3, Beginning DEF Kept
  <1>4. ASSUME Outside PROVE FALSE
    BY <1>4 DEF Outside, Cancel, Expire, RemoveDomain, AddDomain
  <1>5. UNCHANGED vars => UNCHANGED leads
    BY DEF vars
  <1> QED
    BY <1>1, <1>2, <1>3, <1>4, <1>5, Steps

\* A lead posted stays where it is.
LEMMA LeadsStay ==
  ASSUME TypeOK, Shape, [Next]_vars, NEW i \in Invitations
  PROVE  /\ \A k \in LeadCards : leads[k] = i => leads'[k] = i
         /\ LeadsOf(i) # {} => LeadsOf(i)' # {}
  <1>1. \A k \in LeadCards : leads[k] = i => leads'[k] = i
    BY LeadsMove, Apart
  <1> QED
    BY <1>1 DEF LeadsOf

\* A request that begins to answer an invitation has just read it.
LEMMA BeginningAnswers ==
  ASSUME TypeOK, Shape, NEW c \in Calls, Begins(c)
  PROVE  Answers(call[c])'
  <1>0. ASSUME NEW x, Begin(c, x) PROVE call'[c] = x
    BY <1>0 DEF Begin, TypeOK
  <1>1. ASSUME NEW i \in Invitations, Accept(c, i) PROVE Answers(call[c])'
    <2> DEFINE u == invitation[i].user
               k == invitation[i].company
               role == invitation[i].role
    <2>1. Begin(c, [Idle EXCEPT !.op = "accept", !.at = "checked", !.user = u,
                                !.company = k, !.role = role, !.inv = i]) /\ UNCHANGED invitation
      BY <1>1 DEF Accept, Kept
    <2> HIDE DEF u, k, role
    <2>2. call'[c] = [Idle EXCEPT !.op = "accept", !.at = "checked", !.user = u,
                                  !.company = k, !.role = role, !.inv = i]
      BY <1>0, <2>1
    <2>3. /\ call'[c].op = "accept" /\ call'[c].inv = i /\ call'[c].user = u
          /\ call'[c].company = k /\ call'[c].role = role
      BY <2>2 DEF Idle
    <2> QED
      BY <2>1, <2>3 DEF Answers, u, k, role
  <1>2. ASSUME NEW i \in Invitations, Submit(c, i) PROVE Answers(call[c])'
    <2> DEFINE u == invitation[i].user
               b == LeadsOf(i) # {}
    <2>1. Begin(c, [Idle EXCEPT !.op = "submit", !.at = "form", !.user = u,
                                !.role = "owner", !.inv = i, !.late = b])
      BY <1>2 DEF Submit
    <2> HIDE DEF u, b
    <2>2. call'[c] = [Idle EXCEPT !.op = "submit", !.at = "form", !.user = u,
                                  !.role = "owner", !.inv = i, !.late = b]
      BY <1>0, <2>1
    <2>3. /\ call'[c].op = "submit" /\ call'[c].inv = i /\ call'[c].user = u
          /\ call'[c].at = "form" /\ call'[c].late = b
      BY <2>2 DEF Idle
    <2>4. UNCHANGED <<invitation, leads>> /\ invitation[i].company = New
      BY <1>2 DEF Submit, Kept
    <2> QED
      BY <2>3, <2>4 DEF Answers, LeadsOf, Handling, u, b
  <1>3. ASSUME call'[c].op \notin {"accept", "submit"} PROVE Answers(call[c])'
    BY <1>3 DEF Answers
  <1>4. ASSUME NEW u \in Users, Join(c, u) PROVE call'[c].op = "join"
    <2> DEFINE k == domain[DomainOf[u]]
    <2>1. Begin(c, [Idle EXCEPT !.op = "join", !.at = "entered", !.user = u,
                                !.company = k, !.role = "viewer"])
      BY <1>4 DEF Join
    <2> HIDE DEF k
    <2>2. call'[c] = [Idle EXCEPT !.op = "join", !.at = "entered", !.user = u,
                                  !.company = k, !.role = "viewer"]
      BY <1>0, <2>1
    <2> QED
      BY <2>2 DEF Idle
  <1>5. ASSUME NEW u \in Users, NEW k \in Cards \cup {New}, NEW role \in Roles, Send(c, u, k, role)
        PROVE call'[c].op = "send"
    <2>1. call'[c] = [Idle EXCEPT !.op = "send", !.at = "guarded", !.user = u,
                                  !.company = k, !.role = role]
      BY <1>0, <1>5 DEF Send
    <2> QED
      BY <2>1 DEF Idle
  <1>6. ASSUME NEW u \in Users, NEW k \in Cards, NEW role \in Roles \cup {None}, Change(c, u, k, role)
        PROVE call'[c].op = "change"
    <2> DEFINE o == OwnersOf(k)
    <2>1. Begin(c, [Idle EXCEPT !.op = "change", !.at = "snapped", !.user = u,
                                !.company = k, !.role = role, !.owners = o])
      BY <1>6 DEF Change
    <2> HIDE DEF o
    <2>2. call'[c] = [Idle EXCEPT !.op = "change", !.at = "snapped", !.user = u,
                                  !.company = k, !.role = role, !.owners = o]
      BY <1>0, <2>1
    <2> QED
      BY <2>2 DEF Idle
  <1>7. CASE \E i \in Invitations : Accept(c, i) \/ Submit(c, i)
    BY <1>1, <1>2, <1>7
  <1>8. CASE \E u \in Users : \/ Join(c, u)
                              \/ \E k \in Cards \cup {New}, role \in Roles : Send(c, u, k, role)
                              \/ \E k \in Cards, role \in Roles \cup {None} : Change(c, u, k, role)
    BY <1>3, <1>4, <1>5, <1>6, <1>8
  <1> QED
    BY <1>7, <1>8 DEF Begins

\* What the search and the POST leave a request with.
LEMMA Finding ==
  ASSUME TypeOK, Shape, [Next]_vars, NEW c \in Calls, call'[c].at = "found", Search(c) \/ Post(c)
  PROVE  leads'[call'[c].company] = call[c].inv
  <1>1. ASSUME NEW k, Put(c, [call[c] EXCEPT !.at = "found", !.company = k])
        PROVE call'[c].company = k
    <2>1. call'[c] = [call[c] EXCEPT !.at = "found", !.company = k] /\ call[c] \in CallRecords
      BY <1>1 DEF Put, TypeOK
    <2> QED
      BY <2>1 DEF CallRecords
  <1>2. CASE Search(c)
    <2>1. LeadsOf(call[c].inv) # {}
      BY <1>2, Arriving DEF Search, Step, Put, TypeOK, CallRecords
    <2>2. PICK k \in LeadsOf(call[c].inv) : Put(c, [call[c] EXCEPT !.at = "found", !.company = k])
      BY <1>2, <2>1 DEF Search
    <2> QED
      BY <1>1, <1>2, <2>2 DEF LeadsOf, Search, Kept
  <1>3. CASE Post(c)
    <2>1. PICK k \in LeadCards : /\ leads' = [leads EXCEPT ![k] = call[c].inv]
                                 /\ Put(c, [call[c] EXCEPT !.at = "found", !.company = k])
      BY <1>3 DEF Post
    <2> QED
      BY <1>1, <2>1 DEF TypeOK
  <1> QED
    BY <1>2, <1>3

\* Every step keeps what requests carry true.
LEMMA NextAnswering == Portal /\ Answering /\ [Next]_vars => Answering'
  <1> SUFFICES ASSUME Portal, Answering, [Next]_vars, NEW c \in Calls PROVE Answers(call[c])'
    BY DEF Answering
  <1>0. TypeOK /\ Shape /\ Sent
    BY DEF Portal
  <1>1. CASE Begins(c)
    BY <1>0, <1>1, BeginningAnswers
  <1>2. ASSUME \/ call'[c] = call[c]
               \/ /\ Advances(c) /\ call'[c] # Idle
        PROVE Answers(call[c])'
    <2> DEFINE x == call[c]
               y == call'[c]
               i == x.inv
    <2>0. Idle.at = "idle" /\ Idle.op = "none"
      BY IdleTypes
    <2>1. /\ y.op = x.op /\ y.user = x.user /\ y.role = x.role /\ y.inv = x.inv /\ y.late = x.late
          /\ ~Search(c) /\ ~Post(c) => y.company = x.company
      BY <1>0, <1>2, Advancing
    <2>2. x \in CallRecords /\ Shaped(x) /\ Answers(x)
      BY <1>0, Fields DEF Answering
    <2>2b. CASE x.op \notin {"accept", "submit"}
      BY <2>1, <2>2b DEF Answers
    <2>3. CASE x.op \in {"accept", "submit"}
      <3>1. i \in Invitations /\ invitation[i] # None /\ i # None
        BY <1>0, <2>2, <2>3, Apart DEF Shaped, Sent
      <3>2. /\ invitation'[i].user = invitation[i].user /\ invitation'[i].role = invitation[i].role
            /\ invitation'[i].status = "pending" =>
                 invitation[i].status = "pending" /\ invitation'[i].company = invitation[i].company
        BY <1>0, <3>1, LetterStays
      <3>3. CASE x.op = "accept"
        <4>1. ~Search(c) /\ ~Post(c)
          BY <2>2, <3>3 DEF Search, Post, Shaped, Handling
        <4>2. invitation'[i].company = invitation[i].company
          <5>1. ASSUME NEW d \in Calls, Commit(d), call[d].inv = i
                PROVE call[d].company = invitation[i].company
            <6>1. invitation[i].status = "pending"
              BY <3>1, <5>1 DEF Portal, Letting, Held, Holds, Commit, Handling
            <6>2. call[d] \in CallRecords /\ Shaped(call[d]) /\ Answers(call[d])
              BY <1>0, Fields DEF Answering
            <6>3. call[d].op = "accept" \/ call[d].op = "submit"
              BY <1>0, <3>1, <5>1, <6>2, Reading DEF Commit, Shaped
            <6>4. CASE call[d].op = "submit"
              <7>1. invitation[i].company = New
                BY <5>1, <6>1, <6>2, <6>4 DEF Answers
              <7>2. invitation[i].company \in Cards
                BY <2>2, <3>3 DEF Answers, Shaped
              <7> QED
                BY <7>1, <7>2, Apart
            <6> QED
              BY <5>1, <6>2, <6>3, <6>4 DEF Answers
          <5>2. invitation[i] \in Letters
            BY <1>0, <3>1, Fields
          <5>3. ASSUME NEW d \in Calls, Commit(d), call[d].inv = i,
                       invitation'[i] = [invitation[i] EXCEPT !.status = "accepted",
                                                             !.company = call[d].company]
                PROVE invitation'[i].company = invitation[i].company
            BY <5>1, <5>2, <5>3 DEF Letters
          <5>4. ASSUME \/ invitation'[i] = invitation[i]
                       \/ invitation'[i] = [invitation[i] EXCEPT !.expired = TRUE]
                       \/ invitation'[i] = [invitation[i] EXCEPT !.status = "canceled"]
                PROVE invitation'[i].company = invitation[i].company
            BY <5>2, <5>4 DEF Letters
          <5> QED
            BY <1>0, <3>1, <5>3, <5>4, LetterMoves
        <4> QED
          BY <2>1, <2>2, <3>2, <3>3, <4>1, <4>2 DEF Answers
      <3>4. CASE x.op = "submit"
        <4>1. y.at \in {"found"} \cup Handling => leads'[y.company] = i
          <5> SUFFICES ASSUME y.at \in {"found"} \cup Handling PROVE leads'[y.company] = i
            OBVIOUS
          <5>1. CASE Search(c) \/ Post(c)
            <6>1. CASE y = x
              BY <2>2, <5>1, <6>1 DEF Search, Post, Handling
            <6>2. CASE Advances(c)
              <7>1. y.at \notin Handling
                BY <1>0, <5>1, <6>2, Arriving DEF Handling, Enter, TakeUser, Search, Post
              <7> QED
                BY <1>0, <5>1, <7>1, Finding
            <6> QED
              BY <1>2, <6>1, <6>2
          <5>2. CASE ~Search(c) /\ ~Post(c)
            <6>1. x.at \in {"found"} \cup Handling
              <7>1. CASE y = x
                BY <7>1
              <7>2. CASE Advances(c)
                <8>1. Enter(c) \/ TakeUser(c)
                  BY <1>0, <5>2, <7>2, Arriving DEF Handling
                <8> QED
                  BY <2>2, <3>4, <8>1 DEF Enter, TakeUser, Handling, Shaped
              <7> QED
                BY <1>2, <7>1, <7>2
            <6>2. leads[x.company] = i /\ x.company \in LeadCards
              BY <2>2, <3>4, <6>1 DEF Answers, Shaped
            <6> QED
              BY <1>0, <2>1, <3>1, <5>2, <6>2, LeadsStay
          <5> QED
            BY <5>1, <5>2
        <4>2. y.late => y.at # "post" /\ \E k \in LeadCards : leads'[k] = i
          <5> SUFFICES ASSUME y.late PROVE y.at # "post" /\ \E k \in LeadCards : leads'[k] = i
            OBVIOUS
          <5>1. x.late /\ x.at # "post" /\ LeadsOf(i) # {}
            BY <2>1, <2>2, <3>4 DEF Answers
          <5>2. \E k \in LeadCards : leads'[k] = i
            BY <1>0, <3>1, <5>1, LeadsStay DEF LeadsOf
          <5>3. ASSUME y.at = "post" PROVE FALSE
            <6>1. Search(c)
              BY <1>0, <1>2, <5>1, <5>3, Arriving
            <6>2. PICK k : Put(c, [call[c] EXCEPT !.at = "found", !.company = k])
              BY <5>1, <6>1 DEF Search
            <6>3. y = [x EXCEPT !.at = "found", !.company = k]
              BY <1>0, <6>2 DEF Put, TypeOK
            <6> QED
              BY <2>2, <5>3, <6>3 DEF CallRecords
          <5> QED
            BY <5>2, <5>3
        <4> QED
          BY <2>1, <2>2, <3>2, <3>4, <4>1, <4>2 DEF Answers, LeadsOf
      <3> QED
        BY <2>3, <3>3, <3>4
    <2> QED
      BY <2>2b, <2>3
  <1>3. CASE call'[c] = Idle
    BY <1>3, IdleTypes DEF Answers
  <1> QED
    BY <1>0, <1>1, <1>2, <1>3, Others

\* What every reachable state of the portal satisfies.
LEMMA AnsweringHolds == Spec => [](Portal /\ Answering)
  <1>1. Init => Answering
    BY IdleTypes DEF Init, Answering, Answers
  <1>2. Portal /\ Answering /\ [Next]_vars => (Portal /\ Answering)'
    BY NextType, NextSent, NextLetting, NextAnswering DEF Portal
  <1> QED
    BY <1>1, <1>2, InitPortal, PTL DEF Spec

\* Who submits after a lead was posted for the invitation posts no other.
THEOREM LeadCorrect == Spec => LeadOnce
  <1> DEFINE Once == \A k \in LeadCards :
                       leads'[k] # leads[k] =>
                         \E c \in Calls : call[c].at = "post" /\ leads'[k] = call[c].inv /\ ~call[c].late
  <1>1. Portal /\ Answering /\ [Next]_vars => Once
    <2> SUFFICES ASSUME Portal, Answering, [Next]_vars, NEW k \in LeadCards, leads'[k] # leads[k]
                 PROVE \E c \in Calls : call[c].at = "post" /\ leads'[k] = call[c].inv /\ ~call[c].late
      OBVIOUS
    <2>1. PICK c \in Calls : Post(c) /\ call[c].at = "post" /\ leads'[k] = call[c].inv
      BY LeadsMove DEF Portal
    <2>2. call[c] \in CallRecords /\ Shaped(call[c]) /\ Answers(call[c])
      BY Fields DEF Portal, Answering
    <2>3. call[c].op = "submit"
      BY <2>1, <2>2 DEF CallRecords, Shaped, Handling
    <2> QED
      BY <2>1, <2>2, <2>3 DEF Answers
  <1> QED
    BY <1>1, AnsweringHolds, PTL DEF Spec, LeadOnce

\* A new client is seated in the company posted for that very invitation.
THEOREM LeadsTheirs == Spec => LeadIsTheInvitees
  <1> DEFINE Theirs == \A i \in Invitations :
                         /\ invitation[i] # None /\ invitation[i].company = New
                         /\ invitation'[i].company # New
                         => invitation'[i].company \in LeadsOf(i)
  <1>1. Portal /\ Answering /\ [Next]_vars => Theirs
    <2> SUFFICES ASSUME Portal, Answering, [Next]_vars, NEW i \in Invitations, invitation[i] # None,
                        invitation[i].company = New, invitation'[i].company # New
                 PROVE invitation'[i].company \in LeadsOf(i)
      OBVIOUS
    <2>0. TypeOK /\ Shape /\ invitation[i] \in Letters
      BY Fields DEF Portal
    <2>1. PICK c \in Calls :
            /\ Commit(c) /\ call[c].inv = i
            /\ invitation'[i] = [invitation[i] EXCEPT !.status = "accepted", !.company = call[c].company]
      <3>1. ASSUME \/ invitation'[i] = invitation[i]
                   \/ invitation'[i] = [invitation[i] EXCEPT !.expired = TRUE]
                   \/ invitation'[i] = [invitation[i] EXCEPT !.status = "canceled"]
            PROVE FALSE
        BY <2>0, <3>1 DEF Letters
      <3> QED
        BY <2>0, <3>1, LetterMoves
    <2>2. invitation'[i].company = call[c].company
      BY <2>0, <2>1 DEF Letters
    <2>3. /\ call[c].at = "read" /\ call[c].op \in {"accept", "submit", "join"}
          /\ Shaped(call[c]) /\ Answers(call[c])
      BY <2>0, <2>1, Reading DEF Answering, Commit
    <2>4. call[c].op = "submit"
      BY <2>1, <2>3, Apart DEF Shaped, Answers
    <2> QED
      BY <2>1, <2>2, <2>3, <2>4 DEF Shaped, Answers, Handling, LeadsOf
  <1> QED
    BY <1>1, AnsweringHolds, PTL DEF Spec, LeadIsTheInvitees

\* An invitation is accepted with the seat it is for, unless a change moved
\* that seat after the membership was read.
THEOREM AcceptedCorrect == Spec => AcceptedSeated
  <1> DEFINE Sits(i) ==
               \/ \E r \in RowIds :
                    /\ member'[r] # None /\ member'[r].user = invitation[i].user
                    /\ member'[r].company = invitation'[i].company
                    /\ RANK[member'[r].role] >= RANK[invitation[i].role]
               \/ \E c \in Calls : /\ call[c].inv = i /\ call[c].row # None
                                   /\ member[call[c].row] # call[c].seen
  <1>1. ASSUME Portal, Answering, [Next]_vars, NEW i \in Invitations, Open(i),
               invitation'[i].status = "accepted"
        PROVE Sits(i)
    <2>0. TypeOK /\ Shape /\ invitation[i] \in Letters /\ invitation[i].status = "pending"
      BY <1>1, Fields DEF Portal, Open
    <2>1. PICK c \in Calls :
            /\ Commit(c) /\ ~Refused(c) /\ call[c].inv = i
            /\ invitation'[i] = [invitation[i] EXCEPT !.status = "accepted", !.company = call[c].company]
      <3>1. ASSUME \/ invitation'[i] = invitation[i]
                   \/ invitation'[i] = [invitation[i] EXCEPT !.expired = TRUE]
                   \/ invitation'[i] = [invitation[i] EXCEPT !.status = "canceled"]
            PROVE FALSE
        BY <1>1, <2>0, <3>1 DEF Letters
      <3> QED
        BY <1>1, <2>0, <3>1, LetterMoves DEF Open
    <2>2. invitation'[i].company = call[c].company
      BY <2>0, <2>1 DEF Letters
    <2>3. /\ call[c].at = "read" /\ call[c].op \in {"accept", "submit", "join"} /\ Seated(c)
          /\ call[c] \in CallRecords /\ Shaped(call[c]) /\ Answers(call[c])
          /\ call[c].user \in Users /\ call[c].company \in Cards /\ call[c].role \in Roles
      BY <1>1, <2>0, <2>1, Reading DEF Answering, Commit
    <2>4. /\ call[c].user = invitation[i].user
          /\ RANK[call[c].role] \in Nat /\ RANK[invitation[i].role] \in Nat
          /\ RANK[call[c].role] >= RANK[invitation[i].role]
      <3>1. \A role \in Roles : RANK[role] \in Nat /\ RANK["owner"] >= RANK[role]
        BY DEF RANK, Roles
      <3>2. call[c].op \in {"accept", "submit"}
        BY <2>1, <2>3, Apart, <2>0, <1>1 DEF Shaped
      <3>3. invitation[i].role \in Roles
        BY <2>0 DEF Letters
      <3>4. call[c].role = "owner" \/ call[c].role = invitation[i].role
        BY <2>1, <2>3, <3>2 DEF Shaped, Answers
      <3>5. call[c].user = invitation[i].user
        BY <2>1, <2>3, <3>2 DEF Answers
      <3> QED
        BY <2>3, <3>1, <3>3, <3>4, <3>5
    <2>5. CASE call[c].row = None
      <3>1. PICK r \in FreshRows :
              member' = [member EXCEPT ![r] = [user |-> call[c].user, company |-> call[c].company,
                                               role |-> call[c].role]]
        BY <2>3, <2>5 DEF Seated
      <3>2. /\ r \in RowIds
            /\ member'[r] = [user |-> call[c].user, company |-> call[c].company, role |-> call[c].role]
        BY <2>0, <3>1 DEF FreshRows, TypeOK
      <3>3. member'[r] # None
        BY <2>3, <3>2, RowsAssumption DEF Seats
      <3> QED
        BY <2>2, <2>4, <3>2, <3>3
    <2>6. CASE call[c].row # None /\ member[call[c].row] = call[c].seen
      <3> DEFINE r == call[c].row
      <3>1. /\ r \in RowIds /\ member[r] \in Seats /\ member[r] # None
            /\ member[r].user = call[c].user /\ member[r].company = call[c].company
        BY <2>1, <2>3, <2>6, RowsAssumption DEF Shaped, Refused, CallRecords
      <3>2. CASE RANK[call[c].role] > RANK[call[c].seen.role]
        <4>1. member' = [member EXCEPT ![r].role = call[c].role]
          BY <2>3, <2>6, <3>1, <3>2 DEF Seated
        <4>2. member'[r] = [member[r] EXCEPT !.role = call[c].role]
          BY <2>0, <3>1, <4>1 DEF TypeOK
        <4>3. member'[r] \in Seats
          BY <2>3, <3>1, <4>2 DEF Seats
        <4>4. /\ member'[r].user = member[r].user /\ member'[r].company = member[r].company
              /\ member'[r].role = call[c].role /\ member'[r] # None
          BY <3>1, <4>2, <4>3, RowsAssumption DEF Seats
        <4> QED
          BY <2>2, <2>4, <3>1, <4>4
      <3>3. CASE ~(RANK[call[c].role] > RANK[call[c].seen.role])
        <4>1. member'[r] = member[r]
          BY <2>3, <2>6, <3>3 DEF Seated
        <4>2. RANK[member[r].role] \in Nat
          BY <3>1 DEF Seats, RANK, Roles
        <4>3. RANK[member[r].role] >= RANK[call[c].role]
          BY <2>4, <2>6, <3>3, <4>2
        <4> HIDE DEF r
        <4>4. RANK[member[r].role] >= RANK[invitation[i].role]
          BY <2>4, <4>2, <4>3
        <4> QED
          BY <2>2, <2>4, <3>1, <4>1, <4>4
      <3> QED
        BY <3>2, <3>3
    <2>7. CASE call[c].row # None /\ member[call[c].row] # call[c].seen
      BY <2>1, <2>7
    <2> QED
      BY <2>5, <2>6, <2>7
  <1> DEFINE Seats1 == \A i \in Invitations : Open(i) /\ invitation'[i].status = "accepted" => Sits(i)
  <1>2. Portal /\ Answering /\ [Next]_vars => Seats1
    BY <1>1
  <1> QED
    BY <1>2, AnsweringHolds, PTL DEF Spec, AcceptedSeated

-----------------------------------------------------------------------------
(* An owner left *)

\* The rows a change locked are owners', and a change that would take the last
\* one away is not among them.
Owned(x) ==
  x.at = "locked" =>
    /\ x.owners \subseteq OwnersOf(x.company)
    /\ x.role # "owner" /\ x.owners # {} => \E r \in x.owners : member[r].user # x.user
Owning == \A c \in Calls : Owned(call[c])

\* Nobody else writes a row that is locked.
LEMMA LockedStays ==
  ASSUME TypeOK, Shape, [Next]_vars, NEW c \in Calls, call[c].at = "locked", call'[c] = call[c],
         NEW r \in RowIds, r \in call[c].owners, member[r] # None
  PROVE  member'[r] = member[r]
  <1>0. call[c] # Idle
    BY IdleTypes
  <1>1. ASSUME NEW d \in Calls, WriteChange(d) PROVE member'[r] = member[r]
    <2>1. d # c
      BY <1>0, <1>1 DEF WriteChange, End, Put, TypeOK
    <2>2. r \notin SeatsAt(call[d].user, call[d].company)
      BY <1>1, <2>1 DEF WriteChange, RowsFree
    <2> QED
      BY <1>1, <2>2, ChangedIs
  <1>2. ASSUME NEW d \in Calls, Commit(d), ~UNCHANGED member PROVE member'[r] = member[r]
    <2>1. call[d].at = "read" /\ Seated(d) /\ d # c
      BY <1>2 DEF Commit
    <2>2. CASE \E q \in RowIds : /\ member[q] = None
                                 /\ member' = [member EXCEPT ![q] = [user |-> call[d].user,
                                       company |-> call[d].company, role |-> call[d].role]]
      BY <2>2 DEF TypeOK
    <2>3. CASE /\ call[d].row \in RowIds /\ RowsFree(d, {call[d].row})
               /\ member' = [member EXCEPT ![call[d].row].role = call[d].role]
      <3>1. call[d].row # r
        BY <2>1, <2>3 DEF RowsFree
      <3> QED
        BY <2>3, <3>1 DEF TypeOK
    <2> QED
      BY <1>2, <2>1, <2>2, <2>3, SeatedIs
  <1>3. ASSUME NEW d \in Calls, Advances(d), ~Commit(d), ~WriteChange(d) PROVE UNCHANGED member
    BY <1>3 DEF Advances, Search, Post, Enter, TakeUser, Clear, Insert, LockOwners, Abort, Kept
  <1>4. ASSUME NEW d \in Calls, Begins(d) PROVE UNCHANGED member
    BY <1>4, Beginning DEF Kept
  <1>5. ASSUME Outside PROVE UNCHANGED member
    BY <1>5 DEF Outside, Cancel, Expire, RemoveDomain, AddDomain
  <1>6. UNCHANGED vars => UNCHANGED member
    BY DEF vars
  <1> QED
    BY <1>1, <1>2, <1>3, <1>4, <1>5, <1>6, Steps

\* What a change holds once the owners' rows are locked.
LEMMA Locking ==
  ASSUME TypeOK, Shape, OneSeat, NEW c \in Calls, LockOwners(c), call'[c].at = "locked"
  PROVE  Owned(call'[c]) /\ UNCHANGED member
  <1> DEFINE x == call[c]
             o == x.owners \cap OwnersOf(x.company)
             seats == SeatsAt(x.user, x.company)
  <1>0. Idle.at = "idle" /\ x \in CallRecords /\ UNCHANGED member
    BY IdleTypes, Fields DEF LockOwners, Kept
  <1>1. ~LastOwner(c, o) /\ Put(c, [x EXCEPT !.at = "locked", !.owners = o])
    <2>1. ~End(c)
      BY <1>0 DEF End, Put, TypeOK
    <2> QED
      BY <2>1 DEF LockOwners
  <1>2. call'[c] = [x EXCEPT !.at = "locked", !.owners = o]
    BY <1>1 DEF Put, TypeOK
  <1>3. o \subseteq OwnersOf(x.company) /\ o \subseteq RowIds
    BY DEF OwnersOf
  <1>4. ASSUME x.role # "owner", o # {}, \A r \in o : member[r].user = x.user PROVE FALSE
    <2>1. PICK r \in o : TRUE
      BY <1>4
    <2>2. o \subseteq seats
      BY <1>3, <1>4 DEF OwnersOf, SeatsAt, SeatsOf
    <2>3. \A q \in seats : q = r
      BY <1>3, <1>4, <2>1, <2>2 DEF SeatsAt, SeatsOf, OneSeat
    <2>4. o = {r} /\ seats = {r}
      BY <2>1, <2>2, <2>3
    <2>5. Cardinality(o) = 1
      BY <2>4, FS_Singleton
    <2> QED
      BY <1>1, <1>4, <2>4, <2>5 DEF LastOwner
  <1> HIDE DEF o
  <1>5. /\ call'[c].owners = o /\ call'[c].company = x.company /\ call'[c].role = x.role
        /\ call'[c].user = x.user
    BY <1>0, <1>2 DEF CallRecords
  <1> QED
    BY <1>0, <1>3, <1>4, <1>5 DEF Owned

\* Every step keeps the owners that are locked.
LEMMA NextOwning == TypeOK /\ Shape /\ OneSeat /\ Owning /\ [Next]_vars => Owning'
  <1> SUFFICES ASSUME TypeOK, Shape, OneSeat, Owning, [Next]_vars, NEW c \in Calls,
                      call'[c].at = "locked"
               PROVE Owned(call[c])'
    BY DEF Owning, Owned
  <1>1. CASE call'[c] = call[c]
    <2> DEFINE x == call[c]
    <2>1. x.owners \subseteq OwnersOf(x.company) /\ x.at = "locked"
      BY <1>1 DEF Owning, Owned
    <2>2. \A r \in x.owners : r \in RowIds /\ member[r] # None /\ member'[r] = member[r]
      BY <1>1, <2>1, LockedStays DEF OwnersOf
    <2>3. \A r \in x.owners : /\ member'[r] # None /\ member'[r].company = x.company
                             /\ member'[r].role = "owner"
      BY <2>1, <2>2 DEF OwnersOf
    <2>4. x.role # "owner" /\ x.owners # {} => \E r \in x.owners : member'[r].user # x.user
      BY <2>1, <2>2 DEF Owning, Owned
    <2> QED
      BY <1>1, <2>2, <2>3, <2>4 DEF Owned, OwnersOf
  <1>2. CASE Begins(c)
    BY <1>2, Beginning
  <1>3. CASE Advances(c)
    <2>1. LockOwners(c)
      BY <1>3, Arriving
    <2>2. Owned(call'[c]) /\ UNCHANGED member
      BY <2>1, Locking
    <2> QED
      BY <2>2 DEF Owned, OwnersOf
  <1> QED
    BY <1>1, <1>2, <1>3, Others

\* A change that locked an owner's row leaves its company an owner, however
\* owners demote and remove each other.
THEOREM OwnerCorrect == Spec => ChangeLeavesOwner
  <1> DEFINE Leaves == \A c \in Calls, k \in Cards :
                         /\ call[c].at = "locked" /\ call[c].company = k /\ call[c].owners # {}
                         /\ member' # member /\ call'[c] = Idle
                         => OwnersOf(k)' # {}
  <1>1. TypeOK /\ Shape /\ OneSeat /\ Owning /\ [Next]_vars => Leaves
    <2> SUFFICES ASSUME TypeOK, Shape, OneSeat, Owning, [Next]_vars, NEW c \in Calls, NEW k \in Cards,
                        call[c].at = "locked", call[c].company = k, call[c].owners # {},
                        member' # member, call'[c] = Idle
                 PROVE \E r \in RowIds : /\ member'[r] # None /\ member'[r].company = k
                                         /\ member'[r].role = "owner"
      BY DEF OwnersOf
    <2> DEFINE targets == SeatsAt(call[c].user, call[c].company)
    <2>1. WriteChange(c)
      <3>1. Advances(c)
        BY Others, Beginning, IdleTypes
      <3> QED
        BY <3>1 DEF Advances, Search, Post, Enter, TakeUser, Commit, Clear, Insert, LockOwners, Abort, Kept
    <2>2. \A r \in RowIds :
            /\ r \notin targets => member'[r] = member[r]
            /\ r \in targets => IF call[c].role = None THEN member'[r] = None
                                ELSE member'[r] = [member[r] EXCEPT !.role = call[c].role]
      BY <2>1, ChangedIs
    <2>3. /\ call[c].owners \subseteq OwnersOf(k)
          /\ call[c].role # "owner" => \E r \in call[c].owners : member[r].user # call[c].user
      BY DEF Owning, Owned
    <2>4. \A r \in call[c].owners : /\ r \in RowIds /\ member[r] \in Seats /\ member[r] # None
                                   /\ member[r].company = k /\ member[r].role = "owner"
      BY <2>3, Fields DEF OwnersOf
    <2>5. CASE \E r \in call[c].owners : r \notin targets
      BY <2>2, <2>4, <2>5
    <2>6. CASE call[c].role = "owner" /\ \A r \in call[c].owners : r \in targets
      <3>1. PICK r \in call[c].owners : r \in targets
        BY <2>6
      <3>2. member'[r] = [member[r] EXCEPT !.role = "owner"]
        BY <2>2, <2>4, <2>6, <3>1, Apart DEF Roles
      <3>3. member'[r] = member[r]
        BY <2>4, <3>1, <3>2 DEF Seats
      <3> QED
        BY <2>4, <3>1, <3>3
    <2>7. CASE call[c].role # "owner" /\ \A r \in call[c].owners : r \in targets
      BY <2>3, <2>7 DEF SeatsAt, SeatsOf
    <2> QED
      BY <2>5, <2>6, <2>7
  <1>2. Init => Owning
    BY IdleTypes DEF Init, Owning, Owned
  <1>3. /\ TypeOK /\ Shape /\ Sent /\ Seating /\ Owning /\ [Next]_vars
        => (TypeOK /\ Shape /\ Sent /\ Seating /\ Owning)'
    BY NextType, NextSent, NextSeating, NextOwning DEF Seating
  <1>4. Init => Seating
    BY DEF Init, Idle, Seating, OneReader, ReadHolds, OneSeat
  <1>5. Seating => OneSeat
    BY DEF Seating
  <1> QED
    BY <1>1, <1>2, <1>3, <1>4, <1>5, InitType, PTL DEF Spec, ChangeLeavesOwner
=============================================================================
