--------------------------- MODULE PortalMembers ---------------------------
(* The customer portal's seats and invitations at one supplier (portal/      *)
(* members.ts, portal/orpc/onboarding.ts; the staff's routers/portal.ts and  *)
(* the owners' orpc/company.ts call the same functions).  Every transaction  *)
(* runs under READ COMMITTED: what it writes appears when it commits, and    *)
(* the rows it locked are those of the stage it has reached.  Users are      *)
(* customers, their address their name: staff are refused at every door.     *)
EXTENDS Naturals, FiniteSets

CONSTANTS
  Users,        \* customers, known by their address
  BPs,          \* CardCodes of the business partners SAP has
  LeadCards,    \* CardCodes SAP gives to the leads it is posted
  Domains,      \* email domains that can be registered
  DomainOf,     \* [Users -> Domains \cup {None}]: None is free mail
  Invitations,  \* ids of invitation rows
  RowIds,       \* ids of member rows
  InviteRoles,  \* the roles colleagues are invited for; a new client is owner
  Calls,        \* requests in flight
  MaxRequests,  \* bound on the requests served
  None, New     \* no value; the company of a new-client invitation

Roles == {"viewer", "buyer", "owner"}
RANK == [viewer |-> 0, buyer |-> 1, owner |-> 2]
Cards == BPs \cup LeadCards

ASSUME PortalAssumption ==
  /\ DomainOf \in [Users -> Domains \cup {None}]
  /\ InviteRoles \subseteq Roles
  /\ None \notin Users \cup Cards \cup Domains \cup Invitations \cup RowIds \cup Roles
  /\ MaxRequests \in Nat
  /\ New \notin Cards \cup {None}

VARIABLES
  member,      \* seats: [RowIds -> Seats \cup {None}]
  invitation,  \* [Invitations -> Letters \cup {None}]
  domain,      \* portal_company_domain: [Domains -> Cards \cup {None}]
  leads,       \* SAP: the key (an invitation's) of every lead posted
  call,        \* the request each worker serves
  served       \* requests begun so far

vars == <<member, invitation, domain, leads, call, served>>

Seats == [user : Users, company : Cards, role : Roles]
Letters == [user : Users, company : Cards \cup {New}, role : Roles,
            status : {"pending", "accepted", "canceled"}, expired : BOOLEAN]
ASSUME RowsAssumption == None \notin Seats /\ None \notin Letters
Stages == {"idle", "checked", "form", "post", "found", "entered", "read",
           "guarded", "cleared", "snapped", "locked"}
Idle == [op |-> "none", at |-> "idle", user |-> None, company |-> None,
         role |-> None, inv |-> None, row |-> None, seen |-> None,
         owners |-> {}, late |-> FALSE]
CallRecords ==
  [op : {"none", "accept", "submit", "join", "send", "change"}, at : Stages,
   user : Users \cup {None}, company : Cards \cup {New, None},
   role : Roles \cup {None}, inv : Invitations \cup {None},
   row : RowIds \cup {None}, seen : Seats \cup {None},
   owners : SUBSET RowIds, late : BOOLEAN]

Open(i) == /\ invitation[i] # None
           /\ invitation[i].status = "pending" /\ ~invitation[i].expired
SeatsOf(u) == {r \in RowIds : member[r] # None /\ member[r].user = u}
SeatsAt(u, k) == {r \in SeatsOf(u) : member[r].company = k}
OwnersOf(k) == {r \in RowIds : /\ member[r] # None /\ member[r].company = k
                               /\ member[r].role = "owner"}
LeadsOf(i) == {k \in LeadCards : leads[k] = i}
(* The companies SAP knows: a business partner or a lead already posted.     *)
Customers == BPs \cup {k \in LeadCards : leads[k] # None}

(* A UUID: an id no row has and no request remembers. *)
FreshRows == {r \in RowIds : /\ member[r] = None
                             /\ \A d \in Calls : r # call[d].row /\ r \notin call[d].owners}
FreshIds == {i \in Invitations : invitation[i] = None}

Begin(c, fields) == /\ call[c] = Idle /\ served < MaxRequests
                    /\ served' = served + 1
                    /\ call' = [call EXCEPT ![c] = fields]
Put(c, fields) == call' = [call EXCEPT ![c] = fields] /\ served' = served
Step(c, at) == Put(c, [call[c] EXCEPT !.at = at])
End(c) == Put(c, Idle)
Kept == UNCHANGED <<member, invitation, domain, leads>>

(* The row locks of the transactions under way. *)
InvFree(i) == \A d \in Calls : ~(call[d].inv = i /\ call[d].at \in {"entered", "read"})
UserFree(u) == \A d \in Calls : ~(call[d].user = u /\ call[d].at = "read")
OrgFree == \A d \in Calls : call[d].at # "cleared"
RowsFree(c, rows) == \A d \in Calls \ {c} : call[d].at = "locked" => call[d].owners \cap rows = {}
-----------------------------------------------------------------------------
Init ==
  /\ member \in [RowIds -> [user : Users, company : BPs, role : Roles] \cup {None}]
  /\ \A r, s \in RowIds : member[r] # None /\ member[s] # None /\ r # s => member[r].user # member[s].user
  /\ invitation = [i \in Invitations |-> None]
  /\ domain = [d \in Domains |-> None]
  /\ leads = [k \in LeadCards |-> None]
  /\ call = [c \in Calls |-> Idle]
  /\ served = 0

(* The invitee's own requests: openInvitationFor, newClientInvitation, join. *)
Accept(c, i) ==
  /\ Open(i) /\ invitation[i].company # New
  /\ Begin(c, [Idle EXCEPT !.op = "accept", !.at = "checked", !.user = invitation[i].user,
                           !.company = invitation[i].company, !.role = invitation[i].role,
                           !.inv = i])
  /\ Kept

Submit(c, i) ==
  /\ Open(i) /\ invitation[i].company = New /\ SeatsOf(invitation[i].user) = {}
  /\ Begin(c, [Idle EXCEPT !.op = "submit", !.at = "form", !.user = invitation[i].user,
                           !.role = "owner", !.inv = i, !.late = LeadsOf(i) # {}])
  /\ Kept

Join(c, u) ==
  /\ DomainOf[u] # None /\ domain[DomainOf[u]] # None
  /\ Begin(c, [Idle EXCEPT !.op = "join", !.at = "entered", !.user = u,
                           !.company = domain[DomainOf[u]], !.role = "viewer"])
  /\ Kept

(* submit's two SAP calls: the search for the invitation's key, the POST.    *)
(* Mutant: the search before the POST left out. *)
SearchNever(c) == call[c].at = "form" /\ Step(c, "post") /\ Kept
Search(c) ==
  /\ call[c].at = "form"
  /\ IF LeadsOf(call[c].inv) = {}
     THEN Step(c, "post")
     ELSE \E k \in LeadsOf(call[c].inv) :
            Put(c, [call[c] EXCEPT !.at = "found", !.company = k])
  /\ Kept

(* Mutant: the key is the tenant's, not the invitation's. *)
PostTenantKey(c) ==
  /\ call[c].at = "post"
  /\ \E k \in LeadCards : /\ leads[k] = None
                          /\ \E i \in Invitations : leads' = [leads EXCEPT ![k] = i]
                          /\ Put(c, [call[c] EXCEPT !.at = "found", !.company = k])
  /\ UNCHANGED <<member, invitation, domain>>
Post(c) ==
  /\ call[c].at = "post"
  /\ \E k \in LeadCards : /\ leads[k] = None
                          /\ leads' = [leads EXCEPT ![k] = call[c].inv]
                          /\ Put(c, [call[c] EXCEPT !.at = "found", !.company = k])
  /\ UNCHANGED <<member, invitation, domain>>

(* The transaction's first statement, the guarded pending -> accepted: accept *)
(* compares the expiry again, submit does not.                               *)
(* Mutant: the update without its guard on the status. *)
StillPendingAssumed(c) == invitation[call[c].inv] # None
StillPending(c) ==
  IF call[c].op = "accept" THEN Open(call[c].inv)
                           ELSE invitation[call[c].inv].status = "pending"
Enter(c) ==
  /\ call[c].at \in {"checked", "found"} /\ InvFree(call[c].inv)
  /\ IF StillPending(c) THEN Step(c, "entered") ELSE End(c)
  /\ Kept

(* addPortalMember: lock the user, read the user's one membership.           *)
(* Mutant: the membership read without the user's row locked. *)
TakeUserUnlocked(c) ==
  /\ call[c].at = "entered"
  /\ IF SeatsOf(call[c].user) = {}
     THEN Step(c, "read")
     ELSE \E r \in SeatsOf(call[c].user) :
            Put(c, [call[c] EXCEPT !.at = "read", !.row = r, !.seen = member[r]])
  /\ Kept
TakeUser(c) ==
  /\ call[c].at = "entered" /\ UserFree(call[c].user)
  /\ IF SeatsOf(call[c].user) = {}
     THEN Step(c, "read")
     ELSE \E r \in SeatsOf(call[c].user) :
            Put(c, [call[c] EXCEPT !.at = "read", !.row = r, !.seen = member[r]])
  /\ Kept

(* Mutant: a seat at another company is no conflict. *)
RefusedNever(c) == call[c].row # None /\ FALSE
Refused(c) == call[c].row # None /\ call[c].seen.company # call[c].company

(* The seat inserted, raised by the role that was read, or left as it is: an *)
(* UPDATE of a row that is gone by now matches nothing.                      *)
Seated(c) ==
  IF call[c].row = None
  THEN \E r \in FreshRows :
         member' = [member EXCEPT ![r] = [user |-> call[c].user, company |-> call[c].company,
                                          role |-> call[c].role]]
  ELSE IF /\ RANK[call[c].role] > RANK[call[c].seen.role]
          /\ member[call[c].row] # None
       THEN /\ RowsFree(c, {call[c].row})
            /\ member' = [member EXCEPT ![call[c].row].role = call[c].role]
       ELSE UNCHANGED member

Claimed(c) ==
  LET d == DomainOf[call[c].user] IN
  IF call[c].inv # None /\ d # None /\ domain[d] = None
  THEN [domain EXCEPT ![d] = call[c].company] ELSE domain

Settled(c) ==
  IF call[c].inv = None THEN invitation
  ELSE [invitation EXCEPT ![call[c].inv].status = "accepted",
                          ![call[c].inv].company = call[c].company]

Commit(c) ==
  /\ call[c].at = "read" /\ End(c)
  /\ IF Refused(c)
     THEN UNCHANGED <<member, invitation, domain>>
     ELSE Seated(c) /\ invitation' = Settled(c) /\ domain' = Claimed(c)
  /\ UNCHANGED leads

(* sendInvitation: the guard, then the organization locked and the open      *)
(* invitations read, then the insert.                                        *)
Send(c, u, k, role) ==
  /\ SeatsOf(u) = {}
  /\ Cardinality(FreshIds) > Cardinality({d \in Calls : call[d].op = "send"})
  /\ Begin(c, [Idle EXCEPT !.op = "send", !.at = "guarded", !.user = u,
                           !.company = k, !.role = role])
  /\ Kept

(* Mutant: the open invitations read without the organization's lock. *)
ClearUnlocked(c) ==
  /\ call[c].at = "guarded"
  /\ IF \E i \in Invitations : Open(i) /\ invitation[i].user = call[c].user
     THEN End(c) ELSE Step(c, "cleared")
  /\ Kept
Clear(c) ==
  /\ call[c].at = "guarded" /\ OrgFree
  /\ IF \E i \in Invitations : Open(i) /\ invitation[i].user = call[c].user
     THEN End(c) ELSE Step(c, "cleared")
  /\ Kept

Insert(c) ==
  /\ call[c].at = "cleared" /\ End(c)
  /\ \E i \in FreshIds :
       invitation' = [invitation EXCEPT ![i] =
         [user |-> call[c].user, company |-> call[c].company, role |-> call[c].role,
          status |-> "pending", expired |-> FALSE]]
  /\ UNCHANGED <<member, domain, leads>>

(* changeMember: FOR UPDATE's snapshot of the owner rows, then their locks   *)
(* and the target's role, then the write.  role None removes.                *)
Change(c, u, k, role) ==
  /\ Begin(c, [Idle EXCEPT !.op = "change", !.at = "snapped", !.user = u,
                           !.company = k, !.role = role, !.owners = OwnersOf(k)])
  /\ Kept

LastOwner(c, owners) == /\ owners = SeatsAt(call[c].user, call[c].company)
                        /\ Cardinality(owners) = 1 /\ call[c].role # "owner"
(* Mutant: the owner rows read without FOR UPDATE. *)
LockOwnersNot(c) ==
  /\ call[c].at = "snapped"
  /\ IF SeatsAt(call[c].user, call[c].company) = {} \/ LastOwner(c, call[c].owners)
     THEN End(c) ELSE Step(c, "locked")
  /\ Kept
(* A row that lost its role or is gone when its lock comes is no owner row;  *)
(* one promoted since the snapshot is not seen.                              *)
LockOwners(c) ==
  /\ call[c].at = "snapped" /\ RowsFree(c, call[c].owners)
  /\ LET owners == call[c].owners \cap OwnersOf(call[c].company) IN
     IF SeatsAt(call[c].user, call[c].company) = {} \/ LastOwner(c, owners)
     THEN End(c)
     ELSE Put(c, [call[c] EXCEPT !.at = "locked", !.owners = owners])
  /\ Kept

WriteChange(c) ==
  LET targets == SeatsAt(call[c].user, call[c].company) IN
  /\ call[c].at = "locked" /\ RowsFree(c, targets) /\ End(c)
  /\ member' = [r \in RowIds |->
       IF r \notin targets THEN member[r]
       ELSE IF call[c].role = None THEN None ELSE [member[r] EXCEPT !.role = call[c].role]]
  /\ UNCHANGED <<invitation, domain, leads>>

(* cancelInvitations waits for a transaction that holds the row. *)
Cancel(i) ==
  /\ invitation[i] # None /\ invitation[i].status = "pending"
  /\ InvFree(i)
  /\ invitation' = [invitation EXCEPT ![i].status = "canceled"]
  /\ UNCHANGED <<member, domain, leads, call, served>>

(* Fourteen days pass. *)
Expire(i) ==
  /\ Open(i)
  /\ invitation' = [invitation EXCEPT ![i].expired = TRUE]
  /\ UNCHANGED <<member, domain, leads, call, served>>

AddDomain(d, k) == /\ domain[d] = None
                   /\ domain' = [domain EXCEPT ![d] = k]
                   /\ UNCHANGED <<member, invitation, leads, call, served>>
RemoveDomain(d) == /\ domain[d] # None
                   /\ domain' = [domain EXCEPT ![d] = None]
                   /\ UNCHANGED <<member, invitation, leads, call, served>>

(* A request that fails or dies anywhere: its transaction is rolled back.    *)
Abort(c) == call[c] # Idle /\ End(c) /\ Kept

Next ==
  \/ \E c \in Calls :
       \/ \E i \in Invitations : Accept(c, i) \/ Submit(c, i)
       \/ \E u \in Users :
            \/ Join(c, u)
            \/ Send(c, u, New, "owner") \/ \E k \in Customers, role \in InviteRoles : Send(c, u, k, role)
            \/ \E k \in Cards, role \in Roles \cup {None} : Change(c, u, k, role)
       \/ Search(c) \/ Post(c) \/ Enter(c) \/ TakeUser(c) \/ Commit(c)
       \/ Clear(c) \/ Insert(c) \/ LockOwners(c) \/ WriteChange(c) \/ Abort(c)
  \/ \E i \in Invitations : Cancel(i) \/ Expire(i)
  \/ \E d \in Domains : RemoveDomain(d) \/ \E k \in Customers : AddDomain(d, k)

Spec == Init /\ [][Next]_vars
-----------------------------------------------------------------------------
TypeOK ==
  /\ member \in [RowIds -> Seats \cup {None}]
  /\ invitation \in [Invitations -> Letters \cup {None}]
  /\ domain \in [Domains -> Cards \cup {None}]
  /\ leads \in [LeadCards -> Invitations \cup {None}]
  /\ call \in [Calls -> CallRecords]
  /\ served \in 0..MaxRequests

(* A user has at most one seat at a supplier, whichever of accept, submit    *)
(* and join race: the user row's lock stands in for the missing unique index *)
(* (members.ts:96-98).                                                       *)
OneSeat ==
  \A r, s \in RowIds :
    member[r] # None /\ member[s] # None /\ member[r].user = member[s].user => r = s

(* Two sends to one address at once: one open invitation per address, for    *)
(* the same missing index (members.ts:186-189).                              *)
OneOpenInvitation ==
  \A i, j \in Invitations :
    Open(i) /\ Open(j) /\ invitation[i].user = invitation[j].user => i = j

(* A change that locked an owner's row leaves its company an owner: owners   *)
(* demoting each other run one after the other (members.ts:132-136).  One    *)
(* that found no owner row to lock is left out, even where its company       *)
(* gained an owner before it wrote.                                          *)
ChangeLeavesOwner ==
  [][\A c \in Calls, k \in Cards :
       /\ call[c].at = "locked" /\ call[c].company = k /\ call[c].owners # {}
       /\ member' # member /\ call'[c] = Idle
       => OwnersOf(k)' # {}]_vars

(* An invitation is accepted together with its seat, in its company and with *)
(* its role at least, unless a change moved the seat since it was read.      *)
AcceptedSeated ==
  [][\A i \in Invitations :
       Open(i) /\ invitation'[i].status = "accepted" =>
         \/ \E r \in RowIds :
              /\ member'[r] # None /\ member'[r].user = invitation[i].user
              /\ member'[r].company = invitation'[i].company
              /\ RANK[member'[r].role] >= RANK[invitation[i].role]
         \/ \E c \in Calls : /\ call[c].inv = i /\ call[c].row # None
                             /\ member[call[c].row] # call[c].seen]_vars

(* Accepted and cancelled are final: a double click, a cancel beside an      *)
(* accept and a late submit all lose to the first commit.                    *)
SettledStays ==
  [][\A i \in Invitations :
       invitation[i] # None /\ invitation[i].status # "pending"
         => invitation'[i] = invitation[i]]_vars

(* A submit that begins when its invitation already has a lead posts no      *)
(* other, wherever the earlier one died (onboarding.ts:156-158).             *)
LeadOnce ==
  [][\A k \in LeadCards :
       leads'[k] # leads[k] =>
         \E c \in Calls : call[c].at = "post" /\ leads'[k] = call[c].inv /\ ~call[c].late]_vars

(* A new client's company is the lead posted for that very invitation.       *)
LeadIsTheInvitees ==
  [][\A i \in Invitations :
       /\ invitation[i] # None /\ invitation[i].company = New
       /\ invitation'[i].company # New
       => invitation'[i].company \in LeadsOf(i)]_vars

(* "raises the role and never lowers it, so it can never take a company's    *)
(* last owner away" (members.ts:95-96): a role falls by changeMember alone.  *)
JoinNeverLowers ==
  [][\A r \in RowIds :
       /\ member[r] # None /\ member'[r] # None
       /\ RANK[member'[r].role] < RANK[member[r].role]
       => \E c \in Calls : call[c].op = "change" /\ call'[c] = Idle /\ call[c] # Idle]_vars
=============================================================================
