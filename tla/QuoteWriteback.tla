---------------------------- MODULE QuoteWriteback ---------------------------
(***************************************************************************)
(* Posting a client's project to SAP Business One as a Sales Quotation     *)
(* (createQuote in apps/server/src/config-quote.ts, over the company the   *)
(* agent serves, b1.ts).  The database and SAP share no transaction: the   *)
(* request reads the project, checks SAP for a document carrying its       *)
(* command id, posts or patches, and only then locks the row and records   *)
(* the document.  It may be cut short at any await, which loses the answer *)
(* of whatever it had sent; users retry, decline, edit, close documents    *)
(* and switch the company meanwhile.                                       *)
(***************************************************************************)
EXTENDS Naturals, Sequences, ProjectRules

CONSTANTS
  Calls,      \* the createQuote requests in flight
  Companies,  \* the SAP companies the agent has served
  Home,       \* the company it serves first
  Picks,      \* the selections staff can quote, with their assignments and rows
  Prices,     \* the states of the model, margin and price tables
  None,       \* nothing picked, no key, no company, no document read
  MaxDocs,    \* bound: quotations a company holds
  MaxRounds   \* bound: quotations sent to the client

ASSUME CompaniesAssumption == Home \in Companies /\ None \notin Companies
ASSUME PicksAssumption == None \notin Picks
ASSUME BoundsAssumption == MaxDocs \in Nat /\ MaxRounds \in Nat

VARIABLES
  project,   \* the row, as quoting reads and writes it
  price,     \* what the live model and tables say now
  agent,     \* the company the agent serves
  adopted,   \* the company Confire has recorded for it
  sap,       \* the quotations of each company; a DocEntry is an index
  calls      \* the requests in flight

vars == <<project, price, agent, adopted, sap, calls>>

\* What configDocumentCommandId hashes; replaces is 0 for a first quote.
Keys == [picks: Picks, replaces: Nat]

ASSUME KeysAssumption == None \notin Keys

\* `touched`: a SAP user edited the document since Confire last wrote it.
Docs == [key: Keys \cup {None}, picks: Picks \cup {None}, price: Prices \cup {None},
         open: BOOLEAN, touched: BOOLEAN]

\* `quoted` stands for quotedValue and quotedCost: what was recorded as sent.
Projects == [status: Statuses, picks: Picks \cup {None}, docEntry: Nat, company: Companies \cup {None},
             quoted: [picks: Picks, price: Prices] \cup {None}, rounds: Nat]

\* A request: the company its SAP calls carry, what it loaded, whether the
\* project's quotation is in that company, the document as it read it, and the
\* document it will record.
CallRecords ==
  {[pc |-> "idle"]} \cup
  [pc: {"current", "search", "patch", "post", "reread", "move"}, company: Companies, picks: Picks,
   price: Prices, here: BOOLEAN, docEntry: Nat, read: Docs \cup {None}]

Idle == [pc |-> "idle"]

TypeOK ==
  /\ project \in Projects
  /\ price \in Prices
  /\ agent \in Companies /\ adopted \in Companies
  /\ sap \in [Companies -> Seq(Docs)]
  /\ calls \in [Calls -> CallRecords]

-----------------------------------------------------------------------------
\* Mutant: a DocEntry is taken for the same document in every company.
QuotationInAny(p, company) == p.docEntry # 0

\* quotationIn: the project's quotation is in this company.
QuotationIn(p, company) == p.docEntry # 0 /\ p.company = company

\* Mutant: the key forgets which quotation it replaces.
CommandIdUnchained(call) == [picks |-> call.picks, replaces |-> 0]

\* Mutant: the key names the first candidate, whatever it is by now.
CommandIdByIndex(call) ==
  [picks |-> CHOOSE p \in Picks : TRUE, replaces |-> IF call.here THEN call.docEntry ELSE 0]

\* configDocumentCommandId: what is being quoted, never a version.
CommandId(call) == [picks |-> call.picks, replaces |-> IF call.here THEN call.docEntry ELSE 0]

\* The document the quotation seed makes.
Quotation(call) ==
  [key |-> CommandId(call), picks |-> call.picks, price |-> call.price, open |-> TRUE, touched |-> FALSE]

DocAt(company, entry) == sap[company][entry]

Go(c, next) == calls' = [calls EXCEPT ![c] = next]
End(c) == Go(c, Idle)
At(c, pc) == calls[c].pc = pc
To(c, pc) == Go(c, [calls[c] EXCEPT !.pc = pc])
Record(c, entry) == Go(c, [calls[c] EXCEPT !.pc = "move", !.docEntry = entry])

\* The agent answers a call built for another company with 409 before it touches
\* SAP; Confire adopts the company it named, and the request fails.
Served(c) == agent = calls[c].company
Refused(c) == ~Served(c) /\ adopted' = agent /\ End(c) /\ UNCHANGED <<project, price, agent, sap>>

-----------------------------------------------------------------------------
Init ==
  /\ project = [status |-> "in_review", picks |-> None, docEntry |-> 0, company |-> None,
                quoted |-> None, rounds |-> 0]
  /\ price \in Prices
  /\ agent = Home /\ adopted = Home
  /\ sap = [co \in Companies |-> <<>>]
  /\ calls = [c \in Calls |-> Idle]

\* Load the project and the company, refuse a project that is not the staff's to
\* write, price the picks.  A project quoted here answers at once, writing
\* nothing; quoted elsewhere it is refused like any other locked one.
Load(c) ==
  /\ calls[c] = Idle
  /\ project.rounds < MaxRounds
  /\ project.picks # None
  /\ CanWrite(TRUE, project.status, "internal")
  /\ LET here == QuotationIn(project, adopted)
     IN  Go(c, [pc |-> IF here THEN "current" ELSE "search", company |-> adopted,
                picks |-> project.picks, price |-> price, here |-> here,
                docEntry |-> IF here THEN project.docEntry ELSE 0, read |-> None])
  /\ UNCHANGED <<project, price, agent, adopted, sap>>

\* readQuotation: patch an open quotation unless it already carries the key,
\* replace a closed one.  A DocEntry the company does not have is a 404.
ReadCurrent(c) ==
  /\ At(c, "current")
  /\ \/ Refused(c)
     \/ /\ Served(c)
        /\ IF calls[c].docEntry \notin DOMAIN sap[agent] THEN End(c)
           ELSE LET doc == DocAt(agent, calls[c].docEntry)
                IN  Go(c, [calls[c] EXCEPT !.read = doc,
                             !.pc = IF ~doc.open THEN "search"
                                    ELSE IF doc.key = CommandId(calls[c]) THEN "move" ELSE "patch"])
        /\ UNCHANGED <<project, price, agent, adopted, sap>>

\* Mutant: the pre-check is skipped.
FoundNever(c) == {}

\* The documents that carry the command id, the predecessor excluded.
Found(c) ==
  {e \in DOMAIN sap[agent] : DocAt(agent, e).key = CommandId(calls[c]) /\ (calls[c].here => e # calls[c].docEntry)}

Search(c) ==
  /\ At(c, "search")
  /\ \/ Refused(c)
     \/ /\ Served(c)
        /\ IF Found(c) = {} THEN To(c, "post") ELSE \E e \in Found(c) : Record(c, e)
        /\ UNCHANGED <<project, price, agent, adopted, sap>>

Post(c) ==
  /\ At(c, "post")
  /\ \/ Refused(c)
     \/ /\ Served(c)
        /\ Len(sap[agent]) < MaxDocs
        /\ sap' = [sap EXCEPT ![agent] = Append(@, Quotation(calls[c]))]
        /\ Record(c, Len(sap[agent]) + 1)
        /\ UNCHANGED <<project, price, agent, adopted>>

\* Mutant: the PATCH carries no ETag.
MatchesAny(read, doc) == TRUE

\* If-Match: the document is still the one that was read.
Matches(read, doc) == doc = read

Patch(c) ==
  /\ At(c, "patch")
  /\ \/ Refused(c)
     \/ /\ Served(c)
        /\ IF Matches(calls[c].read, DocAt(agent, calls[c].docEntry))
           THEN /\ sap' = [sap EXCEPT ![agent][calls[c].docEntry] = Quotation(calls[c])]
                /\ To(c, "move")
           ELSE To(c, "reread") /\ UNCHANGED sap
        /\ UNCHANGED <<project, price, agent, adopted>>

\* A 412: if the document carries this request's key its own PATCH landed.
Reread(c) ==
  /\ At(c, "reread")
  /\ \/ Refused(c)
     \/ /\ Served(c)
        /\ IF DocAt(agent, calls[c].docEntry).key = CommandId(calls[c]) THEN To(c, "move") ELSE End(c)
        /\ UNCHANGED <<project, price, agent, adopted, sap>>

\* Mutant: the company recorded is the one Confire has adopted by now.
RecordedAdopted(call) == adopted

\* b1Company: the company the request's SAP calls carried.
Recorded(call) == call.company

\* quotedTotals: from the project and the lookups the seed was built from.
Totals(call) == [picks |-> call.picks, price |-> call.price]

\* transition(quote): refused when the project left the staff's hands.
Move(c) ==
  /\ At(c, "move")
  /\ IF project.status = "in_review"
     THEN project' = [project EXCEPT !.status = "quoted", !.docEntry = calls[c].docEntry,
                        !.company = Recorded(calls[c]), !.quoted = Totals(calls[c]), !.rounds = @ + 1]
     ELSE UNCHANGED project
  /\ End(c)
  /\ UNCHANGED <<price, agent, adopted, sap>>

\* The request dies between two awaits: an error, a timeout, a restart.
Abort(c) == calls[c] # Idle /\ End(c) /\ UNCHANGED <<project, price, agent, adopted, sap>>

-----------------------------------------------------------------------------
(* Everybody else.                                                         *)

\* An edit drops the picks, a selection makes new ones.
Repick(picks) ==
  /\ CanWrite(TRUE, project.status, "internal")
  /\ project' = [project EXCEPT !.picks = picks]
  /\ UNCHANGED <<price, agent, adopted, sap, calls>>

\* A model saved, a price table synced, a margin set.
Reprice(p) == price' = p /\ UNCHANGED <<project, agent, adopted, sap, calls>>

\* The client declines the quotation, which reopens the project.
Decline ==
  /\ project.status = "quoted" /\ project.rounds < MaxRounds
  /\ project' = [project EXCEPT !.status = "in_review"]
  /\ UNCHANGED <<price, agent, adopted, sap, calls>>

\* Staff hand the project back, and take it up again.
HandBack ==
  /\ project.status = "in_review"
  /\ project' = [project EXCEPT !.status = "returned"]
  /\ UNCHANGED <<price, agent, adopted, sap, calls>>

TakeUp ==
  /\ project.status = "returned"
  /\ project' = [project EXCEPT !.status = "in_review"]
  /\ UNCHANGED <<price, agent, adopted, sap, calls>>

\* SAP users close a quotation, edit one, write one of their own.
Close(e) ==
  /\ e \in DOMAIN sap[agent] /\ DocAt(agent, e).open
  /\ sap' = [sap EXCEPT ![agent][e].open = FALSE]
  /\ UNCHANGED <<project, price, agent, adopted, calls>>

Touch(e) ==
  /\ e \in DOMAIN sap[agent] /\ DocAt(agent, e).open
  /\ sap' = [sap EXCEPT ![agent][e].touched = TRUE]
  /\ UNCHANGED <<project, price, agent, adopted, calls>>

Foreign ==
  /\ Len(sap[agent]) < MaxDocs
  /\ sap' = [sap EXCEPT ![agent] =
               Append(@, [key |-> None, picks |-> None, price |-> None, open |-> TRUE, touched |-> TRUE])]
  /\ UNCHANGED <<project, price, agent, adopted, calls>>

\* The agent is set up for another company; Confire hears of it from a health
\* check, or from the next call it refuses.
Switch(co) == agent' = co /\ UNCHANGED <<project, price, adopted, sap, calls>>

Adopt == adopted' = agent /\ UNCHANGED <<project, price, agent, sap, calls>>

Quote(c) ==
  Load(c) \/ ReadCurrent(c) \/ Search(c) \/ Post(c) \/ Patch(c) \/ Reread(c) \/ Move(c)

Others ==
  \/ \E picks \in Picks \cup {None} : Repick(picks)
  \/ \E p \in Prices : Reprice(p)
  \/ \E e \in 1..MaxDocs : Close(e) \/ Touch(e)
  \/ \E co \in Companies : Switch(co)
  \/ Decline \/ HandBack \/ TakeUp \/ Foreign \/ Adopt

Next == Others \/ \E c \in Calls : Quote(c) \/ Abort(c)

Spec == Init /\ [][Next]_vars

-----------------------------------------------------------------------------
\* The document a quoted project names.
Named == DocAt(project.company, project.docEntry)

\* A quoted project names a quotation Confire posted, in the company it says,
\* whatever was lost, retried or switched on the way there.
QuotedHasDocument ==
  project.status = "quoted" =>
    /\ project.docEntry \in DOMAIN sap[project.company]
    /\ Named.key # None

\* Confire writes only quotations of its own: another document that happens to
\* have the project's DocEntry, in this company or the next, is never patched.
ForeignUntouched ==
  [][\A co \in Companies : \A e \in DOMAIN sap[co] :
       sap[co][e].key = None => e \in DOMAIN sap'[co] /\ sap'[co][e].key = None]_vars

\* A re-quote overwrites what a SAP user typed only when it has read it.
UnseenEditsSurvive ==
  [][\A co \in Companies : \A e \in DOMAIN sap[co] :
       sap[co][e].touched /\ ~sap'[co][e].touched
         => \E c \in Calls : At(c, "patch") /\ calls[c].read = sap[co][e]]_vars

\* A project that was quoted and reopened never goes back to a quotation it has
\* left behind in the same company.
RequoteMovesForward ==
  [][project'.rounds # project.rounds /\ project'.company = project.company
       => project'.docEntry >= project.docEntry]_vars

\* With one request at a time, retried as often as it takes: "a retry must never
\* create a second SAP document".  No two open quotations of a company carry one
\* command id.
OneOpenPerCommand ==
  \A co \in Companies : \A d, e \in DOMAIN sap[co] :
    sap[co][d].key # None /\ sap[co][d].key = sap[co][e].key /\ sap[co][d].open /\ sap[co][e].open => d = e

\* With one request at a time, the document a quoted project names holds the
\* picks that were recorded as quoted, also when it was found and not posted.
QuotedAsRecorded ==
  project.status = "quoted" => Named.picks = project.quoted.picks
=============================================================================
