--------------------------- MODULE SapConnection ---------------------------
(* A company switch on the SAP server beside the caches of its data (b1.ts   *)
(* adoptCompany, tenantCurrency; agent-pairing.ts agentStatus): the local    *)
(* currency, and the rows of a masterdata query, which a sync refills        *)
(* (masterdata-sync.ts) and an editor's save empties (routers/masterdata.ts).*)
(* Every call to the agent names the company it was built for; the agent     *)
(* answers one built for another with the company it serves, and the caller  *)
(* adopts that before it fails (remote.ts).  Transactions are READ COMMITTED:*)
(* a DELETE removes the rows there were when it began, after waiting for     *)
(* whoever holds them.                                                       *)
EXTENDS Naturals

CONSTANTS
  Companies,    \* SAP company databases
  Queries,      \* definitions an editor may save for the masterdata
  Requests,     \* requests and background syncs
  MaxSwitches,  \* bound on the switches made on the SAP server
  None

ASSUME ConnectionAssumption == MaxSwitches \in Nat /\ None \notin Companies \cup Queries

VARIABLES
  agent,     \* the company the agent serves
  conn,      \* sap_connection: its company and local_currency
  md,        \* config_masterdata: the query, and whether synced_at is set
  cache,     \* config_masterdata_row: whose answer the committed rows are
  req,       \* the requests
  switches   \* switches so far

vars == <<agent, conn, md, cache, req, switches>>

(* History, which no column holds.  crossed: while the request that wrote    *)
(* this was under way, another company was adopted than the one it was built *)
(* for, or another query saved than the one it walks.  emptied: a save's     *)
(* DELETE has taken the rows since a walk last committed some.               *)
Connections == [company : Companies, currency : Companies \cup {None}, crossed : BOOLEAN]
Definitions == [query : Queries, synced : BOOLEAN, crossed : BOOLEAN, emptied : BOOLEAN]
Answers == [company : Companies, query : Queries, by : Requests, crossed : BOOLEAN]
ASSUME AnswerAssumption == None \notin Answers
Kinds == {"none", "sync", "currency", "status", "save"}
Stages == {"new", "connecting", "begun", "deleting", "deleted", "inserted", "filled",
           "asking", "got", "told", "adopting", "saved", "done"}
(* seen: the rows a DELETE found when it began; held: those the sync's own   *)
(* transaction has deleted; put: it has inserted a page.                     *)
RequestRecords ==
  [kind : Kinds, at : Stages, company : Companies \cup {None}, query : Queries \cup {None},
   seen : Answers \cup {None}, held : Answers \cup {None}, put : BOOLEAN, crossed : BOOLEAN]
Idle == [kind |-> "none", at |-> "new", company |-> None, query |-> None,
         seen |-> None, held |-> None, put |-> FALSE, crossed |-> FALSE]

Started(kind) == [Idle EXCEPT !.kind = kind]
Ended == [Idle EXCEPT !.at = "done"]
Step(r, at) == req' = [req EXCEPT ![r].at = at]
End(r) == req' = [req EXCEPT ![r] = Ended]
(* r commits an adoption or a save, which crosses the others it is about:    *)
(* those built for a company before, and the walks of another query.         *)
Crossing(r, mine, others) == [q \in Requests |-> IF q = r THEN mine
  ELSE [req[q] EXCEPT !.crossed = @ \/ q \in others]]
Built == {q \in Requests : req[q].at \notin {"new", "connecting", "done"}}
WalksOf(queries) == {q \in Requests : req[q].kind = "sync" /\ req[q].query \in queries}
Remaining(r) == IF cache = req[r].seen THEN None ELSE cache

RowsFree == \A q \in Requests : req[q].held = None
ConnFree == \A q \in Requests : req[q].at # "adopting"
-----------------------------------------------------------------------------
Init ==
  /\ \E c \in Companies : agent = c /\ conn = [company |-> c, currency |-> None, crossed |-> FALSE]
  /\ \E q \in Queries : md = [query |-> q, synced |-> FALSE, crossed |-> FALSE, emptied |-> FALSE]
  /\ cache = None
  /\ req = [r \in Requests |-> Idle]
  /\ switches = 0

SwitchCompany ==
  /\ switches < MaxSwitches /\ switches' = switches + 1
  /\ \E c \in Companies \ {agent} : agent' = c
  /\ UNCHANGED <<conn, md, cache, req>>

(* ensureFresh and syncNow, with the query as a page had loaded it; and      *)
(* tenantCurrency of an unknown currency.                                    *)
BeginSync(r) ==
  /\ req[r].at = "new"
  /\ req' = [req EXCEPT ![r] = [Started("sync") EXCEPT !.at = "connecting", !.query = md.query]]
  /\ UNCHANGED <<agent, conn, md, cache, switches>>
BeginCurrency(r) ==
  /\ req[r].at = "new" /\ conn.currency = None
  /\ req' = [req EXCEPT ![r] = [Started("currency") EXCEPT !.at = "connecting"]]
  /\ UNCHANGED <<agent, conn, md, cache, switches>>
(* agentStatus: the agent's health, which names its company. *)
BeginStatus(r) ==
  /\ req[r].at = "new"
  /\ req' = [req EXCEPT ![r] = [Started("status") EXCEPT !.at = "told", !.company = agent]]
  /\ UNCHANGED <<agent, conn, md, cache, switches>>

(* tenantConnector. *)
Connect(r) ==
  /\ req[r].at = "connecting"
  /\ req' = [req EXCEPT ![r].company = conn.company,
                        ![r].at = IF req[r].kind = "sync" THEN "begun" ELSE "asking"]
  /\ UNCHANGED <<agent, conn, md, cache, switches>>

(* The DELETE that opens the sync's transaction, and save's last statement.  *)
BeginDelete(r) ==
  /\ req[r].at \in {"begun", "saved"}
  /\ req' = [req EXCEPT ![r].at = "deleting", ![r].seen = cache]
  /\ UNCHANGED <<agent, conn, md, cache, switches>>
DeleteRows(r) ==
  /\ req[r].at = "deleting" /\ req[r].kind = "sync" /\ RowsFree
  /\ req' = [req EXCEPT ![r].at = "deleted",
                        ![r].held = IF cache = req[r].seen THEN cache ELSE None]
  /\ UNCHANGED <<agent, conn, md, cache, switches>>
DeleteSaved(r) ==
  /\ req[r].at = "deleting" /\ req[r].kind = "save" /\ RowsFree
  /\ cache' = Remaining(r)
  /\ md' = [md EXCEPT !.emptied = @ \/ Remaining(r) = None]
  /\ End(r)
  /\ UNCHANGED <<agent, conn, switches>>

(* Mutant: a page refused for another walk's rows is sent again. *)
InsertAgain(r) ==
  /\ req[r].at = "deleted" /\ agent = req[r].company
  /\ \A q \in Requests : ~req[q].put
  /\ req' = [req EXCEPT ![r] = IF cache = req[r].held
                               THEN [req[r] EXCEPT !.at = "inserted", !.put = TRUE]
                               ELSE req[r]]
  /\ UNCHANGED <<agent, conn, md, cache, switches>>
(* A page of the walk.  An insert waits for another transaction's of the     *)
(* same seq, and fails on rows that one has committed.                       *)
InsertPage(r) ==
  /\ req[r].at = "deleted" /\ agent = req[r].company
  /\ \A q \in Requests : ~req[q].put
  /\ req' = [req EXCEPT ![r] = IF cache = req[r].held
                               THEN [req[r] EXCEPT !.at = "inserted", !.put = TRUE]
                               ELSE Ended]
  /\ UNCHANGED <<agent, conn, md, cache, switches>>
CommitSync(r) ==
  /\ req[r].at = "inserted"
  /\ req' = [req EXCEPT ![r].at = "filled", ![r].held = None, ![r].put = FALSE]
  /\ cache' = [company |-> req[r].company, query |-> req[r].query, by |-> r,
               crossed |-> req[r].crossed]
  /\ md' = [md EXCEPT !.emptied = FALSE]
  /\ UNCHANGED <<agent, conn, switches>>
(* The stamp, a statement of its own. *)
Stamp(r) ==
  /\ req[r].at = "filled" /\ End(r)
  /\ md' = [md EXCEPT !.synced = TRUE, !.crossed = req[r].crossed]
  /\ UNCHANGED <<agent, conn, cache, switches>>

AskCurrency(r) ==
  /\ req[r].at = "asking" /\ agent = req[r].company /\ Step(r, "got")
  /\ UNCHANGED <<agent, conn, md, cache, switches>>
WriteCurrency(r) ==
  /\ req[r].at = "got" /\ ConnFree /\ End(r)
  /\ conn' = [conn EXCEPT !.currency = req[r].company, !.crossed = req[r].crossed]
  /\ UNCHANGED <<agent, md, cache, switches>>

(* 409 COMPANY_CHANGED, to the first page or a later one. *)
RefusedByAgent(r) ==
  /\ req[r].at \in {"deleted", "inserted", "asking"} /\ agent # req[r].company
  /\ req' = [req EXCEPT ![r].at = "told", ![r].company = agent]
  /\ UNCHANGED <<agent, conn, md, cache, switches>>

(* adoptCompany: the guarded UPDATE, which locks the row; then the caches'   *)
(* rows, and everything committed.  agentStatus goes on with what it learnt, *)
(* the others fail, and a sync's own transaction ends only then.             *)
Next409(r) == IF req[r].kind = "status" THEN [req[r] EXCEPT !.at = "connecting", !.seen = None]
                                       ELSE Ended
AdoptNothing(r) ==
  /\ req[r].at = "told" /\ ConnFree /\ conn.company = req[r].company
  /\ req' = [req EXCEPT ![r] = Next409(r)]
  /\ UNCHANGED <<agent, conn, md, cache, switches>>
LockConn(r) ==
  /\ req[r].at = "told" /\ ConnFree /\ conn.company # req[r].company
  /\ req' = [req EXCEPT ![r].at = "adopting", ![r].seen = cache]
  /\ UNCHANGED <<agent, conn, md, cache, switches>>
(* Mutant: a switch keeps the masterdata stamped. *)
AdoptStamped(r) ==
  /\ req[r].at = "adopting" /\ RowsFree
  /\ conn' = [company |-> req[r].company, currency |-> None, crossed |-> FALSE]
  /\ cache' = Remaining(r)
  /\ req' = Crossing(r, Next409(r), Built)
  /\ UNCHANGED <<agent, md, switches>>
(* Mutant: a switch keeps the local currency. *)
AdoptCurrency(r) ==
  /\ req[r].at = "adopting" /\ RowsFree
  /\ conn' = [conn EXCEPT !.company = req[r].company]
  /\ cache' = Remaining(r)
  /\ md' = [md EXCEPT !.synced = FALSE]
  /\ req' = Crossing(r, Next409(r), Built)
  /\ UNCHANGED <<agent, switches>>
Adopt(r) ==
  /\ req[r].at = "adopting" /\ RowsFree
  /\ conn' = [company |-> req[r].company, currency |-> None, crossed |-> FALSE]
  /\ cache' = Remaining(r)
  /\ md' = [md EXCEPT !.synced = FALSE]
  /\ req' = Crossing(r, Next409(r), Built)
  /\ UNCHANGED <<agent, switches>>

(* Mutant: a saved query keeps the stamp. *)
BeginSaveStamped(r) ==
  /\ req[r].at = "new"
  /\ \E q \in Queries :
       /\ md' = [md EXCEPT !.query = q]
       /\ req' = Crossing(r, [Started("save") EXCEPT !.at = "saved"], WalksOf(Queries \ {q}))
  /\ UNCHANGED <<agent, conn, cache, switches>>
(* save, of a query: the definition and the sync state in one statement, the *)
(* rows in the next (BeginDelete).                                           *)
BeginSave(r) ==
  /\ req[r].at = "new"
  /\ \E q \in Queries :
       /\ md' = [md EXCEPT !.query = q, !.synced = FALSE]
       /\ req' = Crossing(r, [Started("save") EXCEPT !.at = "saved"], WalksOf(Queries \ {q}))
  /\ UNCHANGED <<agent, conn, cache, switches>>

(* Any other failure, or the server stopping: open transactions roll back.   *)
Fail(r) ==
  /\ req[r].at \notin {"new", "done"}
  /\ End(r)
  /\ UNCHANGED <<agent, conn, md, cache, switches>>

(* What a begun request does once the others let it. *)
Advance(r) ==
  \/ Connect(r) \/ BeginDelete(r) \/ DeleteRows(r) \/ DeleteSaved(r) \/ InsertPage(r)
  \/ CommitSync(r) \/ Stamp(r) \/ AskCurrency(r) \/ WriteCurrency(r) \/ RefusedByAgent(r)
  \/ AdoptNothing(r) \/ LockConn(r) \/ Adopt(r)
Begin(r) == BeginSync(r) \/ BeginCurrency(r) \/ BeginStatus(r) \/ BeginSave(r)

Next == SwitchCompany \/ \E r \in Requests : Begin(r) \/ Advance(r) \/ Fail(r)
Spec == Init /\ [][Next]_vars
(* A started handler runs on, and PostgreSQL grants a lock that is free.     *)
FairSpec == Spec /\ \A r \in Requests : WF_vars(Advance(r))
-----------------------------------------------------------------------------
(* What the columns and a request may hold. *)
TypeOK ==
  /\ agent \in Companies /\ switches \in 0..MaxSwitches
  /\ conn \in Connections /\ md \in Definitions
  /\ cache \in Answers \cup {None} /\ req \in [Requests -> RequestRecords]

(* Where the stamp says fresh the rows are there and answer the saved query  *)
(* in the company Confire is in, whatever walks, saves and switches overlap  *)
(* (routers/masterdata.ts:129-131; b1.ts:36-39).  What the code does let     *)
(* happen is named: rows, or a stamp, of a walk under which another company  *)
(* was adopted or another query saved; and no rows, where the DELETE that    *)
(* ends a save took what a walk had put in, before or after its stamp.       *)
FreshIsRight ==
  (md.synced /\ ~md.crossed) =>
    IF cache = None THEN md.emptied
    ELSE cache.crossed \/ (cache.company = conn.company /\ cache.query = md.query)

(* A known currency is the connected company's, unless another company was   *)
(* adopted while the read that wrote it was under way (b1.ts:88-118).        *)
CurrencyIsCompanys ==
  (conn.currency # None /\ ~conn.crossed) => conn.currency = conn.company

(* At most one transaction holds the deleted rows, and they are the          *)
(* committed ones: two walks never both replace the same rows.               *)
OneHolder ==
  \A r, q \in Requests : (req[r].held # None /\ req[q].held # None) => r = q /\ req[r].held = cache

(* A sync refused by the agent after it deleted rows. *)
HoldsWhileAdopting(r) == req[r].held # None /\ req[r].at \in {"told", "adopting"}

(* Every request that began ends, or waits on a sync that was refused inside *)
(* its own transaction: no other order of locks leaves two waiting.          *)
EndsOrHangs == \A r \in Requests :
  req[r].at # "new" ~> (req[r].at = "done" \/ \E q \in Requests : HoldsWhileAdopting(q))

(* Every request that began ends.  ensureFresh promises its caller, who does *)
(* not wait, that it "never blocks" (masterdata-sync.ts:80); the walk it     *)
(* starts must end too, since others wait for the rows it holds.             *)
NeverBlocks == \A r \in Requests : req[r].at # "new" ~> req[r].at = "done"
=============================================================================
