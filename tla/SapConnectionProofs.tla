------------------------ MODULE SapConnectionProofs -------------------------
(***************************************************************************)
(* Theorems about SapConnection, for any companies, queries, requests and  *)
(* switches.  What a request carries is what the connection and the saved  *)
(* query still are, as long as nothing has crossed it;                     *)
(* that is what makes the stamp and the currency it writes right.          *)
(***************************************************************************)
EXTENDS SapConnection, TLAPS

Walks(x) == \/ x.at \in {"begun", "deleted", "inserted", "filled"}
            \/ x.at = "deleting" /\ x.kind = "sync"
\* What a request's stage says of the rest of it.
Shaped(x) ==
  /\ x.at \in {"told", "adopting", "asking", "got"} \/ Walks(x) => x.company \in Companies
  /\ x.kind = "sync" /\ x.at \notin {"new", "done"} => x.query \in Queries
  /\ Walks(x) => x.kind = "sync"
  /\ x.at = "saved" => x.kind = "save"
Shape == \A r \in Requests : Shaped(req[r])

-----------------------------------------------------------------------------
(* The types *)

\* Requests that have not begun, have begun, and have ended.
LEMMA IdleTypes ==
  /\ Idle \in RequestRecords /\ Ended \in RequestRecords
  /\ Idle.at = "new" /\ Ended.at = "done" /\ Ended.kind = "none"
  /\ Idle.held = None /\ ~Idle.put /\ Ended.held = None /\ ~Ended.put
  BY DEF Idle, Ended, RequestRecords, Kinds, Stages

\* What the variables hold.
LEMMA Fields ==
  ASSUME TypeOK
  PROVE  /\ \A r \in Requests : req[r] \in RequestRecords
         /\ conn.company \in Companies /\ conn.currency \in Companies \cup {None}
         /\ conn.crossed \in BOOLEAN
         /\ md.query \in Queries /\ md.synced \in BOOLEAN /\ md.crossed \in BOOLEAN
         /\ md.emptied \in BOOLEAN
  BY DEF TypeOK, Connections, Definitions

\* A step of r alone.
LEMMA OneType ==
  ASSUME TypeOK, Shape, NEW r \in Requests, NEW x \in RequestRecords, Shaped(x),
         req' = [req EXCEPT ![r] = x]
  PROVE  /\ req' \in [Requests -> RequestRecords] /\ Shape'
         /\ req'[r] = x /\ \A q \in Requests \ {r} : req'[q] = req[q]
  <1>1. /\ req' \in [Requests -> RequestRecords]
        /\ req'[r] = x /\ \A q \in Requests \ {r} : req'[q] = req[q]
    BY DEF TypeOK
  <1>2. Shape'
    BY <1>1 DEF Shape, Shaped, Walks
  <1> QED BY <1>1, <1>2

\* A step of r that crosses the others.
LEMMA CrossType ==
  ASSUME TypeOK, Shape, NEW r \in Requests, NEW x \in RequestRecords, Shaped(x),
         NEW others, req' = Crossing(r, x, others)
  PROVE  /\ req' \in [Requests -> RequestRecords] /\ Shape'
         /\ req'[r] = x
         /\ \A q \in Requests \ {r} :
              /\ req'[q].kind = req[q].kind /\ req'[q].at = req[q].at
              /\ req'[q].company = req[q].company /\ req'[q].query = req[q].query
              /\ req'[q].seen = req[q].seen /\ req'[q].held = req[q].held
              /\ req'[q].put = req[q].put
              /\ req'[q].crossed = (req[q].crossed \/ q \in others)
  <1>0. req'[r] = x
    BY DEF Crossing
  <1>1. ASSUME NEW q \in Requests \ {r}
        PROVE  /\ req'[q] \in RequestRecords
               /\ req'[q].kind = req[q].kind /\ req'[q].at = req[q].at
               /\ req'[q].company = req[q].company /\ req'[q].query = req[q].query
               /\ req'[q].seen = req[q].seen /\ req'[q].held = req[q].held
               /\ req'[q].put = req[q].put
               /\ req'[q].crossed = (req[q].crossed \/ q \in others)
    <2> DEFINE b == req[q].crossed \/ q \in others
    <2>1. req'[q] = [req[q] EXCEPT !.crossed = b]
      BY <1>1 DEF Crossing
    <2>2. req[q] \in RequestRecords
      BY <1>1, Fields
    <2>3. b \in BOOLEAN
      OBVIOUS
    <2>4. /\ req'[q] \in RequestRecords /\ req'[q].crossed = b
          /\ req'[q].kind = req[q].kind /\ req'[q].at = req[q].at
          /\ req'[q].company = req[q].company /\ req'[q].query = req[q].query
          /\ req'[q].seen = req[q].seen /\ req'[q].held = req[q].held
          /\ req'[q].put = req[q].put
      <3> HIDE DEF b
      <3> QED BY <2>1, <2>2, <2>3 DEF RequestRecords
    <2> QED BY <2>4
  <1>2. req' \in [Requests -> RequestRecords]
    <2>1. req' = [q \in Requests |-> req'[q]]
      BY DEF Crossing
    <2> QED BY <2>1, <1>0, <1>1
  <1>3. Shape'
    <2> SUFFICES ASSUME NEW q \in Requests PROVE Shaped(req'[q])
      BY DEF Shape, Shaped, Walks
    <2>1. CASE q = r
      BY <2>1, <1>0
    <2>2. CASE q # r
      BY <2>2, <1>1 DEF Shape, Shaped, Walks
    <2> QED BY <2>1, <2>2
  <1> QED BY <1>0, <1>1, <1>2, <1>3

\* At the start nothing is known and nobody has asked.
LEMMA InitType == Init => TypeOK /\ Shape
  <1> SUFFICES ASSUME Init PROVE TypeOK /\ Shape
    OBVIOUS
  <1>1. conn \in Connections /\ md \in Definitions /\ agent \in Companies
    BY DEF Init, Connections, Definitions
  <1>2. req \in [Requests -> RequestRecords] /\ \A r \in Requests : req[r] = Idle
    BY IdleTypes DEF Init
  <1>3. Shape
    BY <1>2 DEF Shape, Shaped, Walks, Idle
  <1> QED
    BY <1>1, <1>2, <1>3, ConnectionAssumption DEF Init, TypeOK

-----------------------------------------------------------------------------
(* One step at a time *)

\* A sync starts with the query there is.
LEMMA BeginSyncTypes ==
  ASSUME TypeOK, Shape, NEW r \in Requests, BeginSync(r)
  PROVE  TypeOK' /\ Shape'
  <1> DEFINE x == [Started("sync") EXCEPT !.at = "connecting", !.query = md.query]
  <1>1. req' = [req EXCEPT ![r] = x]
    BY DEF TypeOK, BeginSync
  <1>2. req[r] \in RequestRecords /\ Shaped(req[r])
    BY Fields DEF Shape
  <1>3. x \in RequestRecords
    BY Fields DEF RequestRecords, Kinds, Stages, Started, Idle
  <1>4. Shaped(x)
    BY <1>2, Fields DEF Shaped, Walks, Started, Idle
  <1> HIDE DEF x
  <1>5. req' \in [Requests -> RequestRecords] /\ Shape'
    BY <1>1, <1>3, <1>4, OneType
  <1> QED
    BY <1>5 DEF BeginSync, TypeOK

\* A currency read starts.
LEMMA BeginCurrencyTypes ==
  ASSUME TypeOK, Shape, NEW r \in Requests, BeginCurrency(r)
  PROVE  TypeOK' /\ Shape'
  <1> DEFINE x == [Started("currency") EXCEPT !.at = "connecting"]
  <1>1. req' = [req EXCEPT ![r] = x]
    BY DEF TypeOK, BeginCurrency
  <1>2. req[r] \in RequestRecords /\ Shaped(req[r])
    BY Fields DEF Shape
  <1>3. x \in RequestRecords
    BY DEF RequestRecords, Kinds, Stages, Started, Idle
  <1>4. Shaped(x)
    BY DEF Shaped, Walks, Started, Idle
  <1> HIDE DEF x
  <1>5. req' \in [Requests -> RequestRecords] /\ Shape'
    BY <1>1, <1>3, <1>4, OneType
  <1> QED
    BY <1>5 DEF BeginCurrency, TypeOK

\* A status poll starts with the company the agent names.
LEMMA BeginStatusTypes ==
  ASSUME TypeOK, Shape, NEW r \in Requests, BeginStatus(r)
  PROVE  TypeOK' /\ Shape'
  <1> DEFINE x == [Started("status") EXCEPT !.at = "told", !.company = agent]
  <1>1. req' = [req EXCEPT ![r] = x]
    BY DEF TypeOK, BeginStatus
  <1>2. req[r] \in RequestRecords /\ Shaped(req[r])
    BY Fields DEF Shape
  <1>3. x \in RequestRecords
    BY Fields DEF TypeOK, RequestRecords, Kinds, Stages, Started, Idle
  <1>4. Shaped(x)
    BY <1>2, Fields DEF TypeOK, Shaped, Walks, Started, Idle
  <1> HIDE DEF x
  <1>5. req' \in [Requests -> RequestRecords] /\ Shape'
    BY <1>1, <1>3, <1>4, OneType
  <1> QED
    BY <1>5 DEF BeginStatus, TypeOK

\* A connector is built for the connection there is.
LEMMA ConnectTypes ==
  ASSUME TypeOK, Shape, NEW r \in Requests, Connect(r)
  PROVE  TypeOK' /\ Shape'
  <1> DEFINE x == [req[r] EXCEPT !.company = conn.company,
                              !.at = IF req[r].kind = "sync" THEN "begun" ELSE "asking"]
  <1>1. req' = [req EXCEPT ![r] = x]
    BY DEF TypeOK, Connect
  <1>2. req[r] \in RequestRecords /\ Shaped(req[r])
    BY Fields DEF Shape
  <1>4. x \in RequestRecords
    <2> DEFINE a == IF req[r].kind = "sync" THEN "begun" ELSE "asking"
    <2>1. a \in Stages
      BY DEF Stages
    <2>2. x = [req[r] EXCEPT !.company = conn.company, !.at = a]
      OBVIOUS
    <2> HIDE DEF a, x
    <2> QED
      BY <1>2, <2>1, <2>2, Fields DEF RequestRecords
  <1>5. Shaped(x)
    BY <1>2, Fields DEF Connect, RequestRecords, Shaped, Walks
  <1> HIDE DEF x
  <1>6. req' \in [Requests -> RequestRecords] /\ Shape'
    BY <1>1, <1>4, <1>5, OneType
  <1> QED
    BY <1>6 DEF Connect, TypeOK

\* A DELETE begins.
LEMMA BeginDeleteTypes ==
  ASSUME TypeOK, Shape, NEW r \in Requests, BeginDelete(r)
  PROVE  TypeOK' /\ Shape'
  <1> DEFINE x == [req[r] EXCEPT !.at = "deleting", !.seen = cache]
  <1>1. req' = [req EXCEPT ![r] = x]
    BY DEF TypeOK, BeginDelete
  <1>2. req[r] \in RequestRecords /\ Shaped(req[r])
    BY Fields DEF Shape
  <1>3. x \in RequestRecords
    BY <1>2 DEF TypeOK, RequestRecords, Kinds, Stages
  <1>4. Shaped(x)
    BY <1>2 DEF BeginDelete, RequestRecords, Shaped, Walks
  <1> HIDE DEF x
  <1>5. req' \in [Requests -> RequestRecords] /\ Shape'
    BY <1>1, <1>3, <1>4, OneType
  <1> QED
    BY <1>5 DEF BeginDelete, TypeOK

\* A sync deletes the rows.
LEMMA DeleteRowsTypes ==
  ASSUME TypeOK, Shape, NEW r \in Requests, DeleteRows(r)
  PROVE  TypeOK' /\ Shape'
  <1> DEFINE x == [req[r] EXCEPT !.at = "deleted",
                              !.held = IF cache = req[r].seen THEN cache ELSE None]
  <1>1. req' = [req EXCEPT ![r] = x]
    BY DEF TypeOK, DeleteRows
  <1>2. req[r] \in RequestRecords /\ Shaped(req[r])
    BY Fields DEF Shape
  <1>3. x \in RequestRecords
    BY <1>2 DEF TypeOK, RequestRecords, Kinds, Stages
  <1>4. Shaped(x)
    BY <1>2 DEF DeleteRows, RequestRecords, Shaped, Walks
  <1> HIDE DEF x
  <1>5. req' \in [Requests -> RequestRecords] /\ Shape'
    BY <1>1, <1>3, <1>4, OneType
  <1> QED
    BY <1>5 DEF DeleteRows, TypeOK

\* A sync inserts a page, or fails on the rows of another.
LEMMA InsertPageTypes ==
  ASSUME TypeOK, Shape, NEW r \in Requests, InsertPage(r)
  PROVE  TypeOK' /\ Shape'
  <1> DEFINE x == IF cache = req[r].held
                  THEN [req[r] EXCEPT !.at = "inserted", !.put = TRUE] ELSE Ended
  <1>1. req' = [req EXCEPT ![r] = x]
    BY DEF TypeOK, InsertPage
  <1>2. req[r] \in RequestRecords /\ Shaped(req[r])
    BY Fields DEF Shape
  <1>3. x \in RequestRecords
    BY <1>2, IdleTypes DEF TypeOK, RequestRecords, Kinds, Stages
  <1>4. Shaped(x)
    BY <1>2, IdleTypes DEF InsertPage, RequestRecords, Shaped, Walks
  <1> HIDE DEF x
  <1>5. req' \in [Requests -> RequestRecords] /\ Shape'
    BY <1>1, <1>3, <1>4, OneType
  <1> QED
    BY <1>5 DEF InsertPage, TypeOK

\* A sync commits its rows.
LEMMA CommitSyncTypes ==
  ASSUME TypeOK, Shape, NEW r \in Requests, CommitSync(r)
  PROVE  TypeOK' /\ Shape'
  <1> DEFINE x == [req[r] EXCEPT !.at = "filled", !.held = None, !.put = FALSE]
  <1>1. req' = [req EXCEPT ![r] = x]
    BY DEF TypeOK, CommitSync
  <1>2. req[r] \in RequestRecords /\ Shaped(req[r])
    BY Fields DEF Shape
  <1>3. x \in RequestRecords
    BY <1>2 DEF TypeOK, RequestRecords, Kinds, Stages
  <1>4. Shaped(x)
    BY <1>2 DEF CommitSync, RequestRecords, Shaped, Walks
  <1> HIDE DEF x
  <1>5. req' \in [Requests -> RequestRecords] /\ Shape'
    BY <1>1, <1>3, <1>4, OneType
  <1>6. cache' \in Answers
    BY <1>2, Fields DEF CommitSync, Shaped, Walks, RequestRecords, Answers
  <1>7. md' \in Definitions
    BY Fields DEF CommitSync, TypeOK, Definitions
  <1> QED
    BY <1>5, <1>6, <1>7 DEF CommitSync, TypeOK

\* A sync stamps them.
LEMMA StampTypes ==
  ASSUME TypeOK, Shape, NEW r \in Requests, Stamp(r)
  PROVE  TypeOK' /\ Shape'
  <1> DEFINE x == Ended
  <1>1. req' = [req EXCEPT ![r] = x]
    BY DEF TypeOK, Stamp, End
  <1>2. req[r] \in RequestRecords /\ Shaped(req[r])
    BY Fields DEF Shape
  <1>3. x \in RequestRecords
    BY IdleTypes
  <1>4. Shaped(x)
    BY IdleTypes DEF Shaped, Walks
  <1> HIDE DEF x
  <1>5. req' \in [Requests -> RequestRecords] /\ Shape'
    BY <1>1, <1>3, <1>4, OneType
  <1>6. md' \in Definitions
    BY <1>2, Fields DEF Stamp, TypeOK, Definitions, RequestRecords
  <1> QED
    BY <1>5, <1>6 DEF Stamp, TypeOK

\* The agent answers with its company.
LEMMA AskCurrencyTypes ==
  ASSUME TypeOK, Shape, NEW r \in Requests, AskCurrency(r)
  PROVE  TypeOK' /\ Shape'
  <1> DEFINE x == [req[r] EXCEPT !.at = "got"]
  <1>1. req' = [req EXCEPT ![r] = x]
    BY DEF TypeOK, AskCurrency, Step
  <1>2. req[r] \in RequestRecords /\ Shaped(req[r])
    BY Fields DEF Shape
  <1>3. x \in RequestRecords
    BY <1>2 DEF RequestRecords, Kinds, Stages
  <1>4. Shaped(x)
    BY <1>2 DEF AskCurrency, RequestRecords, Shaped, Walks
  <1> HIDE DEF x
  <1>5. req' \in [Requests -> RequestRecords] /\ Shape'
    BY <1>1, <1>3, <1>4, OneType
  <1> QED
    BY <1>5 DEF AskCurrency, TypeOK

\* The currency is written.
LEMMA WriteCurrencyTypes ==
  ASSUME TypeOK, Shape, NEW r \in Requests, WriteCurrency(r)
  PROVE  TypeOK' /\ Shape'
  <1> DEFINE x == Ended
  <1>1. req' = [req EXCEPT ![r] = x]
    BY DEF TypeOK, WriteCurrency, End
  <1>2. req[r] \in RequestRecords /\ Shaped(req[r])
    BY Fields DEF Shape
  <1>3. x \in RequestRecords
    BY IdleTypes
  <1>4. Shaped(x)
    BY IdleTypes DEF Shaped, Walks
  <1> HIDE DEF x
  <1>5. req' \in [Requests -> RequestRecords] /\ Shape'
    BY <1>1, <1>3, <1>4, OneType
  <1>6. conn' \in Connections
    BY <1>2, Fields DEF WriteCurrency, Shaped, TypeOK, Connections, RequestRecords
  <1> QED
    BY <1>5, <1>6 DEF WriteCurrency, TypeOK

\* The agent names the company it serves.
LEMMA RefusedByAgentTypes ==
  ASSUME TypeOK, Shape, NEW r \in Requests, RefusedByAgent(r)
  PROVE  TypeOK' /\ Shape'
  <1> DEFINE x == [req[r] EXCEPT !.at = "told", !.company = agent]
  <1>1. req' = [req EXCEPT ![r] = x]
    BY DEF TypeOK, RefusedByAgent
  <1>2. req[r] \in RequestRecords /\ Shaped(req[r])
    BY Fields DEF Shape
  <1>3. x \in RequestRecords
    BY <1>2 DEF TypeOK, RequestRecords, Kinds, Stages
  <1>4. Shaped(x)
    BY <1>2 DEF RefusedByAgent, TypeOK, RequestRecords, Shaped, Walks
  <1> HIDE DEF x
  <1>5. req' \in [Requests -> RequestRecords] /\ Shape'
    BY <1>1, <1>3, <1>4, OneType
  <1> QED
    BY <1>5 DEF RefusedByAgent, TypeOK

\* There is nothing to adopt.
LEMMA AdoptNothingTypes ==
  ASSUME TypeOK, Shape, NEW r \in Requests, AdoptNothing(r)
  PROVE  TypeOK' /\ Shape'
  <1> DEFINE x == Next409(r)
  <1>1. req' = [req EXCEPT ![r] = x]
    BY DEF TypeOK, AdoptNothing
  <1>2. req[r] \in RequestRecords /\ Shaped(req[r])
    BY Fields DEF Shape
  <1>3. x \in RequestRecords
    BY <1>2, IdleTypes DEF Next409, RequestRecords, Kinds, Stages
  <1>4. Shaped(x)
    BY <1>2, IdleTypes DEF Next409, AdoptNothing, RequestRecords, Shaped, Walks
  <1> HIDE DEF x
  <1>5. req' \in [Requests -> RequestRecords] /\ Shape'
    BY <1>1, <1>3, <1>4, OneType
  <1> QED
    BY <1>5 DEF AdoptNothing, TypeOK

\* An adoption takes the connection.
LEMMA LockConnTypes ==
  ASSUME TypeOK, Shape, NEW r \in Requests, LockConn(r)
  PROVE  TypeOK' /\ Shape'
  <1> DEFINE x == [req[r] EXCEPT !.at = "adopting", !.seen = cache]
  <1>1. req' = [req EXCEPT ![r] = x]
    BY DEF TypeOK, LockConn
  <1>2. req[r] \in RequestRecords /\ Shaped(req[r])
    BY Fields DEF Shape
  <1>3. x \in RequestRecords
    BY <1>2 DEF TypeOK, RequestRecords, Kinds, Stages
  <1>4. Shaped(x)
    BY <1>2 DEF LockConn, RequestRecords, Shaped, Walks
  <1> HIDE DEF x
  <1>5. req' \in [Requests -> RequestRecords] /\ Shape'
    BY <1>1, <1>3, <1>4, OneType
  <1> QED
    BY <1>5 DEF LockConn, TypeOK

\* A request fails.
LEMMA FailTypes ==
  ASSUME TypeOK, Shape, NEW r \in Requests, Fail(r)
  PROVE  TypeOK' /\ Shape'
  <1> DEFINE x == Ended
  <1>1. req' = [req EXCEPT ![r] = x]
    BY DEF TypeOK, Fail, End
  <1>2. req[r] \in RequestRecords /\ Shaped(req[r])
    BY Fields DEF Shape
  <1>3. x \in RequestRecords
    BY IdleTypes
  <1>4. Shaped(x)
    BY IdleTypes DEF Shaped, Walks
  <1> HIDE DEF x
  <1>5. req' \in [Requests -> RequestRecords] /\ Shape'
    BY <1>1, <1>3, <1>4, OneType
  <1> QED
    BY <1>5 DEF Fail, TypeOK

\* The saved query's rows go.
LEMMA DeleteSavedTypes ==
  ASSUME TypeOK, Shape, NEW r \in Requests, DeleteSaved(r)
  PROVE  TypeOK' /\ Shape'
  <1>1. req' \in [Requests -> RequestRecords] /\ Shape'
    <2>1. Ended \in RequestRecords /\ Shaped(Ended)
      BY IdleTypes DEF Shaped, Walks
    <2> QED
      BY <2>1, OneType DEF DeleteSaved, End
  <1>2. md' \in Definitions
    <2> DEFINE e == md.emptied \/ Remaining(r) = None
    <2>1. md' = [md EXCEPT !.emptied = e] /\ e \in BOOLEAN
      BY DEF DeleteSaved
    <2> HIDE DEF e
    <2> QED
      BY <2>1 DEF TypeOK, Definitions
  <1>3. cache' \in Answers \cup {None}
    BY DEF DeleteSaved, Remaining, TypeOK
  <1> QED
    BY <1>1, <1>2, <1>3 DEF DeleteSaved, TypeOK

\* An adoption commits.
LEMMA AdoptTypes ==
  ASSUME TypeOK, Shape, NEW r \in Requests, Adopt(r)
  PROVE  TypeOK' /\ Shape'
  <1>1. req' \in [Requests -> RequestRecords] /\ Shape'
    <2>1. req[r] \in RequestRecords
      BY Fields
    <2>2. Next409(r) \in RequestRecords
      BY <2>1, IdleTypes DEF Next409, RequestRecords, Kinds, Stages
    <2>3. Shaped(Next409(r))
      BY <2>1, IdleTypes DEF Next409, RequestRecords, Shaped, Walks
    <2>4. req' = Crossing(r, Next409(r), Built)
      BY DEF Adopt
    <2> HIDE DEF Next409
    <2> QED
      BY <2>2, <2>3, <2>4, CrossType
  <1>2. conn' \in Connections
    <2>1. req[r].company \in Companies
      BY DEF Adopt, Shape, Shaped
    <2> QED
      BY <2>1 DEF Adopt, Connections
  <1>3. md' \in Definitions
    BY Fields DEF Adopt, TypeOK, Definitions
  <1>4. cache' \in Answers \cup {None}
    BY DEF Adopt, Remaining, TypeOK
  <1> QED
    BY <1>1, <1>2, <1>3, <1>4 DEF Adopt, TypeOK

\* A query is saved.
LEMMA BeginSaveTypes ==
  ASSUME TypeOK, Shape, NEW r \in Requests, BeginSave(r)
  PROVE  TypeOK' /\ Shape'
  <1>1. req' \in [Requests -> RequestRecords] /\ Shape'
    <2> DEFINE x == [Started("save") EXCEPT !.at = "saved"]
    <2>1. x \in RequestRecords /\ Shaped(x)
      BY DEF RequestRecords, Kinds, Stages, Started, Idle, Shaped, Walks
    <2>2. PICK q \in Queries : req' = Crossing(r, x, WalksOf(Queries \ {q}))
      BY DEF BeginSave
    <2> HIDE DEF x
    <2> QED
      BY <2>1, <2>2, CrossType
  <1>2. md' \in Definitions
    BY Fields DEF BeginSave, TypeOK, Definitions
  <1> QED
    BY <1>1, <1>2 DEF BeginSave, TypeOK

\* Every step keeps the types.
LEMMA NextType == TypeOK /\ Shape /\ [Next]_vars => TypeOK' /\ Shape'
  <1> SUFFICES ASSUME TypeOK, Shape, [Next]_vars PROVE TypeOK' /\ Shape'
    OBVIOUS
  <1>1. CASE SwitchCompany
    BY <1>1, ConnectionAssumption DEF SwitchCompany, TypeOK, Shape, Shaped, Walks
  <1>2. ASSUME NEW r \in Requests, Begin(r) PROVE TypeOK' /\ Shape'
    BY <1>2, BeginSyncTypes, BeginCurrencyTypes, BeginStatusTypes, BeginSaveTypes DEF Begin
  <1>3. ASSUME NEW r \in Requests, Advance(r) PROVE TypeOK' /\ Shape'
    BY <1>3, ConnectTypes, BeginDeleteTypes, DeleteRowsTypes, DeleteSavedTypes, InsertPageTypes,
       CommitSyncTypes, StampTypes, AskCurrencyTypes, WriteCurrencyTypes, RefusedByAgentTypes,
       AdoptNothingTypes, LockConnTypes, AdoptTypes DEF Advance
  <1>4. ASSUME NEW r \in Requests, Fail(r) PROVE TypeOK' /\ Shape'
    BY <1>4, FailTypes
  <1>5. CASE UNCHANGED vars
    BY <1>5 DEF vars, TypeOK, Shape, Shaped, Walks
  <1> QED
    BY <1>1, <1>2, <1>3, <1>4, <1>5 DEF Next

(* Every reachable state is well-formed, and a request's stage says what it  *)
(* carries, for any companies, queries and requests.                         *)
THEOREM TypeCorrect == Spec => []TypeOK
  <1>1. Init => TypeOK /\ Shape
    BY InitType
  <1>2. TypeOK /\ Shape /\ [Next]_vars => (TypeOK /\ Shape)'
    BY NextType
  <1> QED
    BY <1>1, <1>2, PTL DEF Spec

-----------------------------------------------------------------------------
(* What is fresh *)

\* The rows there are answer the saved query in the connected company, unless
\* a walk that was crossed wrote them; and there are rows, unless a save's
\* DELETE took them.
Right == IF cache = None THEN md.emptied
         ELSE cache.crossed \/ (cache.company = conn.company /\ cache.query = md.query)
\* What a request carries is still so while nothing has crossed it.
Mine(x) ==
  ~x.crossed => /\ Walks(x) => x.company = conn.company
                /\ Walks(x) \/ (x.at = "connecting" /\ x.kind = "sync") => x.query = md.query
                /\ x.at \in {"asking", "got"} => x.company = conn.company
                /\ x.at = "filled" => Right
Known == /\ md.synced /\ ~md.crossed => Right
         /\ CurrencyIsCompanys
         /\ \A r \in Requests : Mine(req[r])

\* A step that writes to no table.
LEMMA Quiet ==
  ASSUME TypeOK, Known, NEW r \in Requests, NEW x, Mine(x),
         req' = [req EXCEPT ![r] = x], UNCHANGED <<conn, md, cache>>
  PROVE  Known'
  <1>1. Right' <=> Right
    BY DEF Right
  <1>2. ASSUME NEW q \in Requests PROVE Mine(req[q])'
    <2>1. CASE q = r
      <3>1. req'[q] = x
        BY <2>1 DEF TypeOK
      <3> QED
        BY <3>1, <1>1 DEF Mine, Walks
    <2>2. CASE q # r
      <3>1. req'[q] = req[q]
        BY <2>2 DEF TypeOK
      <3> QED
        BY <3>1, <1>1 DEF Known, Mine, Walks
    <2> QED
      BY <2>1, <2>2
  <1> QED
    BY <1>1, <1>2 DEF Known, CurrencyIsCompanys

\* An adoption crosses whatever was built for the company before.
LEMMA AdoptCrosses ==
  ASSUME TypeOK, Shape, Known, NEW r \in Requests, NEW x \in RequestRecords, Shaped(x),
         x.at = "done" \/ (x.at = "connecting" /\ x.kind = "status"),
         req' = Crossing(r, x, Built), md'.query = md.query
  PROVE  \A q \in Requests : Mine(req[q])'
  <1> SUFFICES ASSUME NEW q \in Requests PROVE Mine(req[q])'
    OBVIOUS
  <1>1. CASE q = r
    <2>1. req'[q] = x
      BY <1>1, CrossType
    <2> QED
      BY <2>1 DEF Mine, Walks
  <1>2. CASE q # r
    <2>1. /\ req'[q].at = req[q].at /\ req'[q].kind = req[q].kind
          /\ req'[q].query = req[q].query
          /\ req'[q].crossed = (req[q].crossed \/ q \in Built)
      BY <1>2, CrossType
    <2>2. Mine(req[q])
      BY DEF Known
    <2> QED
      BY <2>1, <2>2 DEF Mine, Walks, Built
  <1> QED BY <1>1, <1>2

\* A save crosses the walks of another query than the one it saves; to those
\* it leaves uncrossed nothing has changed.
LEMMA SaveCrosses ==
  ASSUME TypeOK, Shape, Known, NEW r \in Requests, NEW x \in RequestRecords, Shaped(x),
         x.at = "saved", NEW new \in Queries, md'.query = new, md'.emptied = md.emptied,
         NEW others, req' = Crossing(r, x, others),
         WalksOf(Queries \ {new}) \subseteq others, UNCHANGED <<conn, cache>>
  PROVE  \A q \in Requests : Mine(req[q])'
  <1>0. /\ req'[r] = x
        /\ \A q \in Requests \ {r} :
             /\ req'[q].at = req[q].at /\ req'[q].kind = req[q].kind
             /\ req'[q].company = req[q].company /\ req'[q].query = req[q].query
             /\ req'[q].crossed = (req[q].crossed \/ q \in others)
    BY CrossType
  <1> SUFFICES ASSUME NEW q \in Requests PROVE Mine(req[q])'
    OBVIOUS
  <1>1. CASE q = r
    <2>1. req'[q] = x
      BY <1>0, <1>1
    <2> QED
      BY <2>1 DEF Mine, Walks
  <1>2. CASE q # r
    <2>1. /\ req'[q].at = req[q].at /\ req'[q].kind = req[q].kind
          /\ req'[q].company = req[q].company /\ req'[q].query = req[q].query
          /\ req'[q].crossed = (req[q].crossed \/ q \in others)
      BY <1>0, <1>2
    <2>2. Mine(req[q]) /\ Shaped(req[q])
      BY DEF Known, Shape
    <2>3. ASSUME ~req'[q].crossed, Walks(req[q]) \/ (req[q].at = "connecting" /\ req[q].kind = "sync")
          PROVE  req[q].query = new /\ md.query = new
      BY <2>1, <2>2, <2>3 DEF Mine, Shaped, Walks, WalksOf
    <2>4. ASSUME ~req'[q].crossed, req[q].at = "filled" PROVE Right'
      BY <2>1, <2>2, <2>3, <2>4 DEF Mine, Right, Walks
    <2> QED
      BY <2>1, <2>2, <2>3, <2>4 DEF Mine, Walks
  <1> QED BY <1>1, <1>2

\* A sync starts with the query there is.
LEMMA BeginSyncKnows ==
  ASSUME TypeOK, Shape, Known, NEW r \in Requests, BeginSync(r)
  PROVE  Known'
  <1> DEFINE x == [Started("sync") EXCEPT !.at = "connecting", !.query = md.query]
  <1>1. req' = [req EXCEPT ![r] = x]
    BY DEF TypeOK, BeginSync
  <1>2. req[r] \in RequestRecords /\ Mine(req[r]) /\ Shaped(req[r])
    BY Fields DEF Known, Shape
  <1>3. Mine(x)
    BY DEF Mine, Walks, Started, Idle
  <1> HIDE DEF x
  <1> QED
    BY <1>1, <1>3, Quiet DEF BeginSync

\* A currency read starts.
LEMMA BeginCurrencyKnows ==
  ASSUME TypeOK, Shape, Known, NEW r \in Requests, BeginCurrency(r)
  PROVE  Known'
  <1> DEFINE x == [Started("currency") EXCEPT !.at = "connecting"]
  <1>1. req' = [req EXCEPT ![r] = x]
    BY DEF TypeOK, BeginCurrency
  <1>2. req[r] \in RequestRecords /\ Mine(req[r]) /\ Shaped(req[r])
    BY Fields DEF Known, Shape
  <1>3. Mine(x)
    BY DEF Mine, Walks, Started, Idle
  <1> HIDE DEF x
  <1> QED
    BY <1>1, <1>3, Quiet DEF BeginCurrency

\* A status poll starts with the company the agent names.
LEMMA BeginStatusKnows ==
  ASSUME TypeOK, Shape, Known, NEW r \in Requests, BeginStatus(r)
  PROVE  Known'
  <1> DEFINE x == [Started("status") EXCEPT !.at = "told", !.company = agent]
  <1>1. req' = [req EXCEPT ![r] = x]
    BY DEF TypeOK, BeginStatus
  <1>2. req[r] \in RequestRecords /\ Mine(req[r]) /\ Shaped(req[r])
    BY Fields DEF Known, Shape
  <1>3. Mine(x)
    BY DEF Mine, Walks, Started, Idle
  <1> HIDE DEF x
  <1> QED
    BY <1>1, <1>3, Quiet DEF BeginStatus

\* A connector is built: what it knows starts here.
LEMMA ConnectKnows ==
  ASSUME TypeOK, Shape, Known, NEW r \in Requests, Connect(r)
  PROVE  Known'
  <1> DEFINE x == [req[r] EXCEPT !.company = conn.company,
                              !.at = IF req[r].kind = "sync" THEN "begun" ELSE "asking"]
  <1>1. req' = [req EXCEPT ![r] = x]
    BY DEF TypeOK, Connect
  <1>2. req[r] \in RequestRecords /\ Mine(req[r])
    BY Fields DEF Known
  <1>3. Mine(x)
    <2>1. CASE req[r].kind = "sync"
      BY <1>2, <2>1 DEF Connect, RequestRecords, Mine, Walks
    <2>2. CASE req[r].kind # "sync"
      BY <1>2, <2>2 DEF Connect, RequestRecords, Mine, Walks
    <2> QED
      BY <2>1, <2>2
  <1> HIDE DEF x
  <1> QED
    BY <1>1, <1>3, Quiet DEF Connect

\* A DELETE begins.
LEMMA BeginDeleteKnows ==
  ASSUME TypeOK, Shape, Known, NEW r \in Requests, BeginDelete(r)
  PROVE  Known'
  <1> DEFINE x == [req[r] EXCEPT !.at = "deleting", !.seen = cache]
  <1>1. req' = [req EXCEPT ![r] = x]
    BY DEF TypeOK, BeginDelete
  <1>2. req[r] \in RequestRecords /\ Mine(req[r]) /\ Shaped(req[r])
    BY Fields DEF Known, Shape
  <1>3. Mine(x)
    BY <1>2 DEF BeginDelete, RequestRecords, Mine, Walks, Shaped
  <1> HIDE DEF x
  <1> QED
    BY <1>1, <1>3, Quiet DEF BeginDelete

\* A sync deletes the rows.
LEMMA DeleteRowsKnows ==
  ASSUME TypeOK, Shape, Known, NEW r \in Requests, DeleteRows(r)
  PROVE  Known'
  <1> DEFINE x == [req[r] EXCEPT !.at = "deleted",
                              !.held = IF cache = req[r].seen THEN cache ELSE None]
  <1>1. req' = [req EXCEPT ![r] = x]
    BY DEF TypeOK, DeleteRows
  <1>2. req[r] \in RequestRecords /\ Mine(req[r]) /\ Shaped(req[r])
    BY Fields DEF Known, Shape
  <1>3. Mine(x)
    BY <1>2 DEF DeleteRows, RequestRecords, Mine, Walks
  <1> HIDE DEF x
  <1> QED
    BY <1>1, <1>3, Quiet DEF DeleteRows

\* A sync inserts a page, or fails on the rows of another.
LEMMA InsertPageKnows ==
  ASSUME TypeOK, Shape, Known, NEW r \in Requests, InsertPage(r)
  PROVE  Known'
  <1> DEFINE x == IF cache = req[r].held
                  THEN [req[r] EXCEPT !.at = "inserted", !.put = TRUE] ELSE Ended
  <1>1. req' = [req EXCEPT ![r] = x]
    BY DEF TypeOK, InsertPage
  <1>2. req[r] \in RequestRecords /\ Mine(req[r]) /\ Shaped(req[r])
    BY Fields DEF Known, Shape
  <1>3. Mine(x)
    BY <1>2, IdleTypes DEF InsertPage, RequestRecords, Mine, Walks
  <1> HIDE DEF x
  <1> QED
    BY <1>1, <1>3, Quiet DEF InsertPage

\* The agent answers with its company.
LEMMA AskCurrencyKnows ==
  ASSUME TypeOK, Shape, Known, NEW r \in Requests, AskCurrency(r)
  PROVE  Known'
  <1> DEFINE x == [req[r] EXCEPT !.at = "got"]
  <1>1. req' = [req EXCEPT ![r] = x]
    BY DEF TypeOK, AskCurrency, Step
  <1>2. req[r] \in RequestRecords /\ Mine(req[r]) /\ Shaped(req[r])
    BY Fields DEF Known, Shape
  <1>3. Mine(x)
    BY <1>2 DEF AskCurrency, RequestRecords, Mine, Walks
  <1> HIDE DEF x
  <1> QED
    BY <1>1, <1>3, Quiet DEF AskCurrency

\* The agent names the company it serves.
LEMMA RefusedByAgentKnows ==
  ASSUME TypeOK, Shape, Known, NEW r \in Requests, RefusedByAgent(r)
  PROVE  Known'
  <1> DEFINE x == [req[r] EXCEPT !.at = "told", !.company = agent]
  <1>1. req' = [req EXCEPT ![r] = x]
    BY DEF TypeOK, RefusedByAgent
  <1>2. req[r] \in RequestRecords /\ Mine(req[r]) /\ Shaped(req[r])
    BY Fields DEF Known, Shape
  <1>3. Mine(x)
    BY <1>2 DEF RequestRecords, Mine, Walks
  <1> HIDE DEF x
  <1> QED
    BY <1>1, <1>3, Quiet DEF RefusedByAgent

\* There is nothing to adopt.
LEMMA AdoptNothingKnows ==
  ASSUME TypeOK, Shape, Known, NEW r \in Requests, AdoptNothing(r)
  PROVE  Known'
  <1> DEFINE x == Next409(r)
  <1>1. req' = [req EXCEPT ![r] = x]
    BY DEF TypeOK, AdoptNothing
  <1>2. req[r] \in RequestRecords /\ Mine(req[r]) /\ Shaped(req[r])
    BY Fields DEF Known, Shape
  <1>3. Mine(x)
    BY <1>2, IdleTypes DEF Next409, RequestRecords, Mine, Walks
  <1> HIDE DEF x
  <1> QED
    BY <1>1, <1>3, Quiet DEF AdoptNothing

\* An adoption takes the connection.
LEMMA LockConnKnows ==
  ASSUME TypeOK, Shape, Known, NEW r \in Requests, LockConn(r)
  PROVE  Known'
  <1> DEFINE x == [req[r] EXCEPT !.at = "adopting", !.seen = cache]
  <1>1. req' = [req EXCEPT ![r] = x]
    BY DEF TypeOK, LockConn
  <1>2. req[r] \in RequestRecords /\ Mine(req[r]) /\ Shaped(req[r])
    BY Fields DEF Known, Shape
  <1>3. Mine(x)
    BY <1>2 DEF RequestRecords, Mine, Walks
  <1> HIDE DEF x
  <1> QED
    BY <1>1, <1>3, Quiet DEF LockConn

\* A request fails.
LEMMA FailKnows ==
  ASSUME TypeOK, Shape, Known, NEW r \in Requests, Fail(r)
  PROVE  Known'
  <1> DEFINE x == Ended
  <1>1. req' = [req EXCEPT ![r] = x]
    BY DEF TypeOK, Fail, End
  <1>2. req[r] \in RequestRecords /\ Mine(req[r]) /\ Shaped(req[r])
    BY Fields DEF Known, Shape
  <1>3. Mine(x)
    BY IdleTypes DEF Mine, Walks
  <1> HIDE DEF x
  <1> QED
    BY <1>1, <1>3, Quiet DEF Fail

\* The rows of a walk are its company's and its query's.
LEMMA CommitSyncKnows ==
  ASSUME TypeOK, Shape, Known, NEW r \in Requests, CommitSync(r)
  PROVE  Known'
  <1>1. req[r] \in RequestRecords /\ Mine(req[r]) /\ Walks(req[r])
    BY Fields DEF Known, CommitSync, Walks
  <1>2. Right'
    <2>1. /\ cache' = [company |-> req[r].company, query |-> req[r].query, by |-> r,
                       crossed |-> req[r].crossed]
          /\ UNCHANGED conn /\ md'.query = md.query
      BY DEF CommitSync, TypeOK, Definitions
    <2>2. cache' \in Answers
      BY <1>1, <2>1 DEF Answers, RequestRecords, CommitSync, Shape, Shaped, Walks
    <2>3. cache' # None
      BY <2>2, AnswerAssumption
    <2> QED
      BY <1>1, <2>1, <2>3 DEF Right, Mine
  <1>3. ASSUME NEW q \in Requests PROVE Mine(req[q])'
    <2>1. /\ UNCHANGED conn /\ md'.query = md.query
          /\ req[q] \in RequestRecords /\ Mine(req[q])
      BY Fields DEF CommitSync, Known, TypeOK, Definitions
    <2>2. CASE q = r
      <3>1. req'[q] = [req[r] EXCEPT !.at = "filled", !.held = None, !.put = FALSE]
        BY <2>2 DEF CommitSync, TypeOK
      <3>2. /\ req'[q].at = "filled" /\ req'[q].crossed = req[r].crossed
            /\ req'[q].company = req[r].company /\ req'[q].query = req[r].query
        BY <3>1, <1>1 DEF RequestRecords
      <3> QED
        BY <1>1, <1>2, <2>1, <3>2 DEF Mine, Walks
    <2>3. CASE q # r
      <3>1. req'[q] = req[q]
        BY <2>3 DEF CommitSync, TypeOK
      <3> QED
        BY <1>2, <2>1, <3>1 DEF Mine, Walks
    <2> QED
      BY <2>2, <2>3
  <1> QED
    BY <1>2, <1>3 DEF CommitSync, Known, CurrencyIsCompanys

\* The stamp is put on rows that are right.
LEMMA StampKnows ==
  ASSUME TypeOK, Shape, Known, NEW r \in Requests, Stamp(r)
  PROVE  Known'
  <1>1. req[r] \in RequestRecords /\ Mine(req[r])
    BY Fields DEF Known
  <1>2. /\ md'.query = md.query /\ md'.crossed = req[r].crossed /\ md'.synced
        /\ md'.emptied = md.emptied
        /\ UNCHANGED <<conn, cache>>
    BY Fields DEF Stamp, TypeOK, Definitions
  <1>3. Right' <=> Right
    BY <1>2 DEF Right
  <1>4. ASSUME NEW q \in Requests PROVE Mine(req[q])'
    <2>1. CASE q = r
      <3>1. req'[q] = Ended
        BY <2>1 DEF Stamp, End, TypeOK
      <3> QED
        BY <3>1, IdleTypes DEF Mine, Walks
    <2>2. CASE q # r
      <3>1. req'[q] = req[q]
        BY <2>2 DEF Stamp, End, TypeOK
      <3> QED
        BY <1>2, <1>3, <3>1 DEF Known, Mine, Walks
    <2> QED
      BY <2>1, <2>2
  <1>5. ~req[r].crossed => Right
    BY <1>1 DEF Mine, Stamp
  <1> QED
    BY <1>2, <1>3, <1>4, <1>5 DEF Known, CurrencyIsCompanys

\* The currency written is the company's that was asked.
LEMMA WriteCurrencyKnows ==
  ASSUME TypeOK, Shape, Known, NEW r \in Requests, WriteCurrency(r)
  PROVE  Known'
  <1>1. req[r] \in RequestRecords /\ Mine(req[r])
    BY Fields DEF Known
  <1>2. /\ conn'.company = conn.company /\ conn'.currency = req[r].company
        /\ conn'.crossed = req[r].crossed /\ UNCHANGED <<md, cache>>
    BY Fields DEF WriteCurrency, TypeOK, Connections
  <1>3. Right' <=> Right
    BY <1>2 DEF Right
  <1>4. ASSUME NEW q \in Requests PROVE Mine(req[q])'
    <2>1. CASE q = r
      <3>1. req'[q] = Ended
        BY <2>1 DEF WriteCurrency, End, TypeOK
      <3> QED
        BY <3>1, IdleTypes DEF Mine, Walks
    <2>2. CASE q # r
      <3>1. req'[q] = req[q]
        BY <2>2 DEF WriteCurrency, End, TypeOK
      <3> QED
        BY <1>2, <1>3, <3>1 DEF Known, Mine, Walks
    <2> QED
      BY <2>1, <2>2
  <1>5. ~req[r].crossed => req[r].company = conn.company
    BY <1>1 DEF Mine, WriteCurrency
  <1>6. CurrencyIsCompanys'
    BY <1>2, <1>5 DEF CurrencyIsCompanys
  <1> QED
    BY <1>2, <1>3, <1>4, <1>6 DEF Known

\* What a save's DELETE leaves is as right as it was, and an emptied cache is
\* known to be one.
LEMMA DeleteSavedKnows ==
  ASSUME TypeOK, Shape, Known, NEW r \in Requests, DeleteSaved(r)
  PROVE  Known'
  <1> DEFINE e == md.emptied \/ Remaining(r) = None
  <1>1. /\ cache' = Remaining(r) /\ UNCHANGED conn /\ req' = [req EXCEPT ![r] = Ended]
        /\ md' = [md EXCEPT !.emptied = e] /\ Remaining(r) \in {None, cache}
    BY DEF DeleteSaved, End, Remaining
  <1>2. /\ md'.query = md.query /\ md'.synced = md.synced /\ md'.crossed = md.crossed
        /\ md'.emptied = e
    BY <1>1 DEF TypeOK, Definitions
  <1>3. Right => Right'
    BY <1>1, <1>2 DEF Right
  <1>4. ASSUME NEW q \in Requests PROVE Mine(req[q])'
    <2>1. CASE q = r
      <3>1. req'[q] = Ended
        BY <2>1, <1>1 DEF TypeOK
      <3> QED
        BY <3>1, IdleTypes DEF Mine, Walks
    <2>2. CASE q # r
      <3>1. req'[q] = req[q]
        BY <2>2, <1>1 DEF TypeOK
      <3> QED
        BY <1>1, <1>2, <1>3, <3>1 DEF Known, Mine, Walks
    <2> QED
      BY <2>1, <2>2
  <1> QED
    BY <1>1, <1>2, <1>3, <1>4 DEF Known, CurrencyIsCompanys

\* An adoption leaves nothing stamped and no currency.
LEMMA AdoptKnows ==
  ASSUME TypeOK, Shape, Known, NEW r \in Requests, Adopt(r)
  PROVE  Known'
  <1>1. \A q \in Requests : Mine(req[q])'
    <2>1. req[r] \in RequestRecords
      BY Fields
    <2>2. Next409(r) \in RequestRecords
      BY <2>1, IdleTypes DEF Next409, RequestRecords, Kinds, Stages
    <2>3. Shaped(Next409(r))
      BY <2>1, IdleTypes DEF Next409, RequestRecords, Shaped, Walks
    <2>4. \/ Next409(r).at = "done"
          \/ Next409(r).at = "connecting" /\ Next409(r).kind = "status"
      BY <2>1, IdleTypes DEF Next409, RequestRecords
    <2>5. req' = Crossing(r, Next409(r), Built) /\ md'.query = md.query
      BY DEF Adopt, TypeOK, Definitions
    <2> HIDE DEF Next409
    <2> QED
      BY <2>2, <2>3, <2>4, <2>5, AdoptCrosses
  <1>2. ~md'.synced /\ conn'.currency = None
    BY Fields DEF Adopt, TypeOK, Definitions
  <1> QED
    BY <1>1, <1>2 DEF Known, CurrencyIsCompanys

\* A saved query leaves nothing stamped.
LEMMA BeginSaveKnows ==
  ASSUME TypeOK, Shape, Known, NEW r \in Requests, BeginSave(r)
  PROVE  Known'
  <1>1. \A q \in Requests : Mine(req[q])'
    <2> DEFINE x == [Started("save") EXCEPT !.at = "saved"]
    <2>1. x \in RequestRecords /\ Shaped(x) /\ x.at = "saved"
      BY DEF RequestRecords, Kinds, Stages, Started, Idle, Shaped, Walks
    <2>2. PICK q \in Queries :
            /\ md' = [md EXCEPT !.query = q, !.synced = FALSE]
            /\ req' = Crossing(r, x, WalksOf(Queries \ {q}))
      BY DEF BeginSave
    <2>3. md'.query = q /\ md'.emptied = md.emptied /\ UNCHANGED <<conn, cache>>
      BY <2>2 DEF BeginSave, TypeOK, Definitions
    <2> DEFINE others == WalksOf(Queries \ {q})
    <2>4. req' = Crossing(r, x, others) /\ others = WalksOf(Queries \ {q})
      BY <2>2
    <2> HIDE DEF x, others
    <2> QED
      BY <2>1, <2>3, <2>4, SaveCrosses
  <1>2. ~md'.synced /\ UNCHANGED conn
    BY Fields DEF BeginSave, TypeOK, Definitions
  <1> QED
    BY <1>1, <1>2 DEF Known, CurrencyIsCompanys

\* Every step keeps what is known.
LEMMA NextKnows == TypeOK /\ Shape /\ Known /\ [Next]_vars => Known'
  <1> SUFFICES ASSUME TypeOK, Shape, Known, [Next]_vars PROVE Known'
    OBVIOUS
  <1>1. CASE SwitchCompany
    BY <1>1 DEF SwitchCompany, Known, CurrencyIsCompanys, Mine, Walks, Right
  <1>2. ASSUME NEW r \in Requests, Begin(r) PROVE Known'
    BY <1>2, BeginSyncKnows, BeginCurrencyKnows, BeginStatusKnows, BeginSaveKnows DEF Begin
  <1>3. ASSUME NEW r \in Requests, Advance(r) PROVE Known'
    BY <1>3, ConnectKnows, BeginDeleteKnows, DeleteRowsKnows, DeleteSavedKnows, InsertPageKnows,
       CommitSyncKnows, StampKnows, AskCurrencyKnows, WriteCurrencyKnows, RefusedByAgentKnows,
       AdoptNothingKnows, LockConnKnows, AdoptKnows DEF Advance
  <1>4. ASSUME NEW r \in Requests, Fail(r) PROVE Known'
    BY <1>4, FailKnows
  <1>5. CASE UNCHANGED vars
    BY <1>5 DEF vars, Known, CurrencyIsCompanys, Mine, Walks, Right
  <1> QED
    BY <1>1, <1>2, <1>3, <1>4, <1>5 DEF Next

\* At the start nothing is stamped and nothing known.
LEMMA InitKnows == Init => Known
  <1> SUFFICES ASSUME Init PROVE Known
    OBVIOUS
  <1>1. \A r \in Requests : req[r].at = "new"
    BY IdleTypes DEF Init
  <1> QED
    BY <1>1 DEF Init, Known, CurrencyIsCompanys, Mine, Walks

\* The inductive invariant.
LEMMA Inductive == Spec => [](TypeOK /\ Shape /\ Known)
  <1>1. Init => TypeOK /\ Shape /\ Known
    BY InitType, InitKnows
  <1>2. TypeOK /\ Shape /\ Known /\ [Next]_vars => (TypeOK /\ Shape /\ Known)'
    BY NextType, NextKnows
  <1> QED
    BY <1>1, <1>2, PTL DEF Spec

(* Where the stamp says fresh the rows are there and answer the saved query  *)
(* in the connected company, for any number of walks, saves, polls and       *)
(* switches, but for what FreshIsRight names: rows or a stamp of a walk      *)
(* under which another company was adopted or another query saved, and no    *)
(* rows where a save's DELETE took them.                                     *)
THEOREM FreshCorrect == Spec => []FreshIsRight
  <1>1. Known => FreshIsRight
    BY DEF Known, Right, FreshIsRight
  <1> QED
    BY <1>1, Inductive, PTL

(* A known currency is the connected company's, unless another company was   *)
(* adopted while the read that wrote it was under way.                       *)
THEOREM CurrencyCorrect == Spec => []CurrencyIsCompanys
  <1>1. Known => CurrencyIsCompanys
    BY DEF Known
  <1> QED
    BY <1>1, Inductive, PTL

-----------------------------------------------------------------------------
(* Who holds the rows *)

\* A transaction has inserted a page only over the rows there were, and it is
\* the only one.
Puts(x) == /\ x.at = "inserted" => x.put
           /\ x.put => x.kind = "sync" /\ x.at \in {"inserted", "told", "adopting"} /\ x.held = cache
Locks == /\ OneHolder
         /\ \A r, q \in Requests : req[r].put /\ req[q].put => r = q
         /\ \A r \in Requests : Puts(req[r])

\* A step of r alone that leaves the rows, and holds no more than r did.
LEMMA QuietLocks ==
  ASSUME TypeOK, Locks, NEW r \in Requests, NEW x, Puts(x),
         req' = [req EXCEPT ![r] = x], UNCHANGED cache,
         x.held \in {None, req[r].held}, x.put => req[r].put
  PROVE  Locks'
  <1>1. req'[r] = x /\ \A q \in Requests \ {r} : req'[q] = req[q]
    BY DEF TypeOK
  <1>2. OneHolder'
    BY <1>1 DEF Locks, OneHolder
  <1>3. \A s, q \in Requests : req'[s].put /\ req'[q].put => s = q
    BY <1>1 DEF Locks
  <1>4. ASSUME NEW q \in Requests PROVE Puts(req[q])'
    BY <1>1 DEF Locks, Puts
  <1> QED
    BY <1>2, <1>3, <1>4 DEF Locks

\* A step that crosses others, when nobody holds the rows.
LEMMA CrossedLocks ==
  ASSUME TypeOK, Shape, Locks, NEW r \in Requests, NEW x \in RequestRecords, Shaped(x),
         x.held = None, ~x.put, x.at # "inserted", NEW others,
         req' = Crossing(r, x, others), UNCHANGED cache \/ (RowsFree /\ cache' \in {None, cache})
  PROVE  Locks'
  <1>1. /\ req'[r] = x
        /\ \A q \in Requests \ {r} :
             /\ req'[q].kind = req[q].kind /\ req'[q].at = req[q].at
             /\ req'[q].held = req[q].held /\ req'[q].put = req[q].put
    BY CrossType
  <1>2. OneHolder'
    BY <1>1 DEF Locks, OneHolder, RowsFree
  <1>3. \A s, q \in Requests : req'[s].put /\ req'[q].put => s = q
    BY <1>1 DEF Locks
  <1>4. ASSUME NEW q \in Requests PROVE Puts(req[q])'
    <2>1. CASE q = r
      BY <2>1, <1>1 DEF Puts
    <2>2. CASE q # r
      BY <2>2, <1>1 DEF Locks, Puts, RowsFree
    <2> QED
      BY <2>1, <2>2
  <1> QED
    BY <1>2, <1>3, <1>4 DEF Locks

\* A sync starts with the query there is.
LEMMA BeginSyncLocks ==
  ASSUME TypeOK, Shape, Locks, NEW r \in Requests, BeginSync(r)
  PROVE  Locks'
  <1> DEFINE x == [Started("sync") EXCEPT !.at = "connecting", !.query = md.query]
  <1>1. req' = [req EXCEPT ![r] = x]
    BY DEF TypeOK, BeginSync
  <1>2. req[r] \in RequestRecords /\ Puts(req[r])
    BY Fields DEF Locks
  <1>3. Puts(x)
    BY DEF Puts, Started, Idle
  <1>4. x.held \in {None, req[r].held} /\ (x.put => req[r].put)
    BY DEF Started, Idle
  <1> HIDE DEF x
  <1> QED
    BY <1>1, <1>3, <1>4, QuietLocks DEF BeginSync

\* A currency read starts.
LEMMA BeginCurrencyLocks ==
  ASSUME TypeOK, Shape, Locks, NEW r \in Requests, BeginCurrency(r)
  PROVE  Locks'
  <1> DEFINE x == [Started("currency") EXCEPT !.at = "connecting"]
  <1>1. req' = [req EXCEPT ![r] = x]
    BY DEF TypeOK, BeginCurrency
  <1>2. req[r] \in RequestRecords /\ Puts(req[r])
    BY Fields DEF Locks
  <1>3. Puts(x)
    BY DEF Puts, Started, Idle
  <1>4. x.held \in {None, req[r].held} /\ (x.put => req[r].put)
    BY DEF Started, Idle
  <1> HIDE DEF x
  <1> QED
    BY <1>1, <1>3, <1>4, QuietLocks DEF BeginCurrency

\* A status poll starts with the company the agent names.
LEMMA BeginStatusLocks ==
  ASSUME TypeOK, Shape, Locks, NEW r \in Requests, BeginStatus(r)
  PROVE  Locks'
  <1> DEFINE x == [Started("status") EXCEPT !.at = "told", !.company = agent]
  <1>1. req' = [req EXCEPT ![r] = x]
    BY DEF TypeOK, BeginStatus
  <1>2. req[r] \in RequestRecords /\ Puts(req[r])
    BY Fields DEF Locks
  <1>3. Puts(x)
    BY DEF Puts, Started, Idle
  <1>4. x.held \in {None, req[r].held} /\ (x.put => req[r].put)
    BY DEF Started, Idle
  <1> HIDE DEF x
  <1> QED
    BY <1>1, <1>3, <1>4, QuietLocks DEF BeginStatus

\* A connector is built for the connection there is.
LEMMA ConnectLocks ==
  ASSUME TypeOK, Shape, Locks, NEW r \in Requests, Connect(r)
  PROVE  Locks'
  <1> DEFINE x == [req[r] EXCEPT !.company = conn.company,
                              !.at = IF req[r].kind = "sync" THEN "begun" ELSE "asking"]
  <1>1. req' = [req EXCEPT ![r] = x]
    BY DEF TypeOK, Connect
  <1>2. req[r] \in RequestRecords /\ Puts(req[r])
    BY Fields DEF Locks
  <1>3. Puts(x)
    BY <1>2 DEF Connect, RequestRecords, Puts
  <1>4. x.held \in {None, req[r].held} /\ (x.put => req[r].put)
    BY <1>2 DEF RequestRecords
  <1> HIDE DEF x
  <1> QED
    BY <1>1, <1>3, <1>4, QuietLocks DEF Connect

\* A DELETE begins.
LEMMA BeginDeleteLocks ==
  ASSUME TypeOK, Shape, Locks, NEW r \in Requests, BeginDelete(r)
  PROVE  Locks'
  <1> DEFINE x == [req[r] EXCEPT !.at = "deleting", !.seen = cache]
  <1>1. req' = [req EXCEPT ![r] = x]
    BY DEF TypeOK, BeginDelete
  <1>2. req[r] \in RequestRecords /\ Puts(req[r])
    BY Fields DEF Locks
  <1>3. Puts(x)
    BY <1>2 DEF BeginDelete, RequestRecords, Puts
  <1>4. x.held \in {None, req[r].held} /\ (x.put => req[r].put)
    BY <1>2 DEF RequestRecords
  <1> HIDE DEF x
  <1> QED
    BY <1>1, <1>3, <1>4, QuietLocks DEF BeginDelete

\* A sync stamps them.
LEMMA StampLocks ==
  ASSUME TypeOK, Shape, Locks, NEW r \in Requests, Stamp(r)
  PROVE  Locks'
  <1> DEFINE x == Ended
  <1>1. req' = [req EXCEPT ![r] = x]
    BY DEF TypeOK, Stamp, End
  <1>2. req[r] \in RequestRecords /\ Puts(req[r])
    BY Fields DEF Locks
  <1>3. Puts(x)
    BY IdleTypes DEF Puts
  <1>4. x.held \in {None, req[r].held} /\ (x.put => req[r].put)
    BY IdleTypes
  <1> HIDE DEF x
  <1> QED
    BY <1>1, <1>3, <1>4, QuietLocks DEF Stamp

\* The agent answers with its company.
LEMMA AskCurrencyLocks ==
  ASSUME TypeOK, Shape, Locks, NEW r \in Requests, AskCurrency(r)
  PROVE  Locks'
  <1> DEFINE x == [req[r] EXCEPT !.at = "got"]
  <1>1. req' = [req EXCEPT ![r] = x]
    BY DEF TypeOK, AskCurrency, Step
  <1>2. req[r] \in RequestRecords /\ Puts(req[r])
    BY Fields DEF Locks
  <1>3. Puts(x)
    BY <1>2 DEF AskCurrency, RequestRecords, Puts
  <1>4. x.held \in {None, req[r].held} /\ (x.put => req[r].put)
    BY <1>2 DEF RequestRecords
  <1> HIDE DEF x
  <1> QED
    BY <1>1, <1>3, <1>4, QuietLocks DEF AskCurrency

\* The currency is written.
LEMMA WriteCurrencyLocks ==
  ASSUME TypeOK, Shape, Locks, NEW r \in Requests, WriteCurrency(r)
  PROVE  Locks'
  <1> DEFINE x == Ended
  <1>1. req' = [req EXCEPT ![r] = x]
    BY DEF TypeOK, WriteCurrency, End
  <1>2. req[r] \in RequestRecords /\ Puts(req[r])
    BY Fields DEF Locks
  <1>3. Puts(x)
    BY IdleTypes DEF Puts
  <1>4. x.held \in {None, req[r].held} /\ (x.put => req[r].put)
    BY IdleTypes
  <1> HIDE DEF x
  <1> QED
    BY <1>1, <1>3, <1>4, QuietLocks DEF WriteCurrency

\* The agent names the company it serves.
LEMMA RefusedByAgentLocks ==
  ASSUME TypeOK, Shape, Locks, NEW r \in Requests, RefusedByAgent(r)
  PROVE  Locks'
  <1> DEFINE x == [req[r] EXCEPT !.at = "told", !.company = agent]
  <1>1. req' = [req EXCEPT ![r] = x]
    BY DEF TypeOK, RefusedByAgent
  <1>2. req[r] \in RequestRecords /\ Puts(req[r])
    BY Fields DEF Locks
  <1>3. Puts(x)
    BY <1>2 DEF RefusedByAgent, RequestRecords, Puts
  <1>4. x.held \in {None, req[r].held} /\ (x.put => req[r].put)
    BY <1>2 DEF RequestRecords
  <1> HIDE DEF x
  <1> QED
    BY <1>1, <1>3, <1>4, QuietLocks DEF RefusedByAgent

\* There is nothing to adopt.
LEMMA AdoptNothingLocks ==
  ASSUME TypeOK, Shape, Locks, NEW r \in Requests, AdoptNothing(r)
  PROVE  Locks'
  <1> DEFINE x == Next409(r)
  <1>1. req' = [req EXCEPT ![r] = x]
    BY DEF TypeOK, AdoptNothing
  <1>2. req[r] \in RequestRecords /\ Puts(req[r])
    BY Fields DEF Locks
  <1>3. Puts(x)
    BY <1>2, IdleTypes DEF Next409, RequestRecords, Puts
  <1>4. x.held \in {None, req[r].held} /\ (x.put => req[r].put)
    BY <1>2, IdleTypes DEF Next409, RequestRecords, AdoptNothing, Puts
  <1> HIDE DEF x
  <1> QED
    BY <1>1, <1>3, <1>4, QuietLocks DEF AdoptNothing

\* An adoption takes the connection.
LEMMA LockConnLocks ==
  ASSUME TypeOK, Shape, Locks, NEW r \in Requests, LockConn(r)
  PROVE  Locks'
  <1> DEFINE x == [req[r] EXCEPT !.at = "adopting", !.seen = cache]
  <1>1. req' = [req EXCEPT ![r] = x]
    BY DEF TypeOK, LockConn
  <1>2. req[r] \in RequestRecords /\ Puts(req[r])
    BY Fields DEF Locks
  <1>3. Puts(x)
    BY <1>2 DEF LockConn, RequestRecords, Puts
  <1>4. x.held \in {None, req[r].held} /\ (x.put => req[r].put)
    BY <1>2 DEF RequestRecords
  <1> HIDE DEF x
  <1> QED
    BY <1>1, <1>3, <1>4, QuietLocks DEF LockConn

\* A request fails.
LEMMA FailLocks ==
  ASSUME TypeOK, Shape, Locks, NEW r \in Requests, Fail(r)
  PROVE  Locks'
  <1> DEFINE x == Ended
  <1>1. req' = [req EXCEPT ![r] = x]
    BY DEF TypeOK, Fail, End
  <1>2. req[r] \in RequestRecords /\ Puts(req[r])
    BY Fields DEF Locks
  <1>3. Puts(x)
    BY IdleTypes DEF Puts
  <1>4. x.held \in {None, req[r].held} /\ (x.put => req[r].put)
    BY IdleTypes
  <1> HIDE DEF x
  <1> QED
    BY <1>1, <1>3, <1>4, QuietLocks DEF Fail

\* A sync deletes the rows nobody holds.
LEMMA DeleteRowsLocks ==
  ASSUME TypeOK, Shape, Locks, NEW r \in Requests, DeleteRows(r)
  PROVE  Locks'
  <1> DEFINE h == IF cache = req[r].seen THEN cache ELSE None
  <1>1. req' = [req EXCEPT ![r].at = "deleted", ![r].held = h]
    BY DEF DeleteRows
  <1>2. req[r] \in RequestRecords /\ Puts(req[r]) /\ RowsFree /\ req[r].at = "deleting"
    BY Fields DEF Locks, DeleteRows
  <1>3. h \in {None, cache}
    OBVIOUS
  <1> HIDE DEF h
  <1>4. /\ req'[r].held = h /\ req'[r].put = req[r].put /\ req'[r].at = "deleted" /\ ~req[r].put
        /\ \A q \in Requests \ {r} : req'[q] = req[q]
    BY <1>1, <1>2 DEF TypeOK, RequestRecords, Puts
  <1>5. UNCHANGED cache /\ \A q \in Requests \ {r} : req'[q].held = None
    BY <1>2, <1>4 DEF DeleteRows, RowsFree
  <1>6. OneHolder'
    BY <1>5, <1>3, <1>4 DEF OneHolder
  <1>7. \A s, q \in Requests : req'[s].put /\ req'[q].put => s = q
    BY <1>4 DEF Locks
  <1>8. ASSUME NEW q \in Requests PROVE Puts(req[q])'
    <2>1. CASE q = r
      BY <2>1, <1>4 DEF Puts
    <2>2. CASE q # r
      BY <2>2, <1>5, <1>4 DEF Locks, Puts
    <2> QED
      BY <2>1, <2>2
  <1> QED
    BY <1>6, <1>7, <1>8 DEF Locks

\* A sync inserts a page over the rows it holds.
LEMMA InsertPageLocks ==
  ASSUME TypeOK, Shape, Locks, NEW r \in Requests, InsertPage(r)
  PROVE  Locks'
  <1>1. req[r] \in RequestRecords /\ Puts(req[r]) /\ req[r].kind = "sync"
    BY Fields DEF Locks, InsertPage, Shape, Shaped, Walks
  <1>2. CASE cache = req[r].held
    <2>1. req' = [req EXCEPT ![r] = [req[r] EXCEPT !.at = "inserted", !.put = TRUE]]
      BY <1>2 DEF InsertPage
    <2>2. /\ req'[r].at = "inserted" /\ req'[r].put /\ req'[r].held = req[r].held
          /\ req'[r].kind = "sync"
          /\ \A q \in Requests \ {r} : req'[q] = req[q]
      BY <1>1, <2>1 DEF TypeOK, RequestRecords
    <2>3. \A q \in Requests \ {r} : ~req[q].put
      BY DEF InsertPage
    <2>4. OneHolder'
      BY <2>2 DEF InsertPage, Locks, OneHolder
    <2>5. \A s, q \in Requests : req'[s].put /\ req'[q].put => s = q
      BY <2>2, <2>3
    <2>6. ASSUME NEW q \in Requests PROVE Puts(req[q])'
      BY <1>2, <2>2 DEF InsertPage, Locks, Puts
    <2> QED
      BY <2>4, <2>5, <2>6 DEF Locks
  <1>3. CASE cache # req[r].held
    <2>1. req' = [req EXCEPT ![r] = Ended]
      BY <1>3 DEF InsertPage
    <2>2. Puts(Ended) /\ Ended.held = None /\ ~Ended.put
      BY IdleTypes DEF Puts
    <2> QED
      BY <2>1, <2>2, QuietLocks DEF InsertPage
  <1> QED
    BY <1>2, <1>3

\* The rows a sync commits take the place of those it held.
LEMMA CommitSyncLocks ==
  ASSUME TypeOK, Shape, Locks, NEW r \in Requests, CommitSync(r)
  PROVE  Locks'
  <1>1. req[r] \in RequestRecords /\ req[r].put /\ req[r].held = cache
    BY Fields DEF Locks, CommitSync, Puts
  <1>2. req' = [req EXCEPT ![r] = [req[r] EXCEPT !.at = "filled", !.held = None, !.put = FALSE]]
    BY DEF CommitSync, TypeOK
  <1>3. /\ req'[r].at = "filled" /\ req'[r].held = None /\ ~req'[r].put
        /\ \A q \in Requests \ {r} : req'[q] = req[q]
    BY <1>1, <1>2 DEF TypeOK, RequestRecords
  <1>4. ASSUME NEW q \in Requests \ {r} PROVE req[q].held = None /\ ~req[q].put
    BY <1>1 DEF Locks, OneHolder
  <1>5. OneHolder'
    BY <1>3, <1>4 DEF OneHolder
  <1>6. \A s, q \in Requests : req'[s].put /\ req'[q].put => s = q
    BY <1>3, <1>4
  <1>7. ASSUME NEW q \in Requests PROVE Puts(req[q])'
    BY <1>3, <1>4 DEF Locks, Puts
  <1> QED
    BY <1>5, <1>6, <1>7 DEF Locks

\* A save empties rows that nobody holds.
LEMMA DeleteSavedLocks ==
  ASSUME TypeOK, Shape, Locks, NEW r \in Requests, DeleteSaved(r)
  PROVE  Locks'
  <1>1. \A q \in Requests : req[q].held = None /\ req'[q] = IF q = r THEN Ended ELSE req[q]
    BY DEF DeleteSaved, RowsFree, End, TypeOK
  <1>2. OneHolder'
    BY <1>1, IdleTypes DEF OneHolder
  <1>3. \A s, q \in Requests : req'[s].put /\ req'[q].put => s = q
    BY <1>1, IdleTypes DEF Locks
  <1>4. cache' \in {None, cache}
    BY DEF DeleteSaved, Remaining
  <1>5. ASSUME NEW q \in Requests PROVE Puts(req[q])'
    <2>1. CASE q = r
      BY <2>1, <1>1, IdleTypes DEF Puts
    <2>2. CASE q # r
      BY <2>2, <1>1, <1>4 DEF Locks, Puts
    <2> QED
      BY <2>1, <2>2
  <1> QED
    BY <1>2, <1>3, <1>5 DEF Locks

\* So does an adoption.
LEMMA AdoptLocks ==
  ASSUME TypeOK, Shape, Locks, NEW r \in Requests, Adopt(r)
  PROVE  Locks'
  <1>1. req[r] \in RequestRecords /\ Puts(req[r]) /\ req[r].held = None
    BY Fields DEF Locks, Adopt, RowsFree
  <1>2. Next409(r) \in RequestRecords
    BY <1>1, IdleTypes DEF Next409, RequestRecords, Kinds, Stages
  <1>3. Shaped(Next409(r))
    BY <1>1, IdleTypes DEF Next409, RequestRecords, Shaped, Walks
  <1>4. Next409(r).held = None /\ ~Next409(r).put /\ Next409(r).at # "inserted"
    BY <1>1, IdleTypes DEF Next409, RequestRecords, Puts
  <1>5. req' = Crossing(r, Next409(r), Built) /\ RowsFree /\ cache' \in {None, cache}
    BY DEF Adopt, Remaining
  <1> HIDE DEF Next409
  <1> QED
    BY <1>2, <1>3, <1>4, <1>5, CrossedLocks

\* A saved query leaves the rows for its next statement.
LEMMA BeginSaveLocks ==
  ASSUME TypeOK, Shape, Locks, NEW r \in Requests, BeginSave(r)
  PROVE  Locks'
  <1> DEFINE x == [Started("save") EXCEPT !.at = "saved"]
  <1>1. /\ x \in RequestRecords /\ Shaped(x) /\ x.held = None /\ ~x.put /\ x.at # "inserted"
    BY DEF RequestRecords, Kinds, Stages, Started, Idle, Shaped, Walks
  <1>2. PICK q \in Queries : req' = Crossing(r, x, WalksOf(Queries \ {q})) /\ UNCHANGED cache
    BY DEF BeginSave
  <1> HIDE DEF x
  <1> QED
    BY <1>1, <1>2, CrossedLocks

\* Every step keeps the locks apart.
LEMMA NextLocks == TypeOK /\ Shape /\ Locks /\ [Next]_vars => Locks'
  <1> SUFFICES ASSUME TypeOK, Shape, Locks, [Next]_vars PROVE Locks'
    OBVIOUS
  <1>1. CASE SwitchCompany
    BY <1>1 DEF SwitchCompany, Locks, OneHolder, Puts
  <1>2. ASSUME NEW r \in Requests, Begin(r) PROVE Locks'
    BY <1>2, BeginSyncLocks, BeginCurrencyLocks, BeginStatusLocks, BeginSaveLocks DEF Begin
  <1>3. ASSUME NEW r \in Requests, Advance(r) PROVE Locks'
    BY <1>3, ConnectLocks, BeginDeleteLocks, DeleteRowsLocks, DeleteSavedLocks, InsertPageLocks,
       CommitSyncLocks, StampLocks, AskCurrencyLocks, WriteCurrencyLocks, RefusedByAgentLocks,
       AdoptNothingLocks, LockConnLocks, AdoptLocks DEF Advance
  <1>4. ASSUME NEW r \in Requests, Fail(r) PROVE Locks'
    BY <1>4, FailLocks
  <1>5. CASE UNCHANGED vars
    BY <1>5 DEF vars, Locks, OneHolder, Puts
  <1> QED
    BY <1>1, <1>2, <1>3, <1>4, <1>5 DEF Next

\* At the start nobody holds anything.
LEMMA InitLocks == Init => Locks
  <1> SUFFICES ASSUME Init PROVE Locks
    OBVIOUS
  <1>1. \A r \in Requests : req[r] = Idle
    BY DEF Init
  <1> QED
    BY <1>1, IdleTypes DEF Locks, OneHolder, Puts

(* At most one transaction holds the rows a DELETE took away, and they are   *)
(* the committed ones, for any number of walks: two syncs never both replace *)
(* the same rows.                                                            *)
THEOREM OneHolderCorrect == Spec => []OneHolder
  <1>1. Init => TypeOK /\ Shape /\ Locks
    BY InitType, InitLocks
  <1>2. TypeOK /\ Shape /\ Locks /\ [Next]_vars => (TypeOK /\ Shape /\ Locks)'
    BY NextType, NextLocks
  <1>3. Locks => OneHolder
    BY DEF Locks
  <1> QED
    BY <1>1, <1>2, <1>3, PTL DEF Spec
=============================================================================
