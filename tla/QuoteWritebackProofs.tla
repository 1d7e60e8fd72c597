------------------------ MODULE QuoteWritebackProofs ------------------------
(***************************************************************************)
(* Theorems about QuoteWriteback, for any companies, picks, prices and     *)
(* bounds.  The first ones hold for any number of overlapping requests and *)
(* are about ownership: every DocEntry that the row or a request carries   *)
(* names, in the company recorded beside it, a quotation Confire posted,   *)
(* and no step of anybody makes a document of Confire's foreign or the     *)
(* reverse.  The last three need the requests to follow one another and    *)
(* are about the chain of documents that the command ids make.             *)
(***************************************************************************)
EXTENDS QuoteWriteback, SequenceTheorems, TLAPS

\* Confire posted this document.
Own(co, e) == e \in DOMAIN sap[co] /\ sap[co][e].key # None

\* The row's DocEntry is one of Confire's, and a quoted row has one.
RowOwn ==
  /\ project.docEntry # 0 => project.company \in Companies /\ Own(project.company, project.docEntry)
  /\ project.status = "quoted" => project.docEntry # 0

\* So is that of a request that is going to patch it or record it.
CallOwn(c) ==
  calls[c].pc \in {"current", "patch", "reread", "move"} => Own(calls[c].company, calls[c].docEntry)

IInv == TypeOK /\ RowOwn /\ \A c \in Calls : CallOwn(c)

\* Some request is about to patch with this document as it read it.
Read(doc) == \E c \in Calls : At(c, "patch") /\ calls[c].read = doc

\* What every step keeps: documents stay, stay whose they are, and lose what a
\* SAP user typed only to a request that has read it.
Kept ==
  \A co \in Companies : \A e \in DOMAIN sap[co] :
    /\ e \in DOMAIN sap'[co]
    /\ sap'[co][e].key = None <=> sap[co][e].key = None
    /\ sap[co][e].touched /\ ~sap'[co][e].touched => Read(sap[co][e])

\* The requests that are under way.
Busy ==
  [pc: {"current", "search", "patch", "post", "reread", "move"}, company: Companies, picks: Picks,
   price: Prices, here: BOOLEAN, docEntry: Nat, read: Docs \cup {None}]

-----------------------------------------------------------------------------
(* Facts about documents and requests *)

\* A request that is not idle has every field.
LEMMA BusyCall ==
  ASSUME TypeOK, NEW c \in Calls, calls[c].pc # "idle"
  PROVE  calls[c] \in Busy
  BY DEF TypeOK, CallRecords, Busy

\* A request that only goes on keeps what it carries.
LEMMA GoesOn ==
  ASSUME NEW call \in Busy, NEW pc \in {"current", "search", "patch", "post", "reread", "move"}
  PROVE  /\ [call EXCEPT !.pc = pc] \in CallRecords /\ [call EXCEPT !.pc = pc].pc = pc
         /\ [call EXCEPT !.pc = pc].company = call.company /\ [call EXCEPT !.pc = pc].docEntry = call.docEntry
  <1>1. [call EXCEPT !.pc = pc] \in Busy
    BY DEF Busy
  <1>2. Busy \subseteq CallRecords
    BY DEF Busy, CallRecords
  <1> QED
    BY <1>1, <1>2 DEF Busy

\* What a request posts is Confire's own.
LEMMA QuotationIsOwn ==
  ASSUME NEW call \in Busy
  PROVE  Quotation(call) \in Docs /\ Quotation(call).key # None
  <1>1. CommandId(call) \in Keys
    BY DEF CommandId, Keys, Busy
  <1> QED
    BY <1>1, KeysAssumption DEF Quotation, Docs, Busy

\* Writing a document in place.
LEMMA SetDoc ==
  ASSUME TypeOK, NEW co \in Companies, NEW e \in DOMAIN sap[co], NEW d \in Docs,
         d.key = None <=> sap[co][e].key = None,
         sap[co][e].touched /\ ~d.touched => Read(sap[co][e]),
         sap' = [sap EXCEPT ![co] = [sap[co] EXCEPT ![e] = d]]
  PROVE  sap' \in [Companies -> Seq(Docs)] /\ Kept
  <1>1. sap[co] \in Seq(Docs) /\ e \in 1..Len(sap[co])
    BY DEF TypeOK
  <1>2. /\ [sap[co] EXCEPT ![e] = d] \in Seq(Docs)
        /\ Len([sap[co] EXCEPT ![e] = d]) = Len(sap[co])
        /\ \A j \in 1..Len(sap[co]) : [sap[co] EXCEPT ![e] = d][j] = IF j = e THEN d ELSE sap[co][j]
    BY <1>1, ExceptSeq
  <1>3. sap'[co] = [sap[co] EXCEPT ![e] = d] /\ \A o \in Companies : o # co => sap'[o] = sap[o]
    BY DEF TypeOK
  <1>4. sap' \in [Companies -> Seq(Docs)]
    BY <1>2 DEF TypeOK
  <1>5. ASSUME NEW o \in Companies, NEW j \in DOMAIN sap[o]
        PROVE  /\ j \in DOMAIN sap'[o]
               /\ sap'[o][j].key = None <=> sap[o][j].key = None
               /\ sap[o][j].touched /\ ~sap'[o][j].touched => Read(sap[o][j])
    <2>1. CASE o = co
      <3>1. DOMAIN sap'[co] = 1..Len(sap[co]) /\ DOMAIN sap[co] = 1..Len(sap[co])
        BY <1>1, <1>2, <1>3
      <3> QED
        BY <1>2, <1>3, <2>1, <3>1
    <2>2. CASE o # co
      BY <1>3, <2>2
    <2> QED
      BY <2>1, <2>2
  <1> QED
    BY <1>4, <1>5 DEF Kept

\* Adding a document.
LEMMA AddDoc ==
  ASSUME TypeOK, NEW co \in Companies, NEW d \in Docs, sap' = [sap EXCEPT ![co] = Append(sap[co], d)]
  PROVE  /\ sap' \in [Companies -> Seq(Docs)] /\ Kept
         /\ Len(sap[co]) + 1 \in DOMAIN sap'[co] /\ sap'[co][Len(sap[co]) + 1] = d
  <1>1. sap[co] \in Seq(Docs)
    BY DEF TypeOK
  <1>2. /\ Append(sap[co], d) \in Seq(Docs) /\ Len(Append(sap[co], d)) = Len(sap[co]) + 1
        /\ \A j \in 1..Len(sap[co]) : Append(sap[co], d)[j] = sap[co][j]
        /\ Append(sap[co], d)[Len(sap[co]) + 1] = d
    BY <1>1, AppendProperties
  <1>3. sap'[co] = Append(sap[co], d) /\ \A o \in Companies : o # co => sap'[o] = sap[o]
    BY DEF TypeOK
  <1>4. sap' \in [Companies -> Seq(Docs)]
    BY <1>2 DEF TypeOK
  <1>5. Len(sap[co]) \in Nat /\ DOMAIN sap[co] = 1..Len(sap[co]) /\ DOMAIN sap'[co] = 1..(Len(sap[co]) + 1)
    BY <1>1, <1>2, <1>3
  <1>6. ASSUME NEW o \in Companies, NEW j \in DOMAIN sap[o]
        PROVE  j \in DOMAIN sap'[o] /\ sap'[o][j] = sap[o][j]
    <2>1. CASE o = co
      BY <1>2, <1>3, <1>5, <2>1
    <2>2. CASE o # co
      BY <1>3, <2>2
    <2> QED
      BY <2>1, <2>2
  <1> QED
    BY <1>2, <1>3, <1>4, <1>5, <1>6 DEF Kept

\* Ownership is kept.
LEMMA OwnKept ==
  ASSUME Kept, NEW co \in Companies, NEW e, Own(co, e)
  PROVE  Own(co, e)'
  BY DEF Kept, Own

-----------------------------------------------------------------------------
(* The invariant *)

\* No document, no request, nothing quoted: the invariant holds at first.
LEMMA InitIInv == Init => IInv
  <1> SUFFICES ASSUME Init PROVE IInv
    OBVIOUS
  <1>1. TypeOK
    <2>1. project \in Projects
      BY DEF Init, Projects, Statuses
    <2>2. sap \in [Companies -> Seq(Docs)]
      BY DEF Init
    <2> QED
      BY <2>1, <2>2, CompaniesAssumption DEF Init, TypeOK, CallRecords, Idle
  <1>2. RowOwn /\ \A c \in Calls : CallOwn(c)
    BY DEF Init, RowOwn, CallOwn, Idle
  <1> QED
    BY <1>1, <1>2 DEF IInv

\* Steps that move one request and may change SAP.
LEMMA CallStep ==
  ASSUME IInv, NEW c \in Calls, NEW k \in CallRecords, calls' = [calls EXCEPT ![c] = k],
         UNCHANGED <<project, price>>, agent' \in Companies, adopted' \in Companies,
         sap' \in [Companies -> Seq(Docs)], Kept,
         k.pc \in {"current", "patch", "reread", "move"} => Own(k.company, k.docEntry)'
  PROVE  IInv'
  <1>1. TypeOK'
    BY DEF IInv, TypeOK
  <1>2. RowOwn'
    BY OwnKept DEF IInv, RowOwn
  <1>3. ASSUME NEW d \in Calls PROVE CallOwn(d)'
    <2>1. CASE d = c
      <3>1. calls'[d] = k
        BY <2>1 DEF IInv, TypeOK
      <3> QED
        BY <3>1 DEF CallOwn, Own
    <2>2. CASE d # c
      <3>1. calls'[d] = calls[d]
        BY <2>2 DEF IInv, TypeOK
      <3>2. CASE calls[d].pc \in {"current", "patch", "reread", "move"}
        <4>1. calls[d] \in Busy
          BY <3>2, BusyCall DEF IInv
        <4>2. calls[d].company \in Companies
          BY <4>1 DEF Busy
        <4>3. Own(calls[d].company, calls[d].docEntry)
          BY <3>2 DEF IInv, CallOwn
        <4> QED
          BY <3>1, <4>2, <4>3, OwnKept DEF CallOwn, Own
      <3> QED
        BY <3>1, <3>2 DEF CallOwn
    <2> QED
      BY <2>1, <2>2
  <1> QED
    BY <1>1, <1>2, <1>3 DEF IInv

\* Steps that move the row alone.
LEMMA RowStep ==
  ASSUME IInv, UNCHANGED <<sap, calls>>, project' \in Projects, price' \in Prices,
         agent' \in Companies, adopted' \in Companies, RowOwn'
  PROVE  IInv' /\ Kept
  <1>1. TypeOK'
    BY DEF IInv, TypeOK
  <1>2. \A c \in Calls : CallOwn(c)'
    BY DEF IInv, CallOwn, Own
  <1>3. Kept
    BY DEF Kept
  <1> QED
    BY <1>1, <1>2, <1>3 DEF IInv

\* Steps that change only SAP's documents.
LEMMA SapStep ==
  ASSUME IInv, UNCHANGED <<project, price, agent, adopted, calls>>, sap' \in [Companies -> Seq(Docs)], Kept
  PROVE  IInv'
  <1>1. TypeOK'
    BY DEF IInv, TypeOK
  <1>2. RowOwn'
    BY OwnKept DEF IInv, RowOwn
  <1>3. ASSUME NEW c \in Calls, calls[c].pc \in {"current", "patch", "reread", "move"} PROVE CallOwn(c)'
    <2>1. calls[c].company \in Companies
      BY <1>3, BusyCall DEF IInv, Busy
    <2>2. Own(calls[c].company, calls[c].docEntry)
      BY <1>3 DEF IInv, CallOwn
    <2> QED
      BY <2>1, <2>2, OwnKept DEF CallOwn, Own
  <1> QED
    BY <1>1, <1>2, <1>3 DEF IInv, CallOwn

\* Steps of a request that leave SAP as it is.
LEMMA QuietStep ==
  ASSUME IInv, NEW c \in Calls, NEW k \in CallRecords, Go(c, k), UNCHANGED <<project, price, sap>>,
         agent' \in Companies, adopted' \in Companies,
         k.pc \in {"current", "patch", "reread", "move"} => Own(k.company, k.docEntry)
  PROVE  IInv' /\ Kept
  <1>1. Kept
    BY DEF Kept
  <1>2. sap' \in [Companies -> Seq(Docs)]
    BY DEF IInv, TypeOK
  <1>3. k.pc \in {"current", "patch", "reread", "move"} => Own(k.company, k.docEntry)'
    BY DEF Own
  <1> QED
    BY <1>1, <1>2, <1>3, CallStep DEF Go

\* The end of a request, for whatever reason.
LEMMA EndStep ==
  ASSUME IInv, NEW c \in Calls, End(c), UNCHANGED <<project, price, sap>>,
         agent' \in Companies, adopted' \in Companies
  PROVE  IInv' /\ Kept
  <1>1. Idle \in CallRecords /\ Idle.pc = "idle"
    BY DEF Idle, CallRecords
  <1> QED
    BY <1>1, QuietStep DEF End

\* A refused request ends, whatever company Confire adopts for it.
LEMMA RefusedKeeps ==
  ASSUME IInv, NEW c \in Calls, Refused(c)
  PROVE  IInv' /\ Kept
  BY EndStep DEF Refused, IInv, TypeOK

\* A request that begins carries the row's DocEntry only into the company it
\* belongs to.
LEMMA LoadKeeps ==
  ASSUME IInv, NEW c \in Calls, Load(c)
  PROVE  IInv' /\ Kept
  <1> DEFINE here == QuotationIn(project, adopted)
             k == [pc |-> IF here THEN "current" ELSE "search", company |-> adopted,
                   picks |-> project.picks, price |-> price, here |-> here,
                   docEntry |-> IF here THEN project.docEntry ELSE 0, read |-> None]
  <1>1. project \in Projects /\ price \in Prices /\ adopted \in Companies /\ agent \in Companies
    BY DEF IInv, TypeOK
  <1>2. Go(c, k) /\ UNCHANGED <<project, price, agent, adopted, sap>> /\ project.picks # None
    BY DEF Load
  <1>3. here \in BOOLEAN /\ project.picks \in Picks /\ project.docEntry \in Nat
    BY <1>1, <1>2 DEF Projects, QuotationIn
  <1>4. k \in CallRecords
    BY <1>1, <1>3 DEF CallRecords
  <1>5. k.pc \in {"current", "patch", "reread", "move"} => Own(k.company, k.docEntry)
    <2>1. here => Own(adopted, project.docEntry)
      BY DEF QuotationIn, IInv, RowOwn
    <2> QED
      BY <2>1
  <1> HIDE DEF here, k
  <1> QED
    BY <1>1, <1>2, <1>4, <1>5, QuietStep

\* Reading the quotation the row names leaves the request on that quotation.
LEMMA ReadCurrentKeeps ==
  ASSUME IInv, NEW c \in Calls, ReadCurrent(c)
  PROVE  IInv' /\ Kept
  <1>1. CASE Refused(c)
    BY <1>1, RefusedKeeps
  <1>2. CASE ~Refused(c)
    <2>1. At(c, "current") /\ Served(c) /\ UNCHANGED <<project, price, agent, adopted, sap>>
      BY <1>2 DEF ReadCurrent
    <2>2. calls[c] \in Busy /\ Own(agent, calls[c].docEntry)
      BY <2>1, BusyCall DEF IInv, CallOwn, At, Served
    <2>3. agent \in Companies /\ adopted \in Companies
      BY DEF IInv, TypeOK
    <2> DEFINE doc == DocAt(agent, calls[c].docEntry)
               pc == IF ~doc.open THEN "search" ELSE IF doc.key = CommandId(calls[c]) THEN "move" ELSE "patch"
               k == [calls[c] EXCEPT !.read = doc, !.pc = pc]
    <2>4. Go(c, k)
      BY <1>2, <2>2 DEF ReadCurrent, Own
    <2>5. doc \in Docs
      BY <2>2, <2>3, ElementOfSeq DEF IInv, TypeOK, DocAt, Own
    <2>6. pc \in {"search", "move", "patch"}
      OBVIOUS
    <2> HIDE DEF doc, pc
    <2>7. k \in CallRecords /\ k.company = agent /\ k.docEntry = calls[c].docEntry
      BY <2>1, <2>2, <2>5, <2>6 DEF Busy, CallRecords, Served
    <2> HIDE DEF k
    <2> QED
      BY <2>1, <2>2, <2>3, <2>4, <2>7, QuietStep
  <1> QED
    BY <1>1, <1>2

\* Binding a request to a document of Confire's.
LEMMA RecordStep ==
  ASSUME IInv, NEW c \in Calls, calls[c] \in Busy, NEW e \in Nat, Record(c, e),
         NEW co \in Companies, co = calls[c].company, Own(co, e)',
         UNCHANGED <<project, price, agent, adopted>>, sap' \in [Companies -> Seq(Docs)], Kept
  PROVE  IInv'
  <1>1. PICK k \in CallRecords :
          k = [calls[c] EXCEPT !.pc = "move", !.docEntry = e] /\ k.company = co /\ k.docEntry = e
    <2>1. [calls[c] EXCEPT !.pc = "move", !.docEntry = e] \in Busy
      BY DEF Busy
    <2>2. [calls[c] EXCEPT !.pc = "move", !.docEntry = e].company = co
          /\ [calls[c] EXCEPT !.pc = "move", !.docEntry = e].docEntry = e
      BY DEF Busy
    <2>3. Busy \subseteq CallRecords
      BY DEF Busy, CallRecords
    <2> QED
      BY <2>1, <2>2, <2>3
  <1>2. calls' = [calls EXCEPT ![c] = k] /\ agent' \in Companies /\ adopted' \in Companies
    BY <1>1 DEF Record, Go, IInv, TypeOK
  <1>3. Own(k.company, k.docEntry)'
    BY <1>1
  <1> QED
    BY <1>1, <1>2, <1>3, CallStep

\* A document found by its command id carries a key, so it is Confire's.
LEMMA SearchKeeps ==
  ASSUME IInv, NEW c \in Calls, Search(c)
  PROVE  IInv' /\ Kept
  <1>1. CASE Refused(c)
    BY <1>1, RefusedKeeps
  <1>2. CASE ~Refused(c)
    <2>1. At(c, "search") /\ Served(c) /\ UNCHANGED <<project, price, agent, adopted, sap>>
      BY <1>2 DEF Search
    <2>2. calls[c] \in Busy /\ calls[c].company = agent
      BY <2>1, BusyCall DEF IInv, At, Served
    <2>3. agent \in Companies /\ adopted \in Companies /\ sap' \in [Companies -> Seq(Docs)] /\ Kept
      BY <2>1 DEF IInv, TypeOK, Kept
    <2>4. CASE To(c, "post")
      <3> DEFINE k == [calls[c] EXCEPT !.pc = "post"]
      <3>1. k \in CallRecords /\ k.pc = "post"
        BY <2>2 DEF Busy, CallRecords
      <3>2. Go(c, k)
        BY <2>4 DEF To
      <3> HIDE DEF k
      <3> QED
        BY <2>1, <2>3, <3>1, <3>2, QuietStep
    <2>5. CASE \E e \in Found(c) : Record(c, e)
      <3>1. PICK e \in Found(c) : Record(c, e)
        BY <2>5
      <3>2. CommandId(calls[c]) \in Keys
        BY <2>2 DEF CommandId, Keys, Busy
      <3>3. Own(agent, e)
        BY <3>1, <3>2, KeysAssumption DEF Found, DocAt, Own
      <3>4. e \in Nat
        BY <2>3, <3>3 DEF Own, IInv, TypeOK
      <3>5. PICK co \in Companies : co = calls[c].company
        BY <2>2, <2>3
      <3>6. Own(co, e)'
        BY <2>1, <2>2, <3>3, <3>5 DEF Own
      <3> QED
        BY <2>1, <2>2, <2>3, <3>1, <3>4, <3>5, <3>6, RecordStep
    <2> QED
      BY <1>2, <2>4, <2>5 DEF Search
  <1> QED
    BY <1>1, <1>2

\* A posted document is Confire's, and its DocEntry is the one recorded.
LEMMA PostKeeps ==
  ASSUME IInv, NEW c \in Calls, Post(c)
  PROVE  IInv' /\ Kept
  <1>1. CASE Refused(c)
    BY <1>1, RefusedKeeps
  <1>2. CASE ~Refused(c)
    <2>1. At(c, "post") /\ Served(c) /\ UNCHANGED <<project, price, agent, adopted>>
      BY <1>2 DEF Post
    <2>2. calls[c] \in Busy /\ agent \in Companies
      BY <2>1, BusyCall DEF IInv, At, TypeOK
    <2>3. PICK co \in Companies, d \in Docs, e \in Nat :
            co = calls[c].company /\ co = agent /\ d = Quotation(calls[c]) /\ d.key # None /\ e = Len(sap[co]) + 1
      BY <2>1, <2>2, QuotationIsOwn DEF Served, IInv, TypeOK
    <2>4. sap' = [sap EXCEPT ![co] = Append(sap[co], d)] /\ Record(c, e)
      BY <1>2, <2>3 DEF Post
    <2>5. sap' \in [Companies -> Seq(Docs)] /\ Kept /\ e \in DOMAIN sap'[co] /\ sap'[co][e] = d
      BY <2>3, <2>4, AddDoc DEF IInv
    <2>6. Own(co, e)'
      BY <2>3, <2>5 DEF Own
    <2> QED
      BY <2>1, <2>2, <2>3, <2>4, <2>5, <2>6, RecordStep
  <1> QED
    BY <1>1, <1>2

\* A PATCH that lands overwrites the document as it was read, by another of
\* Confire's.
LEMMA PatchKeeps ==
  ASSUME IInv, NEW c \in Calls, Patch(c)
  PROVE  IInv' /\ Kept
  <1>1. CASE Refused(c)
    BY <1>1, RefusedKeeps
  <1>2. CASE ~Refused(c)
    <2>1. At(c, "patch") /\ Served(c) /\ UNCHANGED <<project, price, agent, adopted>>
      BY <1>2 DEF Patch
    <2>2. calls[c] \in Busy /\ agent \in Companies /\ adopted \in Companies
      BY <2>1, BusyCall DEF IInv, At, TypeOK
    <2>3. PICK co \in Companies, e \in Nat, d \in Docs :
            /\ co = calls[c].company /\ co = agent /\ e = calls[c].docEntry
            /\ d = Quotation(calls[c]) /\ d.key # None
      BY <2>1, <2>2, QuotationIsOwn DEF Served, Busy
    <2>4. Own(co, e)
      BY <2>1, <2>3 DEF IInv, CallOwn, At
    <2>5. PICK k \in CallRecords :
            k = [calls[c] EXCEPT !.pc = "move"] /\ k.company = calls[c].company /\ k.docEntry = calls[c].docEntry
      BY <2>2, GoesOn
    <2>6. PICK r \in CallRecords :
            r = [calls[c] EXCEPT !.pc = "reread"] /\ r.company = calls[c].company /\ r.docEntry = calls[c].docEntry
      BY <2>2, GoesOn
    <2>7. CASE Matches(calls[c].read, sap[co][e])
      <3>1. sap' = [sap EXCEPT ![co] = [sap[co] EXCEPT ![e] = d]] /\ To(c, "move")
        BY <1>2, <2>3, <2>7 DEF Patch, DocAt
      <3>2. Read(sap[co][e])
        BY <2>1, <2>7 DEF Matches, Read
      <3>3. sap' \in [Companies -> Seq(Docs)] /\ Kept
        BY <2>3, <2>4, <3>1, <3>2, SetDoc DEF IInv, Own
      <3>4. Own(co, e)'
        BY <2>4, <3>3, OwnKept
      <3>5. calls' = [calls EXCEPT ![c] = k]
        BY <2>5, <3>1 DEF To, Go
      <3>6. Own(k.company, k.docEntry)'
        BY <2>3, <2>5, <3>4 DEF Own
      <3> QED
        BY <2>1, <2>2, <2>3, <2>5, <3>3, <3>4, <3>5, <3>6, CallStep
    <2>8. CASE ~Matches(calls[c].read, sap[co][e])
      <3>1. To(c, "reread") /\ UNCHANGED sap
        BY <1>2, <2>3, <2>8 DEF Patch, DocAt
      <3>2. Go(c, r)
        BY <2>6, <3>1 DEF To
      <3>3. Own(r.company, r.docEntry)
        BY <2>3, <2>4, <2>6
      <3> QED
        BY <2>1, <2>2, <3>1, <3>2, <3>3, QuietStep
    <2> QED
      BY <2>7, <2>8
  <1> QED
    BY <1>1, <1>2

\* Reading a quotation again after a 412 changes nothing it carries.
LEMMA RereadKeeps ==
  ASSUME IInv, NEW c \in Calls, Reread(c)
  PROVE  IInv' /\ Kept
  <1>1. CASE Refused(c)
    BY <1>1, RefusedKeeps
  <1>2. CASE ~Refused(c)
    <2>1. At(c, "reread") /\ UNCHANGED <<project, price, agent, adopted, sap>> /\ (To(c, "move") \/ End(c))
      BY <1>2 DEF Reread
    <2>2. calls[c] \in Busy /\ agent \in Companies /\ adopted \in Companies
      BY <2>1, BusyCall DEF IInv, At, TypeOK
    <2>3. CASE To(c, "move")
      <3>1. PICK k \in CallRecords :
              k = [calls[c] EXCEPT !.pc = "move"] /\ k.company = calls[c].company /\ k.docEntry = calls[c].docEntry
        BY <2>2, GoesOn
      <3>2. Own(k.company, k.docEntry)
        BY <2>1, <3>1 DEF IInv, CallOwn, At
      <3>3. Go(c, k)
        BY <2>3, <3>1 DEF To
      <3> QED
        BY <2>1, <2>2, <3>1, <3>2, <3>3, QuietStep
    <2>4. CASE End(c)
      BY <2>1, <2>2, <2>4, EndStep
    <2> QED
      BY <2>1, <2>3, <2>4
  <1> QED
    BY <1>1, <1>2

\* The transition records a document the request owns.
LEMMA MoveKeeps ==
  ASSUME IInv, NEW c \in Calls, Move(c)
  PROVE  IInv' /\ Kept
  <1>1. At(c, "move") /\ End(c) /\ UNCHANGED <<price, agent, adopted, sap>>
    BY DEF Move
  <1>2. calls[c] \in Busy /\ project \in Projects /\ agent \in Companies /\ adopted \in Companies /\ price \in Prices
    BY <1>1, BusyCall DEF IInv, At, TypeOK
  <1>3. Own(calls[c].company, calls[c].docEntry)
    BY <1>1 DEF IInv, CallOwn, At
  <1>4. CASE project.status # "in_review"
    BY <1>1, <1>2, <1>4, EndStep DEF Move
  <1>5. CASE project.status = "in_review"
    <2> DEFINE p == [project EXCEPT !.status = "quoted", !.docEntry = calls[c].docEntry,
                       !.company = calls[c].company, !.quoted = Totals(calls[c]), !.rounds = project.rounds + 1]
    <2>1. project' = p
      BY <1>2, <1>5 DEF Move, Recorded, Projects
    <2>2. Totals(calls[c]) \in [picks: Picks, price: Prices]
      BY <1>2 DEF Totals, Busy
    <2>3. p \in Projects /\ p.status = "quoted" /\ p.docEntry = calls[c].docEntry /\ p.company = calls[c].company
      <3>1. calls[c].docEntry \in Nat /\ calls[c].company \in Companies \cup {None} /\ project.rounds + 1 \in Nat
        BY <1>2 DEF Busy, Projects
      <3>2. "quoted" \in Statuses
        BY DEF Statuses
      <3> QED
        BY <1>2, <2>2, <3>1, <3>2 DEF Projects
    <2>4. calls[c].docEntry # 0 /\ calls[c].company \in Companies
      <3>1. calls[c].company \in Companies
        BY <1>2 DEF Busy
      <3>2. DOMAIN sap[calls[c].company] = 1..Len(sap[calls[c].company])
        BY <3>1 DEF IInv, TypeOK
      <3> QED
        BY <1>3, <3>1, <3>2 DEF Own
    <2> HIDE DEF p
    <2>5. Idle \in CallRecords
      BY DEF Idle, CallRecords
    <2>6. TypeOK'
      BY <1>1, <2>1, <2>3, <2>5 DEF IInv, TypeOK, End, Go
    <2>7. RowOwn'
      BY <1>1, <1>3, <2>1, <2>3, <2>4 DEF RowOwn, Own
    <2>8. ASSUME NEW d \in Calls PROVE CallOwn(d)'
      <3>1. calls'[d] = calls[d] \/ calls'[d] = Idle
        BY <1>1 DEF End, Go, IInv, TypeOK
      <3> QED
        BY <1>1, <3>1 DEF IInv, CallOwn, Own, Idle
    <2>9. Kept
      BY <1>1 DEF Kept
    <2> QED
      BY <2>6, <2>7, <2>8, <2>9 DEF IInv
  <1> QED
    BY <1>4, <1>5

\* Every step of a request, the one that cuts it short included.
LEMMA QuoteKeeps ==
  ASSUME IInv, NEW c \in Calls, Quote(c) \/ Abort(c)
  PROVE  IInv' /\ Kept
  <1>1. CASE Abort(c)
    BY <1>1, EndStep DEF Abort, IInv, TypeOK
  <1>2. CASE Quote(c)
    BY <1>2, LoadKeeps, ReadCurrentKeeps, SearchKeeps, PostKeeps, PatchKeeps, RereadKeeps, MoveKeeps DEF Quote
  <1> QED
    BY <1>1, <1>2

-----------------------------------------------------------------------------
(* Everybody else *)

\* The row's status and picks may change as long as nothing becomes quoted.
LEMMA RowChange ==
  ASSUME IInv, NEW s \in Statuses, NEW p \in Picks \cup {None},
         project' = [project EXCEPT !.status = s, !.picks = p],
         s = "quoted" => project.status = "quoted",
         UNCHANGED <<price, agent, adopted, sap, calls>>
  PROVE  IInv' /\ Kept
  <1>1. project \in Projects /\ price \in Prices /\ agent \in Companies /\ adopted \in Companies
    BY DEF IInv, TypeOK
  <1>2. /\ project' \in Projects /\ project'.status = s
        /\ project'.docEntry = project.docEntry /\ project'.company = project.company
    BY <1>1 DEF Projects
  <1>3. RowOwn'
    BY <1>2 DEF IInv, RowOwn, Own
  <1> QED
    BY <1>1, <1>2, <1>3, RowStep

\* Selecting, declining, handing back and taking up move only status and picks.
LEMMA RowMovesKeep ==
  ASSUME IInv, (\E picks \in Picks \cup {None} : Repick(picks)) \/ Decline \/ HandBack \/ TakeUp
  PROVE  IInv' /\ Kept
  <1>1. project \in Projects /\ project.status \in Statuses /\ project.picks \in Picks \cup {None}
    BY DEF IInv, TypeOK, Projects
  <1>2. CASE \E picks \in Picks \cup {None} : Repick(picks)
    <2>1. PICK picks \in Picks \cup {None} : Repick(picks)
      BY <1>2
    <2>2. project' = [project EXCEPT !.status = project.status, !.picks = picks]
      BY <1>1, <2>1 DEF Repick, Projects
    <2> QED
      BY <1>1, <2>1, <2>2, RowChange DEF Repick
  <1>3. CASE Decline \/ HandBack \/ TakeUp
    <2>1. "in_review" \in Statuses /\ "returned" \in Statuses
      BY DEF Statuses
    <2>2. PICK s \in {"in_review", "returned"} : project' = [project EXCEPT !.status = s]
      BY <1>3 DEF Decline, HandBack, TakeUp
    <2>3. project' = [project EXCEPT !.status = s, !.picks = project.picks]
      BY <1>1, <2>2 DEF Projects
    <2>4. UNCHANGED <<price, agent, adopted, sap, calls>>
      BY <1>3 DEF Decline, HandBack, TakeUp
    <2> QED
      BY <1>1, <2>1, <2>2, <2>3, <2>4, RowChange
  <1> QED
    BY <1>2, <1>3

\* Prices and companies are free to change.
LEMMA SettingsKeep ==
  ASSUME IInv, (\E p \in Prices : Reprice(p)) \/ (\E co \in Companies : Switch(co)) \/ Adopt
  PROVE  IInv' /\ Kept
  <1>1. /\ project' \in Projects /\ price' \in Prices /\ agent' \in Companies /\ adopted' \in Companies
        /\ UNCHANGED <<project, sap, calls>>
    BY DEF IInv, TypeOK, Reprice, Switch, Adopt
  <1>2. RowOwn'
    BY <1>1 DEF IInv, RowOwn, Own
  <1> QED
    BY <1>1, <1>2, RowStep

\* A SAP user closes or edits a document without making it another's.
LEMMA DocsKeep ==
  ASSUME IInv, NEW e \in 1..MaxDocs, Close(e) \/ Touch(e)
  PROVE  IInv' /\ Kept
  <1>1. UNCHANGED <<project, price, agent, adopted, calls>> /\ e \in DOMAIN sap[agent] /\ agent \in Companies
    BY DEF Close, Touch, IInv, TypeOK
  <1>2. sap[agent][e] \in Docs /\ sap \in [Companies -> Seq(Docs)]
    BY <1>1, ElementOfSeq DEF IInv, TypeOK
  <1>3. PICK d \in Docs :
          /\ d.key = sap[agent][e].key
          /\ sap[agent][e].touched => d.touched
          /\ sap' = [sap EXCEPT ![agent] = [sap[agent] EXCEPT ![e] = d]]
    <2>1. CASE Close(e)
      <3> DEFINE d == [sap[agent][e] EXCEPT !.open = FALSE]
      <3>1. d \in Docs /\ d.key = sap[agent][e].key /\ d.touched = sap[agent][e].touched
        BY <1>2 DEF Docs
      <3>2. sap' = [sap EXCEPT ![agent] = [sap[agent] EXCEPT ![e] = d]]
        BY <2>1 DEF Close
      <3> QED
        BY <3>1, <3>2
    <2>2. CASE Touch(e)
      <3> DEFINE d == [sap[agent][e] EXCEPT !.touched = TRUE]
      <3>1. d \in Docs /\ d.key = sap[agent][e].key /\ d.touched
        BY <1>2 DEF Docs
      <3>2. sap' = [sap EXCEPT ![agent] = [sap[agent] EXCEPT ![e] = d]]
        BY <2>2 DEF Touch
      <3> QED
        BY <3>1, <3>2
    <2> QED
      BY <2>1, <2>2
  <1>4. PICK co \in Companies : co = agent
    BY <1>1
  <1>5. /\ e \in DOMAIN sap[co]
        /\ d.key = None <=> sap[co][e].key = None
        /\ sap[co][e].touched /\ ~d.touched => Read(sap[co][e])
        /\ sap' = [sap EXCEPT ![co] = [sap[co] EXCEPT ![e] = d]]
    BY <1>1, <1>3, <1>4
  <1>6. sap' \in [Companies -> Seq(Docs)] /\ Kept
    BY <1>5, SetDoc DEF IInv
  <1> QED
    BY <1>1, <1>6, SapStep

\* A document a SAP user writes is nobody's of Confire's.
LEMMA ForeignKeeps ==
  ASSUME IInv, Foreign
  PROVE  IInv' /\ Kept
  <1>1. PICK co \in Companies : co = agent
    BY DEF IInv, TypeOK
  <1>2. PICK d \in Docs : d = [key |-> None, picks |-> None, price |-> None, open |-> TRUE, touched |-> TRUE]
    BY DEF Docs
  <1>3. sap' = [sap EXCEPT ![co] = Append(sap[co], d)]
    BY <1>1, <1>2 DEF Foreign
  <1>4. sap' \in [Companies -> Seq(Docs)] /\ Kept
    BY <1>3, AddDoc DEF IInv
  <1> QED
    BY <1>4, SapStep DEF Foreign

\* Every step of the specification keeps the invariant and what documents are.
LEMMA StepKeeps ==
  ASSUME IInv, [Next]_vars
  PROVE  IInv' /\ Kept
  <1>1. CASE \E c \in Calls : Quote(c) \/ Abort(c)
    BY <1>1, QuoteKeeps
  <1>2. CASE Others
    <2>1. CASE \E e \in 1..MaxDocs : Close(e) \/ Touch(e)
      BY <2>1, DocsKeep
    <2> QED
      BY <1>2, <2>1, RowMovesKeep, SettingsKeep, ForeignKeeps DEF Others
  <1>3. CASE UNCHANGED vars
    <2>1. RowOwn' /\ project' \in Projects /\ price' \in Prices /\ agent' \in Companies /\ adopted' \in Companies
      BY <1>3 DEF vars, IInv, TypeOK, RowOwn, Own
    <2> QED
      BY <1>3, <2>1, RowStep DEF vars
  <1> QED
    BY <1>1, <1>2, <1>3 DEF Next

-----------------------------------------------------------------------------
(* Theorems *)

\* The inductive invariant holds throughout.
THEOREM Invariance == Spec => []IInv
  <1>1. IInv /\ [Next]_vars => IInv'
    BY StepKeeps
  <1> QED
    BY InitIInv, <1>1, PTL DEF Spec

\* The row, SAP's documents and the requests in flight stay within their types.
THEOREM TypeCorrect == Spec => []TypeOK
  <1>1. IInv => TypeOK
    BY DEF IInv
  <1> QED
    BY Invariance, <1>1, PTL

\* However many requests overlap, get lost, are retried, or meet a switched
\* company, a quoted project names, in the company it says, a document that
\* createQuote posted.
THEOREM QuotedNamesDocument == Spec => []QuotedHasDocument
  <1>1. IInv => QuotedHasDocument
    BY DEF IInv, RowOwn, Own, QuotedHasDocument, Named, DocAt
  <1> QED
    BY Invariance, <1>1, PTL

\* No request ever patches a document that Confire did not post, whatever
\* DocEntry and company it was loaded with.
THEOREM ForeignSafe == Spec => ForeignUntouched
  <1> DEFINE Safe == \A co \in Companies : \A e \in DOMAIN sap[co] :
                       sap[co][e].key = None => e \in DOMAIN sap'[co] /\ sap'[co][e].key = None
  <1>1. IInv /\ [Next]_vars => Safe
    BY StepKeeps DEF Kept
  <1> QED
    BY Invariance, <1>1, PTL DEF Spec, ForeignUntouched

\* What a SAP user typed into a quotation disappears only in the PATCH of a
\* request that has read it.
THEOREM EditsRespected == Spec => UnseenEditsSurvive
  <1> DEFINE Safe == \A co \in Companies : \A e \in DOMAIN sap[co] :
                       sap[co][e].touched /\ ~sap'[co][e].touched
                         => \E c \in Calls : At(c, "patch") /\ calls[c].read = sap[co][e]
  <1>1. IInv /\ [Next]_vars => Safe
    BY StepKeeps DEF Kept, Read
  <1> QED
    BY Invariance, <1>1, PTL DEF Spec, UnseenEditsSurvive

-----------------------------------------------------------------------------
(* One request at a time.  Documents are chained by what their keys replace, *)
(* and a request that posts has looked for its own link of the chain.        *)

\* The requests of a project follow one another.
Single == \A c, d \in Calls : c = d

\* A keyed document holds what its key names, comes no earlier than what it
\* replaces, and replaces only what is closed.
Linked(co, d) ==
  sap[co][d].key # None =>
    /\ sap[co][d].key.picks = sap[co][d].picks
    /\ sap[co][d].key.replaces <= d
    /\ sap[co][d].key.replaces \notin {0, d}
         => /\ sap[co][d].key.replaces \in DOMAIN sap[co]
            /\ ~sap[co][sap[co][d].key.replaces].open

\* Of two documents with one key, one replaces the other.
OnceEach(co, d, e) ==
  d # e /\ sap[co][d].key # None /\ sap[co][d].key = sap[co][e].key => sap[co][d].key.replaces \in {d, e}

Chained ==
  \A co \in Companies : \A d \in DOMAIN sap[co] :
    Linked(co, d) /\ \A e \in DOMAIN sap[co] : OnceEach(co, d, e)

\* Until it records a document a request is about the row's quotation in its
\* company, if there is one.
AboutRow(k) ==
  /\ k.pc \in {"current", "search", "patch", "post", "reread"} =>
       /\ k.here <=> QuotationIn(project, k.company)
       /\ k.here => k.docEntry = project.docEntry
  /\ k.pc \in {"current", "patch", "reread"} => k.here

\* It patches what was open and replaces what is closed.
OpenOrClosed(k) ==
  /\ k.pc = "patch" => k.read.open
  /\ k.pc \in {"search", "post"} /\ k.here => ~sap[k.company][k.docEntry].open

\* It posts what no document but its predecessor carries the command id of.
Unposted(k) ==
  k.pc = "post" =>
    \A e \in DOMAIN sap[k.company] :
      sap[k.company][e].key = CommandId(k) => k.here /\ e = k.docEntry

\* It records a document of its own picks, and none before the row's.
Carries(k) ==
  k.pc = "move" =>
    /\ sap[k.company][k.docEntry].key.picks = k.picks
    /\ QuotationIn(project, k.company) => project.docEntry <= k.docEntry

Sound(k) == AboutRow(k) /\ OpenOrClosed(k) /\ Unposted(k) /\ Carries(k)

\* A quoted project is nobody's to quote, and names what was recorded.
Settled ==
  project.status = "quoted" =>
    /\ \A c \in Calls : calls[c].pc = "idle"
    /\ sap[project.company][project.docEntry].key.picks = project.quoted.picks

QInv == Chained /\ Settled /\ \A c \in Calls : Sound(calls[c])

\* A request that only goes on.
LEMMA QuietSound ==
  ASSUME Single, IInv, QInv, NEW c \in Calls, NEW k \in CallRecords, Go(c, k), UNCHANGED <<project, sap>>,
         Sound(k), project.status = "quoted" => k.pc = "idle"
  PROVE  QInv'
  <1>1. \A d \in Calls : calls'[d] = k
    BY DEF Single, Go, IInv, TypeOK
  <1>2. Chained'
    BY DEF QInv, Chained, Linked, OnceEach
  <1>3. Settled'
    BY <1>1 DEF QInv, Settled
  <1>4. \A d \in Calls : Sound(calls[d])'
    BY <1>1 DEF Sound, AboutRow, OpenOrClosed, Unposted, Carries, QuotationIn, CommandId
  <1> QED
    BY <1>2, <1>3, <1>4 DEF QInv

\* A request under way keeps the project from being quoted.
LEMMA BusyUnquoted ==
  ASSUME QInv, NEW c \in Calls, calls[c].pc # "idle"
  PROVE  project.status # "quoted"
  BY DEF QInv, Settled

\* A request that ends.
LEMMA EndSound ==
  ASSUME Single, IInv, QInv, NEW c \in Calls, End(c), UNCHANGED <<project, sap>>
  PROVE  QInv'
  <1>1. Idle \in CallRecords /\ Idle.pc = "idle"
    BY DEF Idle, CallRecords
  <1>2. Sound(Idle)
    BY <1>1 DEF Sound, AboutRow, OpenOrClosed, Unposted, Carries
  <1> QED
    BY <1>1, <1>2, QuietSound DEF End

\* A request that begins is about the row as it is.
LEMMA LoadSound ==
  ASSUME Single, IInv, QInv, NEW c \in Calls, Load(c)
  PROVE  QInv'
  <1> DEFINE here == QuotationIn(project, adopted)
             k == [pc |-> IF here THEN "current" ELSE "search", company |-> adopted,
                   picks |-> project.picks, price |-> price, here |-> here,
                   docEntry |-> IF here THEN project.docEntry ELSE 0, read |-> None]
  <1>1. project \in Projects /\ price \in Prices /\ adopted \in Companies
    BY DEF IInv, TypeOK
  <1>2. Go(c, k) /\ UNCHANGED <<project, sap>> /\ project.picks # None /\ project.status # "quoted"
    BY DEF Load, CanWrite, WritableBy
  <1>3. here \in BOOLEAN /\ project.picks \in Picks /\ project.docEntry \in Nat
    BY <1>1, <1>2 DEF Projects, QuotationIn
  <1>4. k \in CallRecords
    BY <1>1, <1>3 DEF CallRecords
  <1>5. Sound(k)
    BY <1>3 DEF Sound, AboutRow, OpenOrClosed, Unposted, Carries
  <1> HIDE DEF here, k
  <1> QED
    BY <1>2, <1>4, <1>5, QuietSound

\* Reading the row's quotation decides between patching it and replacing it.
LEMMA ReadCurrentSound ==
  ASSUME Single, IInv, QInv, NEW c \in Calls, ReadCurrent(c)
  PROVE  QInv'
  <1>1. CASE Refused(c)
    BY <1>1, EndSound DEF Refused
  <1>2. CASE ~Refused(c)
    <2>1. At(c, "current") /\ Served(c) /\ UNCHANGED <<project, sap>>
      BY <1>2 DEF ReadCurrent
    <2>2. calls[c] \in Busy /\ Own(agent, calls[c].docEntry) /\ calls[c].company = agent
      BY <2>1, BusyCall DEF IInv, CallOwn, At, Served
    <2>3. agent \in Companies
      BY DEF IInv, TypeOK
    <2> DEFINE doc == sap[agent][calls[c].docEntry]
               pc == IF ~doc.open THEN "search" ELSE IF doc.key = CommandId(calls[c]) THEN "move" ELSE "patch"
               k == [calls[c] EXCEPT !.read = doc, !.pc = pc]
    <2>4. Go(c, k)
      BY <1>2, <2>2 DEF ReadCurrent, Own, DocAt
    <2>5. doc \in Docs
      BY <2>2, <2>3, ElementOfSeq DEF IInv, TypeOK, Own
    <2>6. doc.key = CommandId(calls[c]) => doc.key.picks = calls[c].picks
      BY DEF CommandId
    <2>7. pc \in {"search", "move", "patch"} /\ (pc = "search" => ~doc.open) /\ (pc = "patch" => doc.open)
          /\ (pc = "move" => doc.key.picks = calls[c].picks)
      BY <2>6
    <2>8. /\ AboutRow(calls[c]) /\ calls[c].pc = "current" /\ project.docEntry \in Nat
      BY <2>1 DEF QInv, Sound, At, IInv, TypeOK, Projects
    <2> HIDE DEF doc, pc
    <2>9. /\ k \in CallRecords /\ k.company = agent /\ k.docEntry = calls[c].docEntry
          /\ k.here = calls[c].here /\ k.read = doc /\ k.pc = pc /\ k.picks = calls[c].picks
      BY <2>2, <2>5, <2>7 DEF Busy, CallRecords
    <2> HIDE DEF k
    <2>10. doc = sap[k.company][k.docEntry]
      BY <2>9 DEF doc
    <2>11. Sound(k)
      BY <2>2, <2>7, <2>8, <2>9, <2>10 DEF Sound, AboutRow, OpenOrClosed, Unposted, Carries
    <2> QED
      BY <2>1, <2>4, <2>8, <2>9, <2>11, QuietSound, BusyUnquoted
  <1> QED
    BY <1>1, <1>2

\* What is found by its command id comes after what it replaces; what is not
\* found is not there.
LEMMA SearchSound ==
  ASSUME Single, IInv, QInv, NEW c \in Calls, Search(c)
  PROVE  QInv'
  <1>1. CASE Refused(c)
    BY <1>1, EndSound DEF Refused
  <1>2. CASE ~Refused(c)
    <2>1. calls[c].pc = "search" /\ UNCHANGED <<project, sap>> /\ calls[c].company = agent
      BY <1>2 DEF Search, At, Served
    <2>2. calls[c] \in Busy /\ agent \in Companies /\ project.docEntry \in Nat
      BY <2>1, BusyCall DEF IInv, TypeOK, Projects
    <2>3. AboutRow(calls[c]) /\ OpenOrClosed(calls[c])
      BY DEF QInv, Sound
    <2>4. CASE To(c, "post") /\ Found(c) = {}
      <3> DEFINE k == [calls[c] EXCEPT !.pc = "post"]
      <3>1. /\ k \in CallRecords /\ k.pc = "post" /\ k.here = calls[c].here /\ k.company = agent
            /\ k.docEntry = calls[c].docEntry /\ CommandId(k) = CommandId(calls[c]) /\ k.here \in BOOLEAN
        BY <2>1, <2>2 DEF Busy, CallRecords, CommandId
      <3>2. Go(c, k)
        BY <2>4 DEF To
      <3> HIDE DEF k
      <3>3. \A e \in DOMAIN sap[agent] : sap[agent][e].key = CommandId(k) => k.here /\ e = k.docEntry
        BY <2>4, <3>1 DEF Found, DocAt
      <3>4. Sound(k)
        BY <2>1, <2>3, <3>1, <3>3 DEF Sound, AboutRow, OpenOrClosed, Unposted, Carries
      <3> QED
        BY <2>1, <3>1, <3>2, <3>4, QuietSound, BusyUnquoted
    <2>5. CASE \E e \in Found(c) : Record(c, e)
      <3>1. PICK e \in Found(c) : Record(c, e)
        BY <2>5
      <3>2. CommandId(calls[c]) \in Keys
        BY <2>2 DEF CommandId, Keys, Busy
      <3>3. e \in DOMAIN sap[agent] /\ sap[agent][e].key = CommandId(calls[c]) /\ sap[agent][e].key # None
        BY <3>1, <3>2, KeysAssumption DEF Found, DocAt
      <3>4. e \in Nat /\ sap[agent][e].key.replaces <= e /\ sap[agent][e].key.picks = calls[c].picks
        BY <2>2, <3>3 DEF IInv, TypeOK, QInv, Chained, Linked, CommandId
      <3> DEFINE k == [calls[c] EXCEPT !.pc = "move", !.docEntry = e]
      <3>5. k \in CallRecords /\ k.pc = "move" /\ k.company = agent /\ k.docEntry = e /\ k.picks = calls[c].picks
        BY <2>1, <2>2, <3>4 DEF Busy, CallRecords
      <3>6. Go(c, k)
        BY <3>1 DEF Record
      <3> HIDE DEF k
      <3>7. QuotationIn(project, agent) => project.docEntry <= e
        <4>1. QuotationIn(project, agent) => calls[c].here /\ calls[c].docEntry = project.docEntry
          BY <2>1, <2>3 DEF AboutRow
        <4> QED
          BY <3>3, <3>4, <4>1 DEF CommandId
      <3>8. Sound(k)
        BY <3>4, <3>5, <3>7 DEF Sound, AboutRow, OpenOrClosed, Unposted, Carries
      <3> QED
        BY <2>1, <3>5, <3>6, <3>8, QuietSound, BusyUnquoted
    <2> QED
      BY <1>2, <2>4, <2>5 DEF Search
  <1> QED
    BY <1>1, <1>2

\* A document is appended to a company's, or written in place of another.
Adds(co, d) == sap' = [sap EXCEPT ![co] = Append(sap[co], d)]
Sets(co, e, d) == sap' = [sap EXCEPT ![co] = [sap[co] EXCEPT ![e] = d]]

\* What appending a document leaves and adds.
LEMMA DocAdded ==
  ASSUME TypeOK, NEW co \in Companies, NEW d \in Docs, NEW n \in Nat, n = Len(sap[co]) + 1, Adds(co, d)
  PROVE  /\ n \notin DOMAIN sap[co] /\ DOMAIN sap'[co] = DOMAIN sap[co] \cup {n}
         /\ \A e \in DOMAIN sap[co] : e \in Nat /\ e < n /\ sap'[co][e] = sap[co][e]
         /\ sap'[co][n] = d /\ \A o \in Companies : o # co => sap'[o] = sap[o]
  <1>1. sap[co] \in Seq(Docs)
    BY DEF TypeOK
  <1>2. /\ Append(sap[co], d) \in Seq(Docs) /\ Len(Append(sap[co], d)) = Len(sap[co]) + 1
        /\ \A j \in 1..Len(sap[co]) : Append(sap[co], d)[j] = sap[co][j]
        /\ Append(sap[co], d)[Len(sap[co]) + 1] = d
    BY <1>1, AppendProperties
  <1>3. sap'[co] = Append(sap[co], d) /\ \A o \in Companies : o # co => sap'[o] = sap[o]
    BY DEF TypeOK, Adds
  <1>4. Len(sap[co]) \in Nat /\ DOMAIN sap[co] = 1..Len(sap[co]) /\ DOMAIN sap'[co] = 1..n
    BY <1>1, <1>2, <1>3
  <1> QED
    BY <1>2, <1>3, <1>4

\* What writing a document in place leaves.
LEMMA DocSet ==
  ASSUME TypeOK, NEW co \in Companies, NEW e \in DOMAIN sap[co], NEW d \in Docs, Sets(co, e, d)
  PROVE  /\ DOMAIN sap'[co] = DOMAIN sap[co] /\ sap'[co][e] = d
         /\ \A j \in DOMAIN sap[co] : j \in Nat /\ (j # e => sap'[co][j] = sap[co][j])
         /\ \A o \in Companies : o # co => sap'[o] = sap[o]
  <1>1. sap[co] \in Seq(Docs) /\ e \in 1..Len(sap[co])
    BY DEF TypeOK
  <1>2. /\ Len([sap[co] EXCEPT ![e] = d]) = Len(sap[co]) /\ [sap[co] EXCEPT ![e] = d] \in Seq(Docs)
        /\ \A j \in 1..Len(sap[co]) : [sap[co] EXCEPT ![e] = d][j] = IF j = e THEN d ELSE sap[co][j]
    BY <1>1, ExceptSeq
  <1>3. sap'[co] = [sap[co] EXCEPT ![e] = d] /\ \A o \in Companies : o # co => sap'[o] = sap[o]
    BY DEF TypeOK, Sets
  <1>4. DOMAIN sap[co] = 1..Len(sap[co]) /\ DOMAIN sap'[co] = 1..Len(sap[co])
    BY <1>1, <1>2, <1>3
  <1> QED
    BY <1>1, <1>2, <1>3, <1>4

\* The row's quotation, which a request rewrites or replaces, is a document of
\* its company.
LEMMA RowQuotation ==
  ASSUME IInv, NEW k \in Busy, AboutRow(k), k.pc \notin {"move"}, k.here
  PROVE  /\ k.docEntry \in DOMAIN sap[k.company] /\ k.docEntry \in Nat
         /\ k.docEntry = project.docEntry /\ k.docEntry # 0
  <1>1. QuotationIn(project, k.company) /\ k.docEntry = project.docEntry
    BY DEF AboutRow, Busy
  <1> QED
    BY <1>1 DEF QuotationIn, IInv, RowOwn, Own, Busy

\* A request that has posted or patched, and will record it.
LEMMA WroteSound ==
  ASSUME Single, IInv, QInv, NEW c \in Calls, calls[c].pc # "idle", NEW k \in CallRecords, k.pc = "move",
         Go(c, k), project' = project, Chained', Carries(k)'
  PROVE  QInv'
  <1>1. \A d \in Calls : calls'[d] = k
    BY DEF Single, Go, IInv, TypeOK
  <1>2. Settled'
    BY BusyUnquoted DEF Settled
  <1>3. \A d \in Calls : Sound(calls[d])'
    BY <1>1 DEF Sound, AboutRow, OpenOrClosed, Unposted, Carries, QuotationIn
  <1> QED
    BY <1>2, <1>3 DEF QInv

\* A posted document is a new link: nothing else carries its key, unless it is
\* what it replaces.
LEMMA PostSound ==
  ASSUME Single, IInv, QInv, NEW c \in Calls, Post(c)
  PROVE  QInv'
  <1>1. CASE Refused(c)
    BY <1>1, EndSound DEF Refused
  <1>2. CASE ~Refused(c)
    <2>1. calls[c].pc = "post" /\ project' = project /\ calls[c].company = agent
      BY <1>2 DEF Post, At, Served
    <2>2. calls[c] \in Busy /\ agent \in Companies /\ TypeOK
      BY <2>1, BusyCall DEF IInv, TypeOK
    <2>3. PICK co \in Companies, d \in Docs, n \in Nat :
            co = agent /\ d = Quotation(calls[c]) /\ d.key # None /\ n = Len(sap[co]) + 1
      BY <2>1, <2>2, QuotationIsOwn DEF TypeOK
    <2>4. Adds(co, d) /\ Record(c, n)
      BY <1>2, <2>3 DEF Post, Adds
    <2>5. /\ n \notin DOMAIN sap[co] /\ DOMAIN sap'[co] = DOMAIN sap[co] \cup {n}
          /\ \A e \in DOMAIN sap[co] : e \in Nat /\ e < n /\ sap'[co][e] = sap[co][e]
          /\ sap'[co][n] = d /\ \A o \in Companies : o # co => sap'[o] = sap[o]
      BY <2>2, <2>3, <2>4, DocAdded
    <2>6. /\ d.key = CommandId(calls[c]) /\ d.picks = calls[c].picks /\ d.key.picks = calls[c].picks
          /\ d.key.replaces = IF calls[c].here THEN calls[c].docEntry ELSE 0
      BY <2>3 DEF Quotation, CommandId
    <2>7. AboutRow(calls[c]) /\ OpenOrClosed(calls[c]) /\ Unposted(calls[c])
      BY DEF QInv, Sound
    <2>8. calls[c].here => /\ calls[c].docEntry \in DOMAIN sap[co] /\ calls[c].docEntry = project.docEntry
                           /\ ~sap[co][calls[c].docEntry].open
      BY <2>1, <2>2, <2>3, <2>7, RowQuotation DEF OpenOrClosed
    <2>9. \A e \in DOMAIN sap[co] : sap[co][e].key = d.key => calls[c].here /\ e = calls[c].docEntry
      BY <2>1, <2>3, <2>6, <2>7 DEF Unposted
    <2>10. ASSUME NEW j \in DOMAIN sap'[co] PROVE Linked(co, j)'
      <3>1. CASE j = n
        BY <2>3, <2>5, <2>6, <2>8, <3>1 DEF Linked
      <3>2. CASE j \in DOMAIN sap[co]
        BY <2>5, <3>2 DEF QInv, Chained, Linked
      <3> QED
        BY <2>5, <3>1, <3>2
    <2>11. ASSUME NEW j \in DOMAIN sap'[co], NEW e \in DOMAIN sap'[co] PROVE OnceEach(co, j, e)'
      <3>1. CASE j \in DOMAIN sap[co] /\ e \in DOMAIN sap[co]
        BY <2>5, <3>1 DEF QInv, Chained, OnceEach
      <3>2. CASE j = n /\ e \in DOMAIN sap[co]
        BY <2>5, <2>6, <2>9, <3>2 DEF OnceEach
      <3>3. CASE j \in DOMAIN sap[co] /\ e = n
        BY <2>5, <2>6, <2>9, <3>3 DEF OnceEach
      <3>4. CASE j = n /\ e = n
        BY <3>4 DEF OnceEach
      <3> QED
        BY <2>5, <3>1, <3>2, <3>3, <3>4
    <2>12. ASSUME NEW o \in Companies, o # co, NEW j \in DOMAIN sap'[o]
           PROVE  Linked(o, j)' /\ \A e \in DOMAIN sap'[o] : OnceEach(o, j, e)'
      BY <2>5, <2>12 DEF QInv, Chained, Linked, OnceEach
    <2>13. Chained'
      BY <2>10, <2>11, <2>12 DEF Chained
    <2>14. PICK k \in CallRecords : /\ k = [calls[c] EXCEPT !.pc = "move", !.docEntry = n]
                                   /\ k.pc = "move" /\ k.company = co /\ k.docEntry = n
                                   /\ k.picks = calls[c].picks
      <3> DEFINE moved == [calls[c] EXCEPT !.pc = "move", !.docEntry = n]
      <3>1. /\ moved \in CallRecords /\ moved.pc = "move" /\ moved.company = co /\ moved.docEntry = n
            /\ moved.picks = calls[c].picks
        BY <2>1, <2>2, <2>3 DEF Busy, CallRecords
      <3> QED
        BY <3>1
    <2>15. Go(c, k)
      BY <2>4, <2>14 DEF Record
    <2>16. QuotationIn(project, co) => project.docEntry <= n
      BY <2>1, <2>3, <2>5, <2>7, <2>8 DEF AboutRow
    <2>17. Carries(k)'
      BY <2>1, <2>5, <2>6, <2>14, <2>16 DEF Carries, QuotationIn
    <2> QED
      BY <2>1, <2>13, <2>14, <2>15, <2>17, WroteSound
  <1> QED
    BY <1>1, <1>2

\* A PATCH that lands makes the open quotation its own successor.
LEMMA PatchSound ==
  ASSUME Single, IInv, QInv, NEW c \in Calls, Patch(c)
  PROVE  QInv'
  <1>1. CASE Refused(c)
    BY <1>1, EndSound DEF Refused
  <1>2. CASE ~Refused(c)
    <2>1. calls[c].pc = "patch" /\ project' = project /\ calls[c].company = agent
      BY <1>2 DEF Patch, At, Served
    <2>2. calls[c] \in Busy /\ agent \in Companies /\ TypeOK
      BY <2>1, BusyCall DEF IInv, TypeOK
    <2>3. AboutRow(calls[c]) /\ OpenOrClosed(calls[c]) /\ calls[c].here
      BY <2>1 DEF QInv, Sound, AboutRow
    <2>4. PICK co \in Companies, e \in Nat, d \in Docs :
            co = agent /\ e = calls[c].docEntry /\ d = Quotation(calls[c])
      BY <2>2, QuotationIsOwn DEF Busy
    <2>5. e \in DOMAIN sap[co] /\ e = project.docEntry /\ e # 0
      BY <2>1, <2>2, <2>3, <2>4, RowQuotation
    <2>6. d.picks = calls[c].picks /\ d.key.picks = calls[c].picks /\ d.key.replaces = e
      BY <2>3, <2>4 DEF Quotation, CommandId
    <2>7. CASE Matches(calls[c].read, sap[co][e])
      <3>1. Sets(co, e, d) /\ To(c, "move")
        BY <1>2, <2>4, <2>7 DEF Patch, DocAt, Sets
      <3>2. /\ DOMAIN sap'[co] = DOMAIN sap[co] /\ sap'[co][e] = d
            /\ \A j \in DOMAIN sap[co] : j \in Nat /\ (j # e => sap'[co][j] = sap[co][j])
            /\ \A o \in Companies : o # co => sap'[o] = sap[o]
        BY <2>2, <2>4, <2>5, <3>1, DocSet
      <3>3. sap[co][e].open
        BY <2>1, <2>3, <2>7 DEF Matches, OpenOrClosed
      <3>4. ASSUME NEW j \in DOMAIN sap'[co] PROVE Linked(co, j)'
        <4>1. CASE j = e
          BY <2>6, <3>2, <4>1 DEF Linked
        <4>2. CASE j # e
          BY <3>2, <3>3, <4>2 DEF QInv, Chained, Linked
        <4> QED
          BY <4>1, <4>2
      <3>5. ASSUME NEW j \in DOMAIN sap'[co], NEW i \in DOMAIN sap'[co] PROVE OnceEach(co, j, i)'
        BY <2>6, <3>2 DEF QInv, Chained, OnceEach
      <3>6. ASSUME NEW o \in Companies, o # co, NEW j \in DOMAIN sap'[o]
            PROVE  Linked(o, j)' /\ \A i \in DOMAIN sap'[o] : OnceEach(o, j, i)'
        BY <3>2, <3>6 DEF QInv, Chained, Linked, OnceEach
      <3>7. Chained'
        BY <3>4, <3>5, <3>6 DEF Chained
      <3>8. PICK k \in CallRecords : /\ k = [calls[c] EXCEPT !.pc = "move"]
                                    /\ k.pc = "move" /\ k.company = co /\ k.docEntry = e
                                    /\ k.picks = calls[c].picks
        <4> DEFINE moved == [calls[c] EXCEPT !.pc = "move"]
        <4>1. /\ moved \in CallRecords /\ moved.pc = "move" /\ moved.company = co /\ moved.docEntry = e
              /\ moved.picks = calls[c].picks
          BY <2>1, <2>2, <2>4 DEF Busy, CallRecords
        <4> QED
          BY <4>1
      <3>9. Go(c, k)
        BY <3>1, <3>8 DEF To
      <3>10. Carries(k)'
        BY <2>1, <2>5, <2>6, <3>2, <3>8 DEF Carries
      <3> QED
        BY <2>1, <3>7, <3>8, <3>9, <3>10, WroteSound
    <2>8. CASE ~Matches(calls[c].read, sap[co][e])
      <3>1. To(c, "reread") /\ UNCHANGED sap
        BY <1>2, <2>4, <2>8 DEF Patch, DocAt
      <3> DEFINE k == [calls[c] EXCEPT !.pc = "reread"]
      <3>2. /\ k \in CallRecords /\ k.pc = "reread" /\ k.company = co /\ k.docEntry = e /\ k.here = calls[c].here
        BY <2>1, <2>2, <2>4 DEF Busy, CallRecords
      <3>3. Go(c, k)
        BY <3>1 DEF To
      <3> HIDE DEF k
      <3>4. Sound(k)
        BY <2>1, <2>3, <2>4, <3>2 DEF Sound, AboutRow, OpenOrClosed, Unposted, Carries
      <3> QED
        BY <2>1, <3>1, <3>2, <3>3, <3>4, QuietSound, BusyUnquoted
    <2> QED
      BY <2>7, <2>8
  <1> QED
    BY <1>1, <1>2

\* After a 412 only its own PATCH, found landed, is recorded.
LEMMA RereadSound ==
  ASSUME Single, IInv, QInv, NEW c \in Calls, Reread(c)
  PROVE  QInv'
  <1>1. CASE Refused(c) \/ End(c)
    BY <1>1, EndSound DEF Refused, Reread
  <1>2. CASE ~Refused(c) /\ ~End(c)
    <2>1. calls[c].pc = "reread" /\ UNCHANGED <<project, sap>> /\ calls[c].company = agent /\ To(c, "move")
          /\ sap[agent][calls[c].docEntry].key = CommandId(calls[c])
      BY <1>2 DEF Reread, At, Served, DocAt
    <2>2. calls[c] \in Busy /\ AboutRow(calls[c]) /\ project.docEntry \in Nat
      BY <2>1, BusyCall DEF IInv, TypeOK, Projects, QInv, Sound
    <2> DEFINE k == [calls[c] EXCEPT !.pc = "move"]
    <2>3. /\ k \in CallRecords /\ k.pc = "move" /\ k.company = agent /\ k.docEntry = calls[c].docEntry
          /\ k.picks = calls[c].picks
      BY <2>1, <2>2 DEF Busy, CallRecords
    <2>4. Go(c, k)
      BY <2>1 DEF To
    <2> HIDE DEF k
    <2>5. sap[k.company][k.docEntry].key.picks = k.picks
      BY <2>1, <2>3 DEF CommandId
    <2>6. Sound(k)
      BY <2>1, <2>2, <2>3, <2>5 DEF Sound, AboutRow, OpenOrClosed, Unposted, Carries
    <2> QED
      BY <2>1, <2>3, <2>4, <2>6, QuietSound, BusyUnquoted
  <1> QED
    BY <1>1, <1>2

\* The transition records the picks the document carries.
LEMMA MoveSound ==
  ASSUME Single, IInv, QInv, NEW c \in Calls, Move(c)
  PROVE  QInv'
  <1>1. calls[c].pc = "move" /\ End(c) /\ sap' = sap
    BY DEF Move, At
  <1>2. calls[c] \in Busy /\ project \in Projects /\ Carries(calls[c])
    BY <1>1, BusyCall DEF IInv, TypeOK, QInv, Sound
  <1>3. CASE project.status # "in_review"
    BY <1>1, <1>3, EndSound DEF Move
  <1>4. CASE project.status = "in_review"
    <2>1. /\ project'.docEntry = calls[c].docEntry /\ project'.company = calls[c].company
          /\ project'.quoted = Totals(calls[c])
      BY <1>2, <1>4 DEF Move, Recorded, Projects
    <2>2. \A d \in Calls : calls'[d] = Idle /\ Idle.pc = "idle"
      BY <1>1 DEF Single, End, Go, Idle, IInv, TypeOK
    <2>3. Settled'
      BY <1>1, <1>2, <2>1, <2>2 DEF Settled, Carries, Totals
    <2>4. Chained'
      BY <1>1 DEF QInv, Chained, Linked, OnceEach
    <2>5. \A d \in Calls : Sound(calls[d])'
      BY <2>2 DEF Sound, AboutRow, OpenOrClosed, Unposted, Carries
    <2> QED
      BY <2>3, <2>4, <2>5 DEF QInv
  <1> QED
    BY <1>3, <1>4

\* What everybody else does to the documents: what is there keeps its key and
\* its picks and is not opened again, and what is new is foreign.
Milder ==
  \A co \in Companies :
    /\ DOMAIN sap[co] \subseteq DOMAIN sap'[co]
    /\ \A e \in DOMAIN sap'[co] :
         \/ /\ e \in DOMAIN sap[co] /\ sap'[co][e].key = sap[co][e].key /\ sap'[co][e].picks = sap[co][e].picks
            /\ sap'[co][e].open => sap[co][e].open
         \/ e \notin DOMAIN sap[co] /\ sap'[co][e].key = None

\* Everybody else, together: no request moves, and the row becomes neither quoted
\* nor another document's.
LEMMA OutsideSound ==
  ASSUME IInv, QInv, calls' = calls, Milder,
         project'.docEntry = project.docEntry, project'.company = project.company,
         project'.quoted = project.quoted, project'.status = "quoted" => project.status = "quoted"
  PROVE  QInv'
  <1>1. ASSUME NEW co \in Companies, NEW d \in DOMAIN sap'[co]
        PROVE  Linked(co, d)' /\ \A e \in DOMAIN sap'[co] : OnceEach(co, d, e)'
    <2>1. CASE sap'[co][d].key = None
      BY <2>1 DEF Linked, OnceEach
    <2>2. CASE sap'[co][d].key # None
      <3>1. d \in DOMAIN sap[co] /\ sap'[co][d].key = sap[co][d].key /\ sap'[co][d].picks = sap[co][d].picks
        BY <2>2 DEF Milder
      <3>2. Linked(co, d) /\ \A e \in DOMAIN sap[co] : OnceEach(co, d, e)
        BY <3>1 DEF QInv, Chained
      <3>3. Linked(co, d)'
        BY <3>1, <3>2 DEF Milder, Linked
      <3>4. \A e \in DOMAIN sap'[co] : OnceEach(co, d, e)'
        BY <3>1, <3>2 DEF Milder, OnceEach
      <3> QED
        BY <3>3, <3>4
    <2> QED
      BY <2>1, <2>2
  <1>2. Chained'
    BY <1>1 DEF Chained
  <1>3. Settled'
    <2> SUFFICES ASSUME project.status = "quoted"
                 PROVE  sap'[project.company][project.docEntry].key.picks = project.quoted.picks
      BY DEF QInv, Settled
    <2>1. project.company \in Companies /\ project.docEntry \in DOMAIN sap[project.company]
      BY DEF IInv, RowOwn, Own
    <2> QED
      BY <2>1 DEF QInv, Settled, Milder
  <1>4. ASSUME NEW c \in Calls PROVE Sound(calls[c])'
    <2>1. Sound(calls[c])
      BY DEF QInv
    <2>2. CASE calls[c].pc = "idle"
      BY <2>2 DEF Sound, AboutRow, OpenOrClosed, Unposted, Carries
    <2>3. CASE calls[c].pc # "idle"
      <3>1. calls[c] \in Busy /\ calls[c].company \in Companies
        BY <2>3, BusyCall DEF IInv, Busy
      <3>2. PICK k \in Busy, co \in Companies : k = calls[c] /\ co = k.company /\ Sound(k)
        BY <2>1, <3>1
      <3>3. AboutRow(k)'
        BY <3>2 DEF Sound, AboutRow, QuotationIn
      <3>4. OpenOrClosed(k)'
        <4>1. k.pc \in {"search", "post"} /\ k.here => k.docEntry \in DOMAIN sap[co]
          BY <3>2, RowQuotation DEF Sound
        <4> QED
          BY <3>2, <4>1 DEF Sound, OpenOrClosed, Milder
      <3>5. Unposted(k)'
        <4>1. CommandId(k) \in Keys /\ CommandId(k)' = CommandId(k)
          BY DEF CommandId, Keys, Busy
        <4> QED
          BY <3>2, <4>1, KeysAssumption DEF Sound, Unposted, Milder
      <3>6. Carries(k)'
        <4>1. k.pc = "move" => k.docEntry \in DOMAIN sap[co]
          BY <3>2 DEF IInv, CallOwn, Own
        <4> QED
          BY <3>2, <4>1 DEF Sound, Carries, QuotationIn, Milder
      <3> QED
        BY <3>2, <3>3, <3>4, <3>5, <3>6 DEF Sound
    <2> QED
      BY <2>2, <2>3
  <1> QED
    BY <1>2, <1>3, <1>4 DEF QInv

\* A SAP user closes or edits a document, or writes one.
LEMMA DocsSound ==
  ASSUME IInv, QInv, Foreign \/ \E e \in 1..MaxDocs : Close(e) \/ Touch(e)
  PROVE  QInv'
  <1>1. PICK co \in Companies : co = agent
    BY DEF IInv, TypeOK
  <1>2. UNCHANGED <<project, calls>> /\ TypeOK
    BY DEF Foreign, Close, Touch, IInv
  <1>3. CASE Foreign
    <2>1. PICK d \in Docs : d = [key |-> None, picks |-> None, price |-> None, open |-> TRUE, touched |-> TRUE]
      BY DEF Docs
    <2>2. d.key = None
      BY <2>1
    <2> DEFINE n == Len(sap[co]) + 1
    <2>3. n \in Nat
      BY <1>2 DEF TypeOK
    <2>4. Adds(co, d)
      BY <1>1, <1>3, <2>1 DEF Foreign, Adds
    <2>5. Milder
      BY <1>2, <2>2, <2>3, <2>4, DocAdded DEF Milder
    <2> QED
      BY <1>2, <2>5, OutsideSound
  <1>4. ASSUME NEW i \in 1..MaxDocs, Close(i) \/ Touch(i) PROVE QInv'
    <2>1. PICK e \in DOMAIN sap[co] : e = i
      BY <1>1, <1>4 DEF Close, Touch
    <2>2. sap[co][e] \in Docs
      BY <1>2, ElementOfSeq DEF TypeOK
    <2>3. PICK d \in Docs : /\ d.key = sap[co][e].key /\ d.picks = sap[co][e].picks
                            /\ d.open => sap[co][e].open
                            /\ Sets(co, e, d)
      <3>1. CASE Close(i)
        <4> DEFINE d == [sap[co][e] EXCEPT !.open = FALSE]
        <4>1. d \in Docs /\ d.key = sap[co][e].key /\ d.picks = sap[co][e].picks /\ d.open = FALSE
          BY <2>2 DEF Docs
        <4>2. Sets(co, e, d)
          BY <1>1, <2>1, <3>1 DEF Close, Sets
        <4> HIDE DEF d
        <4> QED
          BY <4>1, <4>2
      <3>2. CASE Touch(i)
        <4> DEFINE d == [sap[co][e] EXCEPT !.touched = TRUE]
        <4>1. d \in Docs /\ d.key = sap[co][e].key /\ d.picks = sap[co][e].picks /\ d.open = sap[co][e].open
          BY <2>2 DEF Docs
        <4>2. Sets(co, e, d)
          BY <1>1, <2>1, <3>2 DEF Touch, Sets
        <4> HIDE DEF d
        <4> QED
          BY <4>1, <4>2
      <3> QED
        BY <1>4, <3>1, <3>2
    <2>4. Milder
      BY <1>2, <2>3, DocSet DEF Milder
    <2> QED
      BY <1>2, <2>4, OutsideSound
  <1> QED
    BY <1>3, <1>4

\* With one request at a time the invariant is inductive.
LEMMA ChainInductive == ASSUME Single PROVE Spec => []QInv
  <1>1. Init => QInv
    <2> SUFFICES ASSUME Init PROVE QInv
      OBVIOUS
    <2>1. Chained
      BY DEF Init, Chained
    <2>2. Settled /\ \A c \in Calls : Sound(calls[c])
      BY DEF Init, Idle, Settled, Sound, AboutRow, OpenOrClosed, Unposted, Carries
    <2> QED
      BY <2>1, <2>2 DEF QInv
  <1>2. IInv /\ QInv /\ [Next]_vars => QInv'
    <2> SUFFICES ASSUME IInv, QInv, [Next]_vars PROVE QInv'
      OBVIOUS
    <2>1. ASSUME NEW c \in Calls, Quote(c) \/ Abort(c) PROVE QInv'
      BY <2>1, EndSound, LoadSound, ReadCurrentSound, SearchSound, PostSound, PatchSound, RereadSound, MoveSound
         DEF Quote, Abort
    <2>2. CASE sap' = sap /\ calls' = calls /\ [Next]_vars /\ ~\E c \in Calls : Quote(c) \/ Abort(c)
      <3>1. Milder
        BY <2>2 DEF Milder
      <3>2. project \in Projects
        BY DEF IInv, TypeOK
      <3>3. /\ project'.docEntry = project.docEntry /\ project'.company = project.company
            /\ project'.quoted = project.quoted
            /\ project'.status = "quoted" => project.status = "quoted"
        BY <2>2, <3>2 DEF Next, Others, Repick, Reprice, Switch, Decline, HandBack, TakeUp, Foreign, Adopt,
                          Close, Touch, vars, Projects
      <3> QED
        BY <2>2, <3>1, <3>3, OutsideSound
    <2>3. CASE Others
      <3>1. CASE Foreign \/ \E e \in 1..MaxDocs : Close(e) \/ Touch(e)
        BY <3>1, DocsSound
      <3> QED
        BY <2>1, <2>2, <2>3, <3>1 DEF Others, Repick, Reprice, Switch, Decline, HandBack, TakeUp, Adopt
    <2>4. CASE UNCHANGED vars
      BY <2>1, <2>2, <2>4 DEF vars
    <2> QED
      BY <2>1, <2>3, <2>4 DEF Next
  <1> QED
    BY <1>1, <1>2, Invariance, PTL DEF Spec

\* "A retry must never create a second SAP document": while the requests of a
\* project follow one another, however they are cut short and retried, no two
\* open quotations of a company carry one command id.
THEOREM RetryPostsOnce ==
  ASSUME Single
  PROVE  Spec => []OneOpenPerCommand
  <1>1. IInv /\ QInv => OneOpenPerCommand
    <2> SUFFICES ASSUME IInv, QInv, NEW co \in Companies, NEW d \in DOMAIN sap[co], NEW e \in DOMAIN sap[co],
                        sap[co][d].key # None, sap[co][d].key = sap[co][e].key,
                        sap[co][d].open, sap[co][e].open, d # e
                 PROVE  FALSE
      BY DEF OneOpenPerCommand
    <2>1. Linked(co, d) /\ Linked(co, e) /\ OnceEach(co, d, e)
      BY DEF QInv, Chained
    <2>2. d # 0 /\ e # 0
      BY DEF IInv, TypeOK
    <2> QED
      BY <2>1, <2>2 DEF Linked, OnceEach
  <1> QED
    BY <1>1, Invariance, ChainInductive, PTL

\* While the requests of a project follow one another, the document a quoted
\* project names holds the picks that were recorded, also when an earlier request
\* posted it and this one only found it.
THEOREM RecordsWhatItQuoted ==
  ASSUME Single
  PROVE  Spec => []QuotedAsRecorded
  <1>1. IInv /\ QInv => QuotedAsRecorded
    <2> SUFFICES ASSUME IInv, QInv, project.status = "quoted" PROVE Named.picks = project.quoted.picks
      BY DEF QuotedAsRecorded
    <2>1. project.company \in Companies /\ Own(project.company, project.docEntry)
      BY DEF IInv, RowOwn
    <2>2. Linked(project.company, project.docEntry) /\ Settled
      BY <2>1 DEF QInv, Chained, Own
    <2> QED
      BY <2>1, <2>2 DEF Linked, Settled, Own, Named, DocAt
  <1> QED
    BY <1>1, Invariance, ChainInductive, PTL

\* While the requests of a project follow one another, a quote after a reopening
\* never goes back to a quotation of the same company that was left behind.
THEOREM RequotesForward ==
  ASSUME Single
  PROVE  Spec => RequoteMovesForward
  <1>1. IInv /\ QInv /\ [Next]_vars
          => (project'.rounds # project.rounds /\ project'.company = project.company
                => project'.docEntry >= project.docEntry)
    <2> SUFFICES ASSUME IInv, QInv, [Next]_vars,
                        project'.rounds # project.rounds, project'.company = project.company
                 PROVE  project'.docEntry >= project.docEntry
      OBVIOUS
    <2>0. project \in Projects
      BY DEF IInv, TypeOK
    <2>1. \A c \in Calls : ~(Load(c) \/ ReadCurrent(c) \/ Search(c) \/ Post(c) \/ Patch(c) \/ Reread(c) \/ Abort(c))
      BY DEF Load, ReadCurrent, Search, Post, Patch, Reread, Abort, Refused
    <2>2. ~Others /\ ~UNCHANGED vars
      BY <2>0 DEF Others, Repick, Reprice, Switch, Decline, HandBack, TakeUp, Foreign, Adopt, Close, Touch, vars,
                  Projects
    <2>3. PICK c \in Calls : Move(c)
      BY <2>1, <2>2 DEF Next, Quote
    <2>4. calls[c] \in Busy /\ Carries(calls[c]) /\ calls[c].pc = "move"
      BY <2>3, BusyCall DEF Move, At, IInv, QInv, Sound
    <2>5. project'.docEntry = calls[c].docEntry /\ project'.company = calls[c].company
      BY <2>0, <2>3 DEF Move, Recorded, Projects
    <2>6. CASE project.docEntry = 0
      BY <2>4, <2>5, <2>6 DEF Busy
    <2>7. CASE project.docEntry # 0
      BY <2>0, <2>4, <2>5, <2>7 DEF Carries, QuotationIn, Projects, Busy
    <2> QED
      BY <2>6, <2>7
  <1> QED
    BY <1>1, Invariance, ChainInductive, PTL DEF Spec, RequoteMovesForward
=============================================================================
