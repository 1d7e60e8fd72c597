# Confire in TLA+

Confire (`apps/`, `packages/`) is a product configurator and quoting system for
SAP Business One. A salesperson, or a client through a portal, fills in a model
of a product; an engine enumerates the configurations that satisfy it and
prices them; staff pick some and post them to SAP as a Sales Quotation, through
an agent that runs on the customer's SAP server. This directory models the parts
of it where several people, requests and systems change the same thing, checks
them with TLC on small instances and proves some of the results with TLAPS for
every instance.

Paths below are relative to the repository.

## 1. The system

| Component | State | Operations | Talks to |
| --- | --- | --- | --- |
| Project lifecycle (`apps/server/src/project-lifecycle.ts`, `orpc/routers/requests.ts`) | `config_project.status`, `assignee_id`, `quote_response`; the timeline `config_project_event` | nine transitions under a row lock, assign, comments, files; `assertWritable` and `writableBy` for every other writer | every handler that writes a project; notifications after commit |
| Stored calculation (`config-project.ts`, `config-patch.ts`) | `candidates`, `selection`, `calculated_at`, `updated_at` of the same row; an in-process lookup cache | `liveProject` (every view), `recalculate`, `keepsCandidates`, `isStale` | the engine; the masterdata cache |
| Configurations router (`orpc/routers/configs.ts`) | none of its own | create, duplicate, update (model switch), calculate, select, remove, createQuote | the two above |
| Client portal (`portal/orpc/projects.ts`) | none of its own | create, update, calculate, submit, resubmit, withdraw, respondQuote, remove | the two above |
| Quotation write-back (`config-quote.ts`) | `b1_doc_entry`, `b1_company`, `quoted_*`; SAP's quotations | quoteDraft, createQuote (check, then POST or PATCH, then the `quote` transition) | SAP through the agent; the lifecycle |
| SAP connection (`b1.ts`, `packages/b1/src/remote.ts`) | `sap_connection` (company, currency, secret) | adoptCompany, tenantConnector, quotationIn, tenantCurrency | the agent |
| Masterdata cache (`masterdata-sync.ts`, `lookups.ts`) | `config_masterdata`, `config_masterdata_row`, in-flight walks | ensureFresh, syncNow, reads | SAP; the calculation |
| Agent (`apps/agent`) | SAP sessions, tunnel, configuration | login, one call, expiry, logout, company check | SAP; Confire |
| Agent pairing (`agent-pairing.ts`, `cloudflare.ts`) | a pairing code, the connection row, tunnels | createPairing, redeemPairing, agentStatus | Cloudflare; the agent |
| Portal members and onboarding (`portal/members.ts`, `portal/orpc/onboarding.ts`) | seats, invitations, claimed domains, companies | send, cancel, accept, submit (a SAP lead), join, change or remove a member | SAP; mail |
| Assistant threads (`assistant/route.ts`, `assistant/threads.ts`, `assistant/usage.ts`) | threads with a five-minute lease, the month's usage | one run at a time per thread: chat, reading of files, delete | a model provider; tools that call the routers |
| Assistant: extraction and tools (`assistant/`) | files | what a run says and which routers it calls | the routers above |
| Notifications (`notify.ts`, `notifications.ts`) | the inbox, mail errors | fan-out after each event | mail |
| Engine (`packages/config-engine`) | none: pure functions | bindings, propagate, enumerate, compute outputs, check a model | the stored calculation |
| Reports, entity pages, Service Layer client, web applications, MCP server, deployment | | | |

Rows are locked in few places: the lifecycle's transitions, `assign` and `select`
lock the project; `adoptCompany` the connection and the cached rows; the members'
functions the invitation, the user, the organization or the owners. None of these
awaits SAP while it holds a lock, except a masterdata sync, whose transaction stays
open over its whole walk. Every other handler reads, awaits, and writes with a
`WHERE` that repeats what it checked. The hard behaviours are therefore of five
kinds:

* a handler that read the row before somebody else moved it (edits beside
  hand-overs, calculations beside edits, a submit beside both, a role read before
  it is raised);
* the database and SAP, which share no transaction (createQuote, the portal's
  lead): lost answers, retries, crashes between the two;
* the company switch: a document number, a currency or a cached row means nothing
  in another company;
* leases, sessions and caches that outlive the request that took them;
* uniqueness that no index states and only the order of locks keeps (a seat, an
  open invitation, an owner).

What makes each part correct, in a sentence: the side whose turn it is writes,
and the other side sees what changed; candidates are those of the inputs beside
them; a quotation is posted once and the project names it; nobody else's SAP
document is touched; what counts as fresh is the connected company's; a customer
has one seat and a company keeps an owner; a run in time owns its thread; the
engine misses no configuration and stores none that does not stand alone.

## 2. Modules

| Module | Models | Kind |
| --- | --- | --- |
| `ProjectRules` | who sees and who writes a project in which status | constant operators |
| `ProjectLifecycle` | one project between a client's buyers and the staff | state machine |
| `Negotiation` | what the lifecycle promises: one document that changes hands | abstract specification |
| `Calculation` | inputs, candidates, picks and stamps of a client's project under concurrent requests | state machine |
| `QuoteWriteback` | createQuote over SAP, retries, a company switch | state machine |
| `AgentSession` | the agent's shared SAP session: login, expiry, retry, logout | state machine |
| `SapConnection` | a company switch beside the masterdata cache and the local currency | state machine |
| `PortalMembers` | seats, invitations, domains and leads of a supplier's portal | state machine |
| `AssistantThread` | the lease of a chat thread, the runs under it, the month's limit | state machine |
| `ConfigEngine` | bindings, propagation and the search for candidates | recursive functions, and the search as a state machine |
| `ProjectLifecycleProofs`, `CalculationProofs`, `QuoteWritebackProofs`, `AgentSessionProofs`, `SapConnectionProofs`, `PortalMembersProofs`, `AssistantThreadProofs`, `ConfigEngineProofs` | theorems about the modules they extend | proofs |
| `MC...` | constants and symmetry for TLC | model checking |

How they fit together: `ProjectLifecycle`, `Calculation` and `QuoteWriteback` are
three views of one row. The first has every status and every writer and treats the
inputs as one value; the second has the columns of the calculation and the moves
between draft, submitted, accepted and returned; the third has the statuses around
`quoted` and SAP behind them. `ConfigEngine` is what `Calculation` takes as the
constant `Class`. `SapConnection` is the switch that `QuoteWriteback` meets as
`Switch` and `Refused`, with everything else the switch touches, and
`AgentSession` the session under each of their SAP calls. `PortalMembers` decides
who the buyers of `ProjectLifecycle` are.

Definitions whose comment starts with "Mutant" are wrong on purpose: each is a
way the definition after it could be written by mistake, and shows that a
property notices. No specification uses them.

### ProjectLifecycle

`portal` says whose project it is, `row` has the columns the lifecycle reads,
`events` is the timeline in the order of `at`, `calls` the requests between
their check and their write. A transition (`step`) locks the row, so it is one
action, with the `revised` event that closes a round. Everything else is two
steps with anything in between:

* an edit (`assertWritable`, then the guarded `UPDATE`): `BeginEdit`,
  `FinishEdit`; the model switch: `BeginSwitch`, `FinishSwitch`;
* a comment or a file (the fence, then the insert): `BeginComment`,
  `FinishComment`; a file is a comment with a payload;
* the staff's delete (the refusal of quoted rows, then the `DELETE`):
  `BeginRemove`, `FinishRemove`. The portal's delete is one guarded statement.

The inputs (entries, batches, tables) are one value of a small set: the
lifecycle only compares them. `inputs` in an event is the payload of an input
event and the "after" side of a `revised` diff, which is all a client can read.

`Negotiation` forgets rows, events and requests: a document in somebody's hands,
and the document as both sides last saw it. `ImplementsNegotiation` maps the
status to whose turn it is and the newest disclosing event to what is shared; an
internal project is the supplier's own until it is posted.

### Calculation

A client's project. `row.inputs` are the parameters, `row.cand` the stored
candidates (which inputs and which generation of data they were made from),
`row.calculatedAt` and `row.version` are ticks of one clock, and `selection` is
the stamp of the candidates it indexes. The engine is the constant `Class`: for
each inputs and each generation of the model and its tables, whether something
is missing, a rule is broken, nothing satisfies it, or it has candidates. A
request is a record that carries what it read. Its steps are the awaits of the
handlers: `Gate` and `Update` of an edit; `ReadRow`, `Derive`, `Write` of
`liveProject`; `Stamp` and `Submit` of a submit, after a whole view. The other
writers of the version (accept, send back, withdraw, assign), the picks, and a
change of the engine's data are actions of their own.

Decline and quote are left out of this module: from either nobody can write the
calculation until the project comes back to a status that is modelled, and
`ProjectLifecycle` has them.

### QuoteWriteback

`project` is the row as quoting reads and writes it, `sap` each company's
quotations (a DocEntry is an index), `agent` the company the agent serves,
`adopted` the one Confire has on record, `price` what model, margin and tables
say. A request goes `Load`, then `ReadCurrent` and `Patch` (with `Reread` after a
412) or `Search` and `Post`, then `Move`, the `quote` transition; `Abort` ends it
between any two, which loses the answer of what it had sent. Each SAP call first
meets the agent's company check (`Refused`). Picks stand for the assignments,
quantities and rows that the command id hashes. The command id the browser echoes
from the draft is compared at the load, so a request here is one whose draft is
current when it loads.

SAP itself is external: its users close a quotation, edit one and add their own
(`Close`, `Touch`, `Foreign`), and the administrator switches the company
(`Switch`). The pages' header patch, the customer of an internal configuration and
the lines' arithmetic are left out.

### AgentSession

`sess` is the `Session` struct, `logins` the login attempts with what SAP holds
for each (a licence slot while it is `live`), `call` each goroutine inside `Do` or
`ensure`. A mutex section is one action; SAP's answer (`Answer`) and what the
caller makes of it (`Retry`, `Reply`) are two, which is the window the generation
check is for. A login runs on its own: `EnsureLogsIn` starts it, `LoggedIn` or
`LoginFails` ends it, and its waiters `Wake` later, when the session they read may
be a newer one or already expired. SAP expires a session (`SapExpires`) or denies
one that lives (a 403). `Logout` is its locked part, `LoggedOut` SAP's side of it;
calls that outlasted the five seconds of the shutdown go on beside both. Which
session denied a call (`denied`) and which generation a retry follows (`after`)
are kept for the properties. A session with basic authentication has nothing to
share and is left out, as is the last error that `/health` shows.

### SapConnection

`agent` is the company the agent serves, `conn` the row Confire has of it, `md`
one masterdata definition with its stamp, `cache` its committed rows, told apart
by whose answer they are and to which query. A request is a sync, a save of the
definition, a read of the currency or a status poll. The statements of a sync are
steps: its `DELETE` begins (`BeginDelete`, which fixes what it sees) and gets its
locks (`DeleteRows`), a page is inserted (`InsertPage`), the transaction commits
(`CommitSync`), and the stamp is a statement of its own (`Stamp`). The agent
refuses a call built for another company (`RefusedByAgent`); the caller then
adopts in a second transaction (`LockConn`, `Adopt`), the first one still open.
Two columns are history and exist nowhere in the database. `crossed`: while the
request that wrote this was under way, somebody adopted another company than the
one it was built for, or saved another query than the one it walks. `emptied`: a
save's `DELETE` has taken the rows since a walk last committed some. The
properties name them as exceptions, since what they mark really can be wrong
(below).

Every answer has at least one row, a walk is one page, and only one definition is
cached. The dedupe of walks in one process, `syncMinutes`, values typed in by hand,
the entities' metadata, the backfill of old quotations and the adoption inside a
pairing are left out.

### PortalMembers

`member`, `invitation` and `domain` are the tables, `leads` what SAP has, `call`
the requests in flight. Transactions run under READ COMMITTED, so a write appears
when its transaction commits and the guards name the row locks of the stage the
others have reached (`InvFree`, `UserFree`, `OrgFree`, `RowsFree`); locks a
statement takes together are taken at once. An invitee accepts, submits the form
or joins by domain: `Enter` is the guarded `pending -> accepted` that opens the
transaction, `TakeUser` and `Commit` are `addPortalMember`. A submit searches SAP
for the invitation's key and posts a lead before that (`Search`, `Post`). Staff or
an owner send (`Send`, `Clear`, `Insert`), cancel, and change or remove a member
(`Change`, `LockOwners`, `WriteChange`): the owners' door reaches a subset of what
the staff's does. `Abort` ends a request anywhere, which is a failed call, a lost
answer and a crash. `late` is history: the invitation had a lead when the submit
began.

Users are customers, known by their address; the company rows, languages, the
form's fields and the mail are left out.

### AssistantThread

`thread` has the lease (`busy_until`, `lease_id`) and, for each append, the run it
came from; `run` the requests; `spent` the month's usage in calls. A chat renews
its lease before every call, checks the month's limit after it and appends what it
has; a reading of files and a delete take the same lease. `Lapse` is five minutes
without a renewal, `Crash` the end of the process, `Cut` the user going away. What
a run says, its tools, the thread's title and pin, a thread made from a
configuration or a report, and the fresh thread that clearing makes are left out.
`late` is history.

### ConfigEngine

The model under search is a variable that `Init` chooses and no step changes.
`Bound` is `bindings`, pass by pass; `Live` is `propagate` to its fixed point, for
tables that allow, tables that forbid and assertions; `Conflicts` what it reports;
the actions `Drop`, `Keep` and `Branch` are one call each of `enumerate`'s search.
A structure's groups fold into the conditions of their parameters. Computed
values, derived columns, the items table and its aggregates, `requiredWhen`,
`missingInputs`, parameters excluded from the domains, a lookup that gives an
empty list of options (a domain without values in the code), defaults by formula, prices, the widest-first estimate and the
expression language are left out. The passes of `bindings` and the rounds of
`propagate` are recursive functions, `Hidden` and `Live`, so that they can be
proved about.

## 3. Runs

| Run | Instance | Shows |
| --- | --- | --- |
| `ProjectLifecycle` | two staff, a buyer, two requests in flight, two inputs, seven events | the safety properties of the lifecycle, for a client's and an internal project, and that it implements `Negotiation` |
| `Calculation` | two requests, one edit at a time, five ticks, one change of the data, fairness | candidates match inputs; hand-overs carry them and keep their figures; complete drafts get calculated |
| `QuoteRetry` | one request at a time, two picks, three documents and rounds | one document per command across crashes and retries |
| `QuoteRaces` | two requests, two companies, one document each, two rounds | a quoted project names its document; nobody else's is written |
| `AgentSession` | two callers and the login at the start, two requests, one idle expiry, any denials and failed logins, fairness | one licence slot, one login per expiry, a retry on a newer session, every call ends |
| `PortalMembers` | two customers (one with a company's domain), one business partner, two lead cards, two invitations, two seats, two requests at once and four in all, any seats to start from | one seat and one open invitation to a customer, an owner left, one lead to an invitation, final answers |
| `AssistantThread` | two threads, three runs, two calls each, a limit of two | the lease, the spend, and no run inside another |
| `SapConnection` | two companies, two queries, three requests, one switch, fairness | what is stamped fresh is there and answers the saved query, and it and a known currency are the connected company's, but for what `crossed` and `emptied` mark; only a sync refused in its own transaction makes others wait |
| `ConfigEngine` | 33 880 pairs of a model and its entries: at most two rules of a menu, eight rounds of propagation, seven sets of conditions, two of defaults, two of partial lists, ten of entries | stored candidates stand alone; the search misses none |
| `MismatchedPair` | violation | two overlapping edits can leave another configuration's candidates |
| `RoleLowered` | violation | an accepted invitation can lower a role raised meanwhile |
| `SapStuck` | violation | a sync refused in its own transaction waits for itself |

Bounds. Every bound is a constant and appears in a guard.

* Seven events are enough for a submit, an accept, a hand-back with its revision,
  a resubmit and a withdrawal or a quote, and for a quotation that is declined,
  quoted again and answered. Five ticks are an edit, a calculation, a submit, a
  hand-back and one more, or three edits and two calculations.
* Three documents and three rounds let a re-quote patch, replace a closed
  document, and meet both its predecessors. Two requests of the agent are a late
  learner beside the one that renews the session, and each logs in at most twice,
  so five attempts never run out.
* Four requests over the portal, two at a time, are two sends and two answers, or
  a promotion beside an accept, or two owners and their changes; the seats start
  anywhere, so no request is spent on filling them. Two lead cards let a second
  lead be posted if the search let it.
* Three runs on a thread are one that outlived its lease, one that took it and one
  that comes after; with two calls each they pass a limit of two by any amount
  that the check would allow.
* Three requests over one switch are a walk, a save and whoever learns of the
  switch. A second switch back would only repeat the first under other names:
  rows are told apart by their company, their query and `crossed`.
* Three parameters of two options are a rule of every arity the code treats
  separately (one unbound, two, three); at most two rules let one's eliminations
  feed the other's; seven sets of conditions have a chain and a cycle. Six options
  are eliminated in at most six rounds, so eight reach the end. A cap of
  five is below the eight full configurations, so capped searches happen.

Two requests are the smallest number that interleaves; in `Calculation` a third
would only repeat what a second does between two steps of the first. Symmetry is
used over users, requests, ids, picks, threads and runs, never with a liveness
property: `MCSapConnection` starts from one state of each symmetry class instead.
`CHECK_DEADLOCK FALSE` is set because behaviours end at the bounds, and because a
declined project or a deleted one really is the end; the portal never stops, as a
domain can always be registered or removed, and is checked for deadlock.

`MaxEdits = 1` in the passing run of `Calculation` says that no two edits of one
project overlap: the pages send one call at a time (configs.ts, "one call in
flight"). `MismatchedPair` is what two tabs, or a page and an assistant, can do
when they overlap. `QuoteRetry` has one request because a retry follows the
request it repeats. `RequoteMovesForward` likewise needs one: a slow request whose
transition lands after a decline and a second quotation takes the project back to
the first.

Fairness. `FairSpec` of `Calculation` is weak fairness of each request's own
steps: a promise that was started settles, and the database serialises single
statements. Nobody is obliged to make a request, to accept or to quote. That of
`AgentSession` is weak fairness of each caller's next step and of the end of a
login: the HTTP client gives up after sixty seconds, and the login runs on a
goroutine of its own. That of `SapConnection` is weak fairness of a begun
request's next step: a handler that has begun runs on, and PostgreSQL grants a
lock that is free; nobody is obliged to begin, to fail or to switch.
`ConfigEngine` has the search go on.

### What the violations say about the code

1. The schema says "never a mismatched pair. That is structural"
   (`configurator.ts:94-95`). Whether an edit keeps the candidates is decided on an
   earlier read than the row its patch is merged into (`projects.ts:186-187`). The
   run: a client's draft lacks two inputs. One edit gives the first a value that
   breaks a rule while the second is missing, and is told to keep the candidates
   there are. Another fills the second, writes first and is calculated. The first
   then writes over it: the inputs break no rule, the candidates were made without
   its value, and `calculatedAt` says that they match. Staff's edits are decided the
   same way (`configs.ts:424`).
2. `addPortalMember` "raises the role and never lowers it"
   (`members.ts:94`). It holds the user's row and reads the member's without a
   lock, and `changeMember` locks no user: a promotion in between is written over.
3. `ensureFresh` "never blocks" (`masterdata-sync.ts:80`). That is a promise to its
   caller, who does not wait for the walk it starts; `NeverBlocks` asks more, that
   every request that began ends, the walk in the background included. A page
   refused inside the walk's transaction adopts the new company in another one,
   which waits for the rows the first has deleted; both wait for good, and behind
   them whoever syncs by hand or adopts next.

### Found while modelling

The models reach these too; no run is spent on them.

* `configs.remove` checks, then deletes by id without the check
  (`configs.ts:313-326`): a quotation that commits in between loses its project.
  The router's description is "Refused for a quoted configuration".
* The comment of `transition` (`project-lifecycle.ts:235`) says any input write
  nulls `calculatedAt`; an edit that breaks a rule keeps it (`keepsCandidates`), so
  it can slip under a submit. When the rule is one of newer data only, the submit
  hands over the figures and the stamp of the older data beside the edited inputs
  (`SubmitCarriesCalculation` allows it).
* `isStale` promises that a price sync reaches the candidates
  (`config-project.ts:198`), but `calculatedAt` is the time of the write (294), not
  of the read, and a sync in between is lost.
* Two `createQuote` of one command that overlap both find no document and both
  post (`config-quote.ts:368`); `OneOpenPerCommand` speaks of requests that follow
  one another. A POST that lands after the call to the agent timed out
  (`remote.ts:63`) is not modelled: a retry may have searched before it. Margin and
  prices are not in the command id: a document found by it is kept while new totals
  are recorded beside it.
* Masterdata: two walks of one query conflict on the rows' key; a walk under which
  another company was adopted or another query saved commits its rows after the
  cache was emptied, and its stamp calls them fresh; `tenantCurrency` does the same
  with the currency (`b1.ts:113`).
* A save's two statements, the definition and the `DELETE`
  (`routers/masterdata.ts:144-151`), leave room for a whole walk of the saved query
  between them: the `DELETE` takes the rows it committed, its stamp, set before or
  after, stays, and the empty cache counts as fresh until `syncMinutes` have passed
  or somebody syncs or saves.
* Portal: two submits that overlap post two leads; a lead posted for an invitation
  that was cancelled, or whose customer joined elsewhere, belongs to nobody;
  a submit does not compare the expiry again; a change that finds no owner row
  locks nothing (`members.ts:132-134`), and goes on so where its company gains an
  owner before it writes, whom it may then take away. `ChangeLeavesOwner` speaks of
  changes that locked an owner.
* Threads: an append names the thread and not the lease (`threads.ts:168`), and
  messages whose append failed count as stored (`route.ts:281-283`), so they are
  not tried again.
* Engine: a value is eliminated because no row has it beside the live values of a
  parameter that this value itself hides (`propagate.ts:222`, `229`), against
  "only provably inconsistent" (293-294), and the same for a list that is partial
  (318-321); a table that allows but has no row eliminates every value of an open
  parameter and is no conflict once they are entered (228, 231); `check.ts` accepts conditions that chase each other, and a candidate
  of such a model need not stand alone; candidates equal but for entries of hidden
  parameters count separately towards the cap (`enumerate.ts:39`).

## 4. Proofs

The eight proof modules hold for any users, requests, inputs, engine, companies,
picks, callers, logins, threads, runs, queries, rows, models, entries and bounds,
from the assumptions named in the modules: disjoint users, a blank value, a total
`Class`, a `None` that is no key, pick, row or company, a starter that serves no
request, finitely many runs, parameters and options of a parameter, rules and
conditions about the model's own parameters. Where a theorem needs more, it says so:
`MaxEdits <= 1` for two of the calculation, `Single` for three of the quotations.

* Type correctness of the eight modules (`TypeCorrect` in each).

Lifecycle.

* `AcceptedForever`: `AcceptIsFinal` follows from the invariant that an accepted
  row is a client's and quoted; every action either needs another status, or the
  missing answer, or an internal project.
* `NothingIsHidden`: `NothingHidden` is not inductive: the staff's revisions are
  listed against the newest thing the timeline shows. The strengthening,
  `HiddenInv`, says that while a request is the staff's or quoted that is a round's
  frozen inputs and not a list of changes (`RoundOpen`), so that there is a baseline
  to diff against. `HandBackDiscloses` follows from it at the step that hands back.
* `TurnsAreKept`: the guarded `UPDATE` compares the status the caller may write in.
* `OneAnswer`: a quoted project without an answer has an unanswered quotation as the
  newest of its rounds (`AnswerInv`), which is what an answer lands on.
* `HolderIsTheTimelines`: beside the property itself, a request that nobody holds has
  been neither accepted nor assigned (`HolderInv`); without it the accept that takes
  it might not be the first.
* `IsNegotiation`: the refinement. With the status as whose hands the document is in
  (`HandsIn`) and the newest disclosure as what is shared (`SharedIn`), the initial
  states map to initial states and each action is a step of `Negotiation` or changes
  nothing it can see. It needs `HiddenInv` for what a hand-over shares.

Calculation.

* `StampSound`, `PicksSound`, `RefreshSound`, `FiguresStay`: one inductive
  invariant, `IInv`: what each request carries in its snapshot is what the row
  still has if the version is still the one it read, and a request about to
  write does so for a side that could write that status. These hold with any
  number of overlapping edits.
* `MatchSound`, `HandOverCarries`: the two that overlapping edits break
  (`MismatchedPair`), under the hypothesis that at most one edit is between its
  gate and its write (`MaxEdits <= 1`); views, submits and everything else still
  overlap. The invariant `EInv` says that the one edit's decision to keep the
  candidates was made about the inputs that are still there (`EditSound`), and
  that stored candidates were found by data there was and are those of the inputs
  beside them unless these broke a rule (`StoredSound`). A generation once seen
  stays seen (`GenerationsPass`), which is what carries a verdict of older data on.

Quotations and the agent.

* `QuotedNamesDocument`, `ForeignSafe`, `EditsRespected`: the inductive invariant
  is ownership. Every DocEntry the row or a request carries names, in the company
  carried beside it, a document with a command id. It survives because documents
  are never removed and never change hands (`Kept`), because a request takes the
  row's DocEntry only into the company the row names (`QuotationIn`), and because
  the agent serves no request built for another company. These hold with any
  number of overlapping requests.
* `RetryPostsOnce`, `RecordsWhatItQuoted`, `RequotesForward`: under the hypothesis
  that requests follow one another (`Single`), for any number of them, with lost
  answers, crashes and switches between. A key names the document it replaces, so
  documents form chains: `Linked` says that a keyed document holds the picks its
  key names, comes after what it replaces and replaces only what is closed;
  `OnceEach` that of two documents with one key one replaces the other. A request
  is about the row's quotation until it records one (`AboutRow`), a request that
  posts has looked for its own link and found none (`Unposted`), and what it
  records is no earlier than the row's (`Carries`). `QInv` is these, with a quoted
  project nobody's to quote (`Settled`).
* `OneLicenceSlot`, `OneLoginPerExpiry`, `RetriesMoveOn`: one inductive invariant
  of the agent's session. The login in flight is the only pending one and no
  session is ready beside it; a session is unready only after a denial, which is
  where the generation check enters: a caller whose generation equals the current
  one holds the current client. Without `Held` the invariant is not inductive.

The SAP connection.

* `FreshCorrect`, `CurrencyCorrect`: the invariant `Known` says that what a request
  carries (its company, its query, the rows it filled) is still the connection's and
  the definition's while it is not crossed, and that a walk which has filled finds
  rows or finds that a save's `DELETE` took some. A switch crosses every request
  built before it and a save every walk of another query, each in the step that
  commits, which is why the stamp, a statement of its own, can rely on what its
  transaction filled. A save crosses nobody with its `DELETE`.
* `OneHolderCorrect`: the locks. Rows deleted and not committed have one holder,
  and a walk commits over exactly the rows it deleted.

The portal. Each of the four promises has its own invariant, and all rest on the
types and on `Sent` (a request names an invitation that exists, since none is
deleted).

* `SeatCorrect`: not inductive alone: a request between its read and its commit
  knows that the user had no seat. `OneReader` (the user's row is one
  transaction's) and `ReadHolds` (who read none still has none) are what the lock
  is for.
* `OpenCorrect`, `SettledCorrect`: the same with the organization's row
  (`OneClearing`, `Cleared`) and with the invitation's (`OneHandler`, `Held`: a
  transaction that passed its guard keeps the row pending until it commits).
* `LeadCorrect`, `LeadsTheirs`, `AcceptedCorrect`: `Answering`: what a request
  carries of its invitation is still the invitation's, a submit past its search
  has the lead of that very key, and one that began late is never about to post.
* `OwnerCorrect`: `Owning`: the rows a change has locked stay owners' until it
  writes (`LockedStays`), and a change that would take a role away was not the
  only owner's. It uses `OneSeat`: with two seats to a user the check of the last
  owner would not be enough.

Threads.

* `LeaseCorrect`: inductive beside the shape of a run; nobody releases, renews or
  takes a lease that is another's and in time.
* `HistoriesApart`: a run that writes holds the lease or outlived it. The invariant
  says that only runs on a thread, with a lease taken, have written in it
  (`Written`), and that whoever wrote after the present holder's first message was
  late by then and is still (`Overtaken`): so a holder that goes on after another
  one's message goes on after a late one's. Crashes and deletes are included.
* `SpendCorrect`: `SpendBounded` counts the calls ahead: the spend, and one call
  for each run that has passed the check and not yet called, never exceed the
  limit by more than the runs there are.

The engine. Facts about a recursive function go by induction on its argument;
`SetInduction` is that, stated with a set, and `Iterates` says that the recursive
functions exist.

* `CandidatesStandAlone`: a condition reads a parameter of lower rank (`Settles`),
  so after n passes what is hidden below rank n + 1 no longer changes
  (`PassAgrees`), the passes end in a fixed point (`HiddenFixed`), and there is
  only one (`FixedOnce`). What is stored of a candidate has that same fixed point
  (`ShownBinds`), so it binds the same and `Keep`'s verdict holds of it.
* `SearchIsComplete`, for models whose conditions do not chase each other and whose
  rules read only what is always searched in full: entries are on the way to an answer when they say nothing
  else of what the answer shows (`Towards`). Then whatever they bind agrees with it
  where it shows something, and hide nothing that it shows (`ValuesAgree`,
  `ShownOnTheWay`), so no rule is broken on the way (`NoConflict`); no rule of any
  kind eliminates a value of it (`AllowSpares`, `DenySpares`, `AssertSpares`,
  `AnswerStaysLive`); a branch on any open parameter has a call that is on the way
  (`GoesOn`), and with nothing open what is shown is the answer (`Arrives`). The
  invariant, `Covered`, is that each answer is found or some open call is on the
  way to it. It holds for any number of rounds of propagation, which is why the
  code's limit of fifty loses nothing.

What the last one assumes of the rules (`RulesReadSearched`) is needed, part by
part: a rule that reads a parameter which can be hidden, or a list that is partial,
eliminates answers ("Found while modelling"); so does an assertion whose condition
can be hidden after it held, a table that allows nothing, and one that reads a text
left blank. With one such rule in the menu and that part dropped, TLC finds the
answer that is lost.

Only model-checked: liveness (`DraftGetsCalculated`, `CallsEnd`, `EndsOrHangs`),
which is out of the prover's reach under fairness.

## 5. Not modelled

* Pairing codes, the tunnels a pairing makes and retires, `cloudflared`.
* Notifications: who is told is a query over members and settings, after the
  commit that is modelled.
* Prints (one mutex around a child process), the allow list, Windows service
  control and the wizard.
* The engine's computed values, items table, prices and expression language; the
  in-process lookup cache.
* `configs.create` and `duplicate`, similarity search, intake, lists, reports and
  entity pages: reads, or single inserts.
* Files' contents, mail text, translations, layout, HTTP wiring, deployment, the
  web applications and the separate MCP server: no shared state of the server's
  own, and most of the repository's lines.

## 6. What is left to do

1. Pairing codes beside `SapConnection`: a claimed code put back after an
   administrator replaced it.
2. The engine's computed values and items table, and money rounding, against
   reference definitions.
3. `QuoteWriteback`: an abstract "post once" specification, implemented when
   requests come one at a time.
4. The lookup cache, whose version is made of millisecond stamps.
