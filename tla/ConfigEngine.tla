---------------------------- MODULE ConfigEngine ----------------------------
(* The configuration engine (packages/config-engine): what a set of entries  *)
(* binds and hides (bindings), which values the rules leave (propagate), and *)
(* the search for every configuration they allow (enumerate), whose result   *)
(* is stored as the project's candidates.  A model is a value, chosen once:  *)
(* its rules, the condition each parameter shows under, its constant         *)
(* defaults, and which parameters' options are only the first of their query *)
(* table (partial): those are picked, not searched.                          *)
EXTENDS Integers, FiniteSets, SequencesExt

CONSTANTS
  Params,   \* parameters
  Values,   \* option values
  Domain,   \* the options of each; {} for free text, which has none
  Models,   \* the models explored
  Given,    \* the entries explored: functions on some parameters
  Cap,      \* candidates kept (200 in the code)
  Rounds,   \* rounds of propagation at most (50 in the code)
  Unset,    \* no binding
  Null      \* the binding of a hidden parameter

(* A rule's rows (of a combination table) or broken assignments (of an       *)
(* assertion over its parameters, where Null is a value) are functions on    *)
(* the parameters it names; [of, is] is a condition, "of = is".              *)
Condition(c) == c = Unset \/ (c.of \in Params /\ c.is \in Values)
Rule(r) == /\ r.kind \in {"allow", "deny", "assert"} /\ r.params \subseteq Params
           /\ r.rows \subseteq [r.params -> Values \cup {Null}] /\ Condition(r.when)
Entries == UNION {[D -> Values] : D \in SUBSET Params}
ASSUME EngineAssumption ==
  /\ Domain \in [Params -> SUBSET Values] /\ \A p \in Params : IsFiniteSet(Domain[p])
  /\ Cap \in Nat \ {0} /\ Rounds \in Nat
  /\ IsFiniteSet(Params) /\ {Unset, Null} \cap Values = {} /\ Unset # Null
  /\ Given \subseteq Entries
  /\ \A e \in Given : \A p \in DOMAIN e : Domain[p] # {} => e[p] \in Domain[p]
  /\ \A m \in Models :
       /\ m.partial \subseteq Params
       /\ m.default \in [Params -> Values \cup {Unset}]
       /\ DOMAIN m.shows = Params /\ \A p \in Params : Condition(m.shows[p])
       /\ \A r \in m.rules : Rule(r)

VARIABLES
  model,    \* the model
  entries,  \* what the project has entered: a function on some parameters
  stack,    \* the search's open calls
  found,    \* full entries of each candidate, in order
  capped

vars == <<model, entries, stack, found, capped>>
-----------------------------------------------------------------------------
(* settle, given the parameters hidden so far; a condition on an unset       *)
(* parameter cannot evaluate, and hides nothing.                             *)
Settled(e, hidden) == [p \in Params |->
  IF p \in hidden THEN Null ELSE IF p \in DOMAIN e THEN e[p] ELSE model.default[p]]
Shows(vals, p) == LET c == model.shows[p] IN c = Unset \/ vals[c.of] \in {Unset, c.is}
Hides(vals) == {p \in Params : ~Shows(vals, p)}

(* bindings: a pass per parameter, each hiding by the one before. *)
(* Mutant: the hidden ones are found once. *)
BoundOnce(e) == LET next == Hides(Settled(e, {})) IN
  [values |-> Settled(e, next), visible |-> Params \ next]
(* What is hidden after a pass per parameter.  The code stops earlier at a    *)
(* pass that hides what the one before did: later ones would hide the same.  *)
Hidden(e) ==
  LET after[n \in 0..Cardinality(Params)] ==
        IF n = 0 THEN {} ELSE Hides(Settled(e, after[n - 1]))
  IN after[Cardinality(Params)]
Bound(e) == LET hidden == Hidden(e) next == Hides(Settled(e, hidden)) IN
  [values |-> Settled(e, hidden \cup next), visible |-> Params \ next]

IsBound(b, k) == b.values[k] # Unset /\ k \in b.visible
HasDomain(b, k) == k \in b.visible /\ Domain[k] # {}
Unbound(b, r) == {k \in r.params : ~IsBound(b, k) /\ HasDomain(b, k)}
AllBound(b, r) == \A k \in r.params : IsBound(b, k)
Active(b, r) == r.when = Unset \/ b.values[r.when.of] = r.when.is
(* A row, or an assignment, is what the bindings say. *)
Matches(b, r, row) == \A k \in r.params : b.values[k] = row[k]
With(e, k, v) == [p \in DOMAIN e \cup {k} |-> IF p = k THEN v ELSE e[p]]
Breaks(b, r) == \E row \in r.rows : Matches(b, r, row)

(* The values of k that rule r eliminates, given the live ones.              *)
KilledByAllow(b, r, live, k) == {o \in live[k] : ~\E row \in r.rows :
  row[k] = o /\ \A j \in r.params : IF IsBound(b, j) THEN b.values[j] = row[j]
                                    ELSE HasDomain(b, j) => row[j] \in live[j]}
(* Mutant: any one unbound parameter of several is narrowed. *)
KilledByDenyAny(b, r, live, k) == {o \in live[k] : \E row \in r.rows :
  row[k] = o /\ \A j \in r.params \ Unbound(b, r) : b.values[j] = row[j]}
KilledByDeny(b, r, live, k) == {o \in live[k] : Unbound(b, r) = {k} /\ \E row \in r.rows :
  row[k] = o /\ \A j \in r.params \ {k} : b.values[j] = row[j]}
KilledByAssert(e, b, r, live, k) == {o \in live[k] : Active(b, r) /\
  \/ Unbound(b, r) = {k} /\ Breaks(Bound(With(e, k, o)), r)
  \/ \E z \in Params \ {k} : Unbound(b, r) = {k, z} /\
       \A x \in live[z] : Breaks(Bound(With(With(e, k, o), z, x)), r)}
Killed(e, b, live, k) == UNION {
  IF k \notin Unbound(b, r) THEN {}
  ELSE CASE r.kind = "allow"  -> KilledByAllow(b, r, live, k)
         [] r.kind = "deny"   -> KilledByDeny(b, r, live, k)
         [] r.kind = "assert" -> KilledByAssert(e, b, r, live, k) : r \in model.rules}

(* propagate's loop: at most Rounds rounds (50 in the code), stopping at one  *)
(* that changes nothing.  The code's order within a round reaches the same   *)
(* in the end, since fewer live values never save a value.                   *)
Start(b) == [k \in Params |-> IF k \in b.visible THEN Domain[k] ELSE {}]
Narrow(e, b, live) == [k \in Params |-> live[k] \ Killed(e, b, live, k)]
Round(e, b, at) == LET next == Narrow(e, b, at.live) IN
  IF at.changed THEN [live |-> next, changed |-> next # at.live] ELSE at
Live(e, b) ==
  LET after[n \in 0..Rounds] ==
        IF n = 0 THEN [live |-> Start(b), changed |-> TRUE] ELSE Round(e, b, after[n - 1])
  IN after[Rounds].live

Open(b) == {p \in Params \ model.partial : HasDomain(b, p) /\ b.values[p] = Unset}
(* Mutant: a table that forbids is only read when one parameter is left.     *)
ConflictsAllowed(b) == {r \in model.rules :
  \/ r.kind = "allow" /\ AllBound(b, r) /\ r.rows # {} /\ ~Breaks(b, r)
  \/ r.kind = "assert" /\ Active(b, r) /\ Unbound(b, r) = {} /\ Breaks(b, r)}
Conflicts(b) == {r \in model.rules :
  \/ r.kind = "allow" /\ AllBound(b, r) /\ r.rows # {} /\ ~Breaks(b, r)
  \/ r.kind = "deny" /\ AllBound(b, r) /\ Breaks(b, r)
  \/ r.kind = "assert" /\ Active(b, r) /\ Unbound(b, r) = {} /\ Breaks(b, r)}
-----------------------------------------------------------------------------
(* enumerate: one call of its search per step. *)
Cur == Head(stack)
Fails == LET b == Bound(Cur) live == Live(Cur, b)
         IN Conflicts(b) # {} \/ \E k \in Open(b) : live[k] = {}
(* The candidate stored: a hidden parameter's entry is no part of it. *)
Shown(e) == [p \in DOMAIN e \cap Bound(e).visible |-> e[p]]

Init ==
  /\ model \in Models
  /\ entries \in Given
  /\ stack = <<entries>> /\ found = <<>> /\ capped = FALSE

Drop ==
  /\ stack # <<>> /\ ~capped /\ Fails
  /\ stack' = Tail(stack) /\ UNCHANGED <<model, entries, found, capped>>
Keep ==
  /\ stack # <<>> /\ ~capped /\ ~Fails /\ Open(Bound(Cur)) = {}
  /\ IF Len(found) >= Cap THEN capped' = TRUE /\ UNCHANGED found
                          ELSE found' = Append(found, Cur) /\ UNCHANGED capped
  /\ stack' = Tail(stack) /\ UNCHANGED <<model, entries>>
(* The smallest live domain first. *)
Branch ==
  /\ stack # <<>> /\ ~capped /\ ~Fails
  /\ LET b == Bound(Cur) live == Live(Cur, b) IN
     \E k \in Open(b) :
       /\ \A j \in Open(b) : Cardinality(live[k]) <= Cardinality(live[j])
       /\ stack' = SetToSeq({With(Cur, k, o) : o \in live[k]}) \o Tail(stack)
  /\ UNCHANGED <<model, entries, found, capped>>

Next == Drop \/ Keep \/ Branch
Spec == Init /\ [][Next]_vars /\ WF_vars(Next)
-----------------------------------------------------------------------------
(* What the variables may hold. *)
TypeOK ==
  /\ model \in Models /\ entries \in Given /\ capped \in BOOLEAN
  /\ stack \in Seq(Entries) /\ found \in Seq(Entries) /\ Len(found) <= Cap

(* Conditions that do not chase each other: none of a parameter's is on one  *)
(* its own visibility leads to.                                              *)
Settles == \E rank \in [Params -> 1..Cardinality(Params)] : \A p \in Params :
  model.shows[p] # Unset => rank[model.shows[p].of] < rank[p]

(* A candidate stands alone: bound again from what was stored of it, as its  *)
(* prices and the quotation are, it shows the same parameters with the same  *)
(* values, leaves none open and breaks no rule (enumerate.ts:38-39;          *)
(* output.ts:48).  Where conditions chase each other it need not.            *)
StandsAlone == Settles => \A i \in DOMAIN found :
  LET full == Bound(found[i]) again == Bound(Shown(found[i])) IN
    full = again /\ Open(again) = {} /\ Conflicts(again) = {}

(* The full answers to what the project left open, that no rule forbids and  *)
(* that answer no parameter they hide: a definition without propagation.     *)
Answers == {e \in [Params -> Values \cup {Unset}] :
  LET f == [p \in {q \in Params : e[q] # Unset} |-> e[p]] b == Bound(f) IN
    /\ \A p \in Params : e[p] # Unset => p \in b.visible /\
         IF p \in DOMAIN entries THEN e[p] = entries[p]
         ELSE e[p] \in Domain[p] /\ model.default[p] = Unset /\ p \notin model.partial
    /\ \A p \in DOMAIN entries : p \in b.visible => e[p] = entries[p]
    /\ Open(b) = {} /\ Conflicts(b) = {}}
AsEntries(e) == [p \in {q \in Params : e[q] # Unset} |-> e[p]]
(* What a rule reads, and the condition it applies under, is never hidden,   *)
(* and what it reads is searched in full.  A table that allows has a row,    *)
(* and reads no text that is left blank.                                     *)
RulesReadSearched == \A r \in model.rules :
  /\ \A p \in r.params : model.shows[p] = Unset /\ p \notin model.partial
  /\ r.when # Unset => model.shows[r.when.of] = Unset
  /\ r.kind = "allow" => r.rows # {} /\ \A p \in r.params :
       Domain[p] # {} \/ p \in DOMAIN entries \/ model.default[p] # Unset

(* Once the search ends below its cap, every answer the rules allow is among *)
(* the candidates: only provably inconsistent values were eliminated         *)
(* (propagate.ts:293-294).  Where the rules read what they may not see in    *)
(* full, more is eliminated: see the README.                                 *)
Complete == (stack = <<>> /\ ~capped /\ Settles /\ RulesReadSearched) =>
  \A a \in Answers : \E i \in DOMAIN found : Shown(found[i]) = AsEntries(a)
=============================================================================
