------------------------- MODULE ConfigEngineProofs -------------------------
(***************************************************************************)
(* Theorems about ConfigEngine, for every model, entries, options and cap. *)
(* Two arguments carry them.  The passes of bindings settle, where the     *)
(* conditions do not chase each other, on the one set of parameters that   *)
(* the values it leaves hide; so what is shown says all there is to say.   *)
(* And the search never leaves an answer: from entries that are on the way *)
(* to one, what is bound agrees with it, so that no conflict is reported,  *)
(* none of its values is eliminated, and a branch goes on towards it.      *)
(***************************************************************************)
EXTENDS ConfigEngine, FiniteSetTheorems, SequenceTheorems, TLAPS

-----------------------------------------------------------------------------
(* Naturals.                                                               *)

\* A set of naturals has a least member.
LEMMA SmallestOf ==
  ASSUME NEW T, T \subseteq Nat, T # {}
  PROVE  \E x \in T : \A y \in T : x <= y
<1> DEFINE R == StrictSubsetOrdering(Nat)
           F == FiniteSubsetsOf(Nat)
           I == {0..x : x \in T}
<1>1. IsWellFoundedOn(R, F)
  BY FS_StrictSubsetOrderingWellFounded
<1>2. I \subseteq F /\ I # {}
  <2>1. ASSUME NEW x \in T PROVE 0..x \in F
    <3>1. x \in Nat /\ IsFiniteSet(0..x)
      BY FS_Interval
    <3>2. 0..x \in SUBSET Nat
      BY <3>1
    <3> QED
      BY <3>1, <3>2 DEF FiniteSubsetsOf
  <2> QED
    BY <2>1
<1>3. \A x, y \in T : y < x => <<0..y, 0..x>> \in R
  BY DEF StrictSubsetOrdering
<1>4. PICK i \in I : \A j \in I : ~(<<j, i>> \in R)
  <2> HIDE DEF R, F, I
  <2> QED
    BY <1>1, <1>2, WFMin
<1>5. PICK x \in T : i = 0..x
  BY <1>4
<1>6. ASSUME NEW y \in T, y < x PROVE FALSE
  BY <1>3, <1>4, <1>5, <1>6
<1>7. QED
  BY <1>5, <1>6

\* Induction, over a set.
LEMMA SetInduction ==
  ASSUME NEW S, 0 \in S, \A n \in Nat : n \in S => n + 1 \in S
  PROVE  Nat \subseteq S
<1> DEFINE T == {n \in Nat : n \notin S}
<1>1. SUFFICES ASSUME T # {} PROVE FALSE
  OBVIOUS
<1>2. PICK x \in T : \A y \in T : x <= y
  <2>1. T \subseteq Nat
    OBVIOUS
  <2> HIDE DEF T
  <2> QED
    BY <1>1, <2>1, SmallestOf
<1>3. x # 0 /\ x \in Nat
  BY <1>2
<1>4. x - 1 \in Nat /\ x - 1 < x /\ (x - 1) + 1 = x
  BY <1>3
<1>5. QED
  BY <1>2, <1>3, <1>4

\* A function iterated n times, from x.
Within(F, X) == \A x \in X : F[x] \in X
Iterate(f, F, X, x, n) ==
  /\ f[0] = x /\ \A m \in 0..n : f[m] \in X
  /\ \A m \in 1..n : f[m] = F[f[m - 1]]

LEMMA Iterates ==
  ASSUME NEW X, NEW F, Within(F, X), NEW x \in X, NEW N \in Nat
  PROVE  \E f : Iterate(f, F, X, x, N)
<1> DEFINE S == {n \in Nat : \E f : Iterate(f, F, X, x, n)}
<1>1. 0 \in S
  <2>1. Iterate([n \in 0..0 |-> x], F, X, x, 0)
    BY DEF Iterate
  <2> QED
    BY <2>1
<1>2. ASSUME NEW n \in Nat, n \in S PROVE n + 1 \in S
  <2>1. PICK f : Iterate(f, F, X, x, n)
    BY <1>2
  <2> DEFINE g == [m \in 0..n + 1 |-> IF m = n + 1 THEN F[f[n]] ELSE f[m]]
  <2>2. f[n] \in X /\ F[f[n]] \in X
    BY <2>1 DEF Iterate, Within
  <2>3. ASSUME NEW m \in 0..n + 1 PROVE g[m] \in X
    <3>1. m = n + 1 \/ m \in 0..n
      OBVIOUS
    <3> QED
      BY <2>1, <2>2, <3>1 DEF Iterate
  <2>4. g[0] = x
    BY <2>1 DEF Iterate
  <2>5. ASSUME NEW m \in 1..n + 1 PROVE g[m] = F[g[m - 1]]
    <3>1. m - 1 \in 0..n /\ g[m - 1] = f[m - 1]
      OBVIOUS
    <3>2. CASE m = n + 1
      BY <3>1, <3>2
    <3>3. CASE m # n + 1
      <4>1. m \in 1..n
        BY <3>3
      <4>2. f[m] = F[f[m - 1]]
        BY <2>1, <4>1 DEF Iterate
      <4> QED
        BY <3>1, <3>3, <4>2
    <3> QED
      BY <3>2, <3>3
  <2> HIDE DEF g
  <2>6. Iterate(g, F, X, x, n + 1)
    BY <2>3, <2>4, <2>5 DEF Iterate
  <2> QED
    BY <2>6
<1>3. N \in S
  <2> HIDE DEF S
  <2> QED
    BY <1>1, <1>2, SetInduction
<1>4. QED
  BY <1>3

-----------------------------------------------------------------------------
(* What entries hide.                                                      *)

\* The conditions and the defaults of a model are of its parameters.
LEMMA ModelShape ==
  ASSUME model \in Models
  PROVE  /\ \A p \in Params : model.shows[p] # Unset =>
              model.shows[p].of \in Params /\ model.shows[p].is \in Values
         /\ \A p \in Params : model.default[p] \in Values \cup {Unset}
         /\ \A r \in model.rules : Rule(r)
BY EngineAssumption DEF Condition

\* The passes of bindings, one by one.
LEMMA HiddenPasses ==
  ASSUME NEW e
  PROVE  \E c : /\ c[0] = {} /\ Hidden(e) = c[Cardinality(Params)]
                /\ \A n \in 1..Cardinality(Params) : c[n] = Hides(Settled(e, c[n - 1]))
<1> DEFINE N == Cardinality(Params)
           F == [h \in SUBSET Params |-> Hides(Settled(e, h))]
           Pass(c) == c = [n \in 0..N |-> IF n = 0 THEN {} ELSE Hides(Settled(e, c[n - 1]))]
<1>1. N \in Nat
  BY EngineAssumption, FS_CardinalityType
<1>2. PICK f : Iterate(f, F, SUBSET Params, {}, N)
  <2>1. {} \in SUBSET Params /\ Within(F, SUBSET Params)
    BY DEF Hides, Within
  <2> HIDE DEF F, N
  <2> QED
    BY <1>1, <2>1, Iterates
<1>3. f[0] = {} /\ \A n \in 1..N : f[n] = Hides(Settled(e, f[n - 1]))
  <2>1. ASSUME NEW n \in 1..N PROVE F[f[n - 1]] = Hides(Settled(e, f[n - 1]))
    <3>1. n - 1 \in 0..N
      BY <1>1, <2>1
    <3>2. f[n - 1] \in SUBSET Params
      BY <1>2, <3>1 DEF Iterate
    <3> QED
      BY <3>2
  <2> HIDE DEF F
  <2> QED
    BY <1>2, <2>1 DEF Iterate
<1>4. Pass([n \in 0..N |-> f[n]])
  <2> DEFINE g == [n \in 0..N |-> f[n]]
  <2>1. ASSUME NEW n \in 0..N PROVE g[n] = IF n = 0 THEN {} ELSE Hides(Settled(e, g[n - 1]))
    <3>1. CASE n = 0
      BY <1>3, <3>1
    <3>2. CASE n # 0
      <4>1. n \in 1..N /\ n - 1 \in 0..N
        BY <1>1, <3>2
      <4> QED
        BY <1>3, <3>2, <4>1
    <3> QED
      BY <3>1, <3>2
  <2>2. g = [n \in 0..N |-> g[n]]
    OBVIOUS
  <2> HIDE DEF g, F
  <2>3. Pass(g)
    BY <2>1, <2>2
  <2> QED
    BY <2>3 DEF g
<1> DEFINE d == CHOOSE c : Pass(c)
<1>5. Pass(d)
  BY <1>4
<1>6. Hidden(e) = d[N]
  BY DEF Hidden
<1> HIDE DEF d
<1>7. d[0] = {} /\ \A n \in 1..N : d[n] = Hides(Settled(e, d[n - 1]))
  <2> HIDE DEF N
  <2>1. d = [n \in 0..N |-> IF n = 0 THEN {} ELSE Hides(Settled(e, d[n - 1]))]
    BY <1>5
  <2>2. 0 \in 0..N /\ \A n \in 1..N : n \in 0..N /\ n # 0
    BY <1>1
  <2>3. \A n \in 0..N : d[n] = IF n = 0 THEN {} ELSE Hides(Settled(e, d[n - 1]))
    BY <2>1
  <2> QED
    BY <2>2, <2>3
<1>8. QED
  BY <1>6, <1>7

\* A condition reads a parameter of lower rank.
Ranks(rank) ==
  /\ rank \in [Params -> 1..Cardinality(Params)]
  /\ \A p \in Params : model.shows[p] # Unset => rank[model.shows[p].of] < rank[p]
Agree(A, B, rank, n) == \A p \in Params : rank[p] < n => (p \in A <=> p \in B)

\* Two sets hidden that agree below a rank hide the same at it.
LEMMA PassAgrees ==
  ASSUME model \in Models, NEW rank, Ranks(rank), NEW e, NEW A, NEW B, NEW n \in Nat, Agree(A, B, rank, n)
  PROVE  Agree(Hides(Settled(e, A)), Hides(Settled(e, B)), rank, n + 1)
<1> SUFFICES ASSUME NEW p \in Params, rank[p] < n + 1
             PROVE  p \in Hides(Settled(e, A)) <=> p \in Hides(Settled(e, B))
  BY DEF Agree
<1>1. CASE model.shows[p] = Unset
  BY <1>1 DEF Hides, Shows
<1>2. CASE model.shows[p] # Unset
  <2> DEFINE q == model.shows[p].of
  <2>0. \A x \in Params : rank[x] \in Int
    BY EngineAssumption, FS_CardinalityType DEF Ranks
  <2>1. q \in Params /\ rank[q] < rank[p]
    BY <1>2, ModelShape DEF Ranks
  <2>2. rank[q] < n
    BY <2>0, <2>1
  <2>3. q \in A <=> q \in B
    BY <2>1, <2>2 DEF Agree
  <2>4. Settled(e, A)[q] = Settled(e, B)[q]
    BY <2>1, <2>3 DEF Settled
  <2> HIDE DEF q
  <2> QED
    BY <2>4 DEF Hides, Shows, q
<1>3. QED
  BY <1>1, <1>2

\* So the passes settle,
LEMMA HiddenFixed ==
  ASSUME model \in Models, Settles, NEW e
  PROVE  Hidden(e) \subseteq Params /\ Hidden(e) = Hides(Settled(e, Hidden(e)))
<1> DEFINE N == Cardinality(Params)
<1>1. N \in Nat
  BY EngineAssumption, FS_CardinalityType
<1>2. PICK rank : Ranks(rank)
  BY DEF Settles, Ranks
<1>3. PICK c : /\ c[0] = {} /\ Hidden(e) = c[N]
               /\ \A n \in 1..N : c[n] = Hides(Settled(e, c[n - 1]))
  BY HiddenPasses
<1> DEFINE S == {n \in Nat : n <= N => Agree(c[n], Hides(Settled(e, c[n])), rank, n + 1)}
<1>4. 0 \in S
  BY <1>1, <1>2 DEF Agree, Ranks
<1>5. ASSUME NEW n \in Nat, n \in S PROVE n + 1 \in S
  <2> SUFFICES ASSUME n + 1 <= N PROVE Agree(c[n + 1], Hides(Settled(e, c[n + 1])), rank, n + 1 + 1)
    OBVIOUS
  <2>1. Agree(c[n], Hides(Settled(e, c[n])), rank, n + 1)
    BY <1>1, <1>5
  <2>2. c[n + 1] = Hides(Settled(e, c[n]))
    <3>1. n + 1 \in 1..N /\ (n + 1) - 1 = n
      BY <1>1
    <3> QED
      BY <1>3, <3>1
  <2> HIDE DEF S
  <2> QED
    BY <1>2, <2>1, <2>2, PassAgrees
<1>6. Agree(c[N], Hides(Settled(e, c[N])), rank, N + 1)
  <2>1. N \in S
    <3> HIDE DEF S, N
    <3> QED
      BY <1>1, <1>4, <1>5, SetInduction
  <2> QED
    BY <1>1, <2>1
<1>7. c[N] \subseteq Params
  <2>1. CASE N = 0
    BY <1>3, <2>1
  <2>2. CASE N # 0
    BY <1>1, <1>3, <2>2 DEF Hides
  <2> QED
    BY <2>1, <2>2
<1>8. \A p \in Params : rank[p] < N + 1
  BY <1>1, <1>2 DEF Ranks
<1>9. Hides(Settled(e, c[N])) \subseteq Params
  BY DEF Hides
<1>10. c[N] = Hides(Settled(e, c[N]))
  BY <1>6, <1>7, <1>8, <1>9 DEF Agree
<1>11. QED
  BY <1>3, <1>7, <1>10

\* and there is one set to settle on.
LEMMA FixedOnce ==
  ASSUME model \in Models, Settles, NEW e, NEW A, NEW B, A \subseteq Params, B \subseteq Params,
         A = Hides(Settled(e, A)), B = Hides(Settled(e, B))
  PROVE  A = B
<1> DEFINE N == Cardinality(Params)
<1>1. N \in Nat
  BY EngineAssumption, FS_CardinalityType
<1>2. PICK rank : Ranks(rank)
  BY DEF Settles, Ranks
<1> DEFINE S == {n \in Nat : Agree(A, B, rank, n)}
<1>3. 0 \in S
  BY <1>1, <1>2 DEF Agree, Ranks
<1>4. ASSUME NEW n \in Nat, n \in S PROVE n + 1 \in S
  BY <1>2, <1>4, PassAgrees
<1>5. N + 1 \in S
  <2> HIDE DEF S, N
  <2> QED
    BY <1>1, <1>3, <1>4, SetInduction
<1>6. QED
  BY <1>1, <1>2, <1>5 DEF Agree, Ranks

\* What bindings makes of entries: a parameter shows or not by the values of the
\* others, and is null, entered or by default.
LEMMA BoundIs ==
  ASSUME model \in Models, Settles, NEW e
  PROVE  /\ Bound(e) = [values |-> Settled(e, Hidden(e)), visible |-> Params \ Hidden(e)]
         /\ Bound(e).visible \subseteq Params
         /\ \A p \in Params :
              p \in Bound(e).visible <=>
                model.shows[p] = Unset \/ Bound(e).values[model.shows[p].of] \in {Unset, model.shows[p].is}
         /\ \A p \in Params :
              Bound(e).values[p] = IF p \notin Bound(e).visible THEN Null
                                   ELSE IF p \in DOMAIN e THEN e[p] ELSE model.default[p]
<1> DEFINE H == Hidden(e)
<1>1. H \subseteq Params /\ H = Hides(Settled(e, H))
  BY HiddenFixed
<1>2. Bound(e) = [values |-> Settled(e, H), visible |-> Params \ H]
  <2>1. H \cup H = H
    OBVIOUS
  <2> QED
    BY <1>1, <2>1 DEF Bound
<1> HIDE DEF H
<1>3. \A p \in Params : p \in H <=> ~Shows(Settled(e, H), p)
  BY <1>1 DEF Hides
<1>4. \A p \in Params : Bound(e).values[p] = IF p \in H THEN Null
                          ELSE IF p \in DOMAIN e THEN e[p] ELSE model.default[p]
  BY <1>2 DEF Settled
<1>5. \A p \in Params : p \in Bound(e).visible <=> p \notin H
  BY <1>2
<1>6. \A p \in Params : p \notin H <=>
        model.shows[p] = Unset \/ Bound(e).values[model.shows[p].of] \in {Unset, model.shows[p].is}
  BY <1>2, <1>3 DEF Shows
<1>7. Bound(e).visible \subseteq Params
  BY <1>2
<1>8. Bound(e) = [values |-> Settled(e, Hidden(e)), visible |-> Params \ Hidden(e)]
  BY <1>2 DEF H
<1>9. QED
  BY <1>4, <1>5, <1>6, <1>7, <1>8

\* What is shown of entries binds, shows and hides what they do.
LEMMA ShownBinds ==
  ASSUME model \in Models, Settles, NEW e
  PROVE  Bound(Shown(e)) = Bound(e)
<1> DEFINE H == Hidden(e)
           s == Shown(e)
<1>1. Bound(e).visible = Params \ H /\ H \subseteq Params /\ H = Hides(Settled(e, H))
  BY BoundIs, HiddenFixed
<1>2. Settled(s, H) = Settled(e, H)
  <2> HIDE DEF H
  <2>1. ASSUME NEW p \in Params, p \notin H
        PROVE  (p \in DOMAIN s <=> p \in DOMAIN e) /\ (p \in DOMAIN e => s[p] = e[p])
    BY <1>1, <2>1 DEF Shown
  <2> HIDE DEF s
  <2> QED
    BY <2>1 DEF Settled
<1>3. Hidden(s) = H
  <2>1. Hidden(s) \subseteq Params /\ Hidden(s) = Hides(Settled(s, Hidden(s)))
    BY HiddenFixed
  <2> HIDE DEF s, H
  <2> QED
    BY <1>1, <1>2, <2>1, FixedOnce
<1>4. Bound(s) = [values |-> Settled(s, H), visible |-> Params \ H]
  <2> HIDE DEF s, H
  <2> QED
    BY <1>3, BoundIs
<1>5. QED
  BY <1>2, <1>4, BoundIs
-----------------------------------------------------------------------------
(* What the search handles.                                                *)

\* Entries are functions on some of the parameters.
LEMMA EntriesAre ==
  ASSUME NEW e
  PROVE  e \in Entries <=> \E D \in SUBSET Params : e \in [D -> Values]
BY DEF Entries

LEMMA EntriesShape ==
  ASSUME NEW e \in Entries
  PROVE  /\ DOMAIN e \subseteq Params /\ e = [p \in DOMAIN e |-> e[p]]
         /\ \A p \in DOMAIN e : e[p] \in Values
BY EntriesAre

\* So are they with one more.
LEMMA WithType ==
  ASSUME NEW e \in Entries, NEW k \in Params, NEW v \in Values
  PROVE  With(e, k, v) \in Entries
<1> DEFINE D == DOMAIN e \cup {k}
<1>1. D \in SUBSET Params /\ With(e, k, v) \in [D -> Values]
  BY EntriesShape DEF With
<1> HIDE DEF D
<1>2. QED
  BY <1>1, EntriesAre

\* A finite set has a sequence of its members, and none is left out.
LEMMA Sequenced ==
  ASSUME NEW S, IsFiniteSet(S)
  PROVE  /\ SetToSeq(S) \in Seq(S)
         /\ \A x \in S : \E i \in DOMAIN SetToSeq(S) : SetToSeq(S)[i] = x
<1> DEFINE n == Cardinality(S)
           s == SetToSeq(S)
<1>1. n \in Nat /\ IsFiniteSet(1..n) /\ Cardinality(1..n) = n
  BY FS_CardinalityType, FS_Interval
<1>2. ExistsBijection(1..n, S)
  <2> HIDE DEF n
  <2> QED
    BY <1>1, FS_SameCardinalityBij DEF n
<1>3. s \in Injection(1..n, S)
  <2>1. \E f \in [1..n -> S] : IsInjective(f)
    BY <1>2 DEF ExistsBijection, Bijection, Injection
  <2> QED
    BY <2>1 DEF SetToSeq, Injection
<1>4. s \in Surjection(1..n, S)
  <2> HIDE DEF s
  <2> QED
    BY <1>1, <1>3, FS_Injection
<1>5. s \in [1..n -> S]
  BY <1>3 DEF Injection
<1> HIDE DEF s, n
<1>6. s \in Seq(S) /\ DOMAIN s = 1..n
  BY <1>1, <1>5
<1>7. QED
  BY <1>4, <1>6 DEF Surjection, s

\* What propagation leaves has whatever it starts with and no round takes away.
LEMMA LiveKeeps ==
  ASSUME NEW e, NEW b, NEW P, Start(b) \in P, \A l \in P : Narrow(e, b, l) \in P
  PROVE  Live(e, b) \in P
<1> DEFINE X == [live : P, changed : BOOLEAN]
           F == [at \in X |-> Round(e, b, at)]
           x == [live |-> Start(b), changed |-> TRUE]
           Goes(c) == c = [n \in 0..Rounds |-> IF n = 0 THEN x ELSE Round(e, b, c[n - 1])]
           d == CHOOSE c : Goes(c)
<1>1. Rounds \in Nat
  BY EngineAssumption
<1>2. x \in X /\ \A at \in X : Round(e, b, at) \in X
  BY DEF Round
<1>3. PICK f : Iterate(f, F, X, x, Rounds)
  <2>1. Within(F, X)
    BY <1>2 DEF Within
  <2> HIDE DEF F, X, x
  <2> QED
    BY <1>1, <1>2, <2>1, Iterates
<1>4. f[0] = x /\ \A n \in 1..Rounds : f[n] = Round(e, b, f[n - 1])
  <2>1. ASSUME NEW n \in 1..Rounds PROVE F[f[n - 1]] = Round(e, b, f[n - 1])
    <3>1. n - 1 \in 0..Rounds
      BY <1>1, <2>1
    <3> HIDE DEF X, x
    <3>2. f[n - 1] \in X
      BY <1>3, <3>1 DEF Iterate
    <3> QED
      BY <3>2
  <2> HIDE DEF F, X, x
  <2> QED
    BY <1>3, <2>1 DEF Iterate
<1>5. \E g : Goes(g)
  <2> HIDE DEF F, X, x
  <2> DEFINE g == [n \in 0..Rounds |-> f[n]]
  <2>1. ASSUME NEW n \in 0..Rounds PROVE g[n] = IF n = 0 THEN x ELSE Round(e, b, g[n - 1])
    <3>1. CASE n = 0
      BY <1>4, <3>1
    <3>2. CASE n # 0
      <4>1. n \in 1..Rounds /\ n - 1 \in 0..Rounds
        BY <1>1, <3>2
      <4> QED
        BY <1>4, <3>2, <4>1
    <3> QED
      BY <3>1, <3>2
  <2>2. g = [n \in 0..Rounds |-> g[n]]
    OBVIOUS
  <2> HIDE DEF g
  <2>3. Goes(g)
    BY <2>1, <2>2
  <2> QED
    BY <2>3
<1>6. Goes(d)
  BY <1>5
<1>7. Live(e, b) = d[Rounds].live
  BY DEF Live
<1> HIDE DEF d, x
<1>8. \A n \in 0..Rounds : d[n] = IF n = 0 THEN x ELSE Round(e, b, d[n - 1])
  BY <1>6
<1> DEFINE S == {n \in Nat : n <= Rounds => d[n] \in X}
<1>9. 0 \in S
  BY <1>1, <1>2, <1>8
<1>10. ASSUME NEW n \in Nat, n \in S PROVE n + 1 \in S
  <2> SUFFICES ASSUME n + 1 <= Rounds PROVE d[n + 1] \in X
    OBVIOUS
  <2>1. n + 1 \in 0..Rounds /\ n + 1 # 0 /\ (n + 1) - 1 = n /\ n <= Rounds
    BY <1>1
  <2>2. d[n + 1] = Round(e, b, d[n])
    BY <1>8, <2>1
  <2>3. d[n] \in X
    BY <1>10, <2>1
  <2> HIDE DEF X
  <2> QED
    BY <1>2, <2>2, <2>3
<1>11. Rounds \in S
  <2> HIDE DEF S
  <2> QED
    BY <1>1, <1>9, <1>10, SetInduction
<1>12. QED
  BY <1>1, <1>7, <1>11

\* It leaves some of a parameter's options.
LEMMA LiveType ==
  ASSUME NEW e, NEW b
  PROVE  /\ Live(e, b) \in [Params -> SUBSET Values]
         /\ \A k \in Params : Live(e, b)[k] \subseteq Domain[k]
<1> DEFINE P == {l \in [Params -> SUBSET Values] : \A k \in Params : l[k] \subseteq Domain[k]}
<1>1. Start(b) \in P
  BY EngineAssumption DEF Start
<1>2. ASSUME NEW l \in P PROVE Narrow(e, b, l) \in P
  BY DEF Narrow
<1>3. Live(e, b) \in P
  <2> HIDE DEF P
  <2> QED
    BY <1>1, <1>2, LiveKeeps
<1>4. QED
  BY <1>3

\* The calls a branch opens.
LEMMA Opened ==
  ASSUME NEW e \in Entries, NEW k \in Params
  PROVE  LET S == {With(e, k, o) : o \in Live(e, Bound(e))[k]} IN
         /\ S \subseteq Entries /\ IsFiniteSet(S)
<1> DEFINE L == Live(e, Bound(e))[k]
           f == [o \in L |-> With(e, k, o)]
<1>1. L \subseteq Domain[k] /\ L \subseteq Values /\ IsFiniteSet(Domain[k])
  BY LiveType, EngineAssumption
<1> HIDE DEF L
<1>2. IsFiniteSet(L)
  BY <1>1, FS_Subset
<1>3. IsFiniteSet({f[o] : o \in L})
  <2> HIDE DEF f
  <2>1. f \in Surjection(L, {f[o] : o \in L})
    BY DEF f, Surjection
  <2> QED
    BY <1>2, <2>1, FS_Surjection
<1>4. {f[o] : o \in L} = {With(e, k, o) : o \in L}
  OBVIOUS
<1>5. QED
  BY <1>1, <1>3, <1>4, WithType DEF L

\* The first of the open calls, and those it leaves.
LEMMA Calls ==
  ASSUME NEW s \in Seq(Entries), s # <<>>
  PROVE  /\ Head(s) \in Entries /\ Tail(s) \in Seq(Entries)
         /\ \A i \in DOMAIN s : s[i] = Head(s) \/ \E j \in DOMAIN Tail(s) : Tail(s)[j] = s[i]
<1>1. Len(s) \in Nat /\ Len(s) >= 1 /\ DOMAIN s = 1..Len(s)
  BY HeadTailProperties
<1>2. Head(s) = s[1] /\ Head(s) \in Entries /\ Tail(s) \in Seq(Entries) /\ DOMAIN Tail(s) = 1..Len(s) - 1
  BY HeadTailProperties
<1>3. ASSUME NEW i \in DOMAIN s, i # 1 PROVE \E j \in DOMAIN Tail(s) : Tail(s)[j] = s[i]
  <2>1. i - 1 \in 1..Len(s) - 1 /\ (i - 1) + 1 = i
    BY <1>1, <1>3
  <2>2. Tail(s)[i - 1] = s[i]
    BY <2>1, HeadTailProperties
  <2> QED
    BY <1>2, <2>1, <2>2
<1>4. QED
  BY <1>1, <1>2, <1>3

LEMMA TypeNext == TypeOK /\ [Next]_vars => TypeOK'
<1> SUFFICES ASSUME TypeOK, [Next]_vars PROVE TypeOK'
  OBVIOUS
<1>1. CASE UNCHANGED vars
  BY <1>1 DEF TypeOK, vars
<1>2. CASE Drop
  BY <1>2, Calls DEF Drop, TypeOK
<1>3. CASE Keep
  <2>1. Cur \in Entries /\ Tail(stack) \in Seq(Entries)
    BY <1>3, Calls DEF Keep, TypeOK, Cur
  <2>2. found' \in Seq(Entries) /\ Len(found') <= Cap /\ capped' \in BOOLEAN
    <3>1. CASE Len(found) >= Cap
      BY <1>3, <3>1 DEF Keep, TypeOK
    <3>2. CASE ~(Len(found) >= Cap)
      <4>1. found' = Append(found, Cur) /\ capped' = capped
        BY <1>3, <3>2 DEF Keep
      <4>2. Len(found) + 1 <= Cap
        BY <3>2, EngineAssumption DEF TypeOK
      <4> HIDE DEF Cur
      <4> QED
        BY <2>1, <4>1, <4>2 DEF TypeOK
    <3> QED
      BY <3>1, <3>2
  <2> QED
    BY <1>3, <2>1, <2>2 DEF Keep, TypeOK
<1>4. CASE Branch
  <2>1. Cur \in Entries /\ Tail(stack) \in Seq(Entries)
    BY <1>4, Calls DEF Branch, TypeOK, Cur
  <2>2. PICK k \in Open(Bound(Cur)) :
          stack' = SetToSeq({With(Cur, k, o) : o \in Live(Cur, Bound(Cur))[k]}) \o Tail(stack)
    BY <1>4 DEF Branch
  <2> DEFINE S == {With(Cur, k, o) : o \in Live(Cur, Bound(Cur))[k]}
  <2>3. S \subseteq Entries /\ IsFiniteSet(S)
    BY <2>1, Opened DEF Open
  <2> HIDE DEF S
  <2>4. SetToSeq(S) \in Seq(Entries)
    BY <2>3, Sequenced
  <2>5. stack' \in Seq(Entries)
    BY <2>1, <2>2, <2>4 DEF S
  <2> QED
    BY <1>4, <2>5 DEF Branch, TypeOK
<1>5. QED
  BY <1>1, <1>2, <1>3, <1>4 DEF Next

LEMMA TypeInit == Init => TypeOK
<1> SUFFICES ASSUME Init PROVE TypeOK
  OBVIOUS
<1>1. entries \in Entries
  BY EngineAssumption DEF Init
<1>2. stack \in Seq(Entries) /\ found \in Seq(Entries) /\ Len(found) <= Cap
  BY <1>1, EngineAssumption DEF Init
<1>3. QED
  BY <1>2 DEF Init, TypeOK

\* Every reachable state of the search is well-formed: open calls and candidates
\* enter options for parameters, and no more than the cap are kept.
THEOREM TypeCorrect == Spec => []TypeOK
BY TypeInit, TypeNext, PTL DEF Spec

-----------------------------------------------------------------------------
(* What is stored stands alone.                                            *)

\* A step leaves the model, and so what any entries bind.
LEMMA SameModel ==
  ASSUME UNCHANGED model, NEW e
  PROVE  /\ Bound(e)' = Bound(e) /\ Shown(e)' = Shown(e)
         /\ Settles' = Settles
<1>1. Hidden(e)' = Hidden(e)
  BY DEF Hidden, Hides, Settled, Shows
<1>2. Bound(e)' = Bound(e)
  BY <1>1 DEF Bound, Hides, Settled, Shows
<1>3. QED
  BY <1>2 DEF Shown, Settles

LEMMA SameRules ==
  ASSUME UNCHANGED model, NEW b
  PROVE  Open(b)' = Open(b) /\ Conflicts(b)' = Conflicts(b)
BY DEF Open, Conflicts, Active, Unbound, Breaks, Matches, AllBound, IsBound, HasDomain

\* What was found left nothing open and broke no rule.
Decided(e) == Open(Bound(e)) = {} /\ Conflicts(Bound(e)) = {}
FoundDecided == \A i \in DOMAIN found : Decided(found[i])

LEMMA FoundNext == TypeOK /\ FoundDecided /\ [Next]_vars => FoundDecided'
<1> SUFFICES ASSUME TypeOK, FoundDecided, [Next]_vars PROVE FoundDecided'
  OBVIOUS
<1>1. UNCHANGED model
  BY DEF Next, Drop, Keep, Branch, vars
<1>2. ASSUME NEW e, Decided(e) PROVE Decided(e)'
  <2>1. Bound(e)' = Bound(e)
    BY <1>1, SameModel
  <2> DEFINE b == Bound(e)
  <2>2. Open(b)' = Open(b) /\ Conflicts(b)' = Conflicts(b)
    BY <1>1, <2>1, SameRules
  <2> QED
    BY <1>2, <2>1, <2>2 DEF Decided
<1>3. ASSUME NEW i \in DOMAIN found' PROVE Decided(found[i])'
  <2>1. PICK e : e = found'[i]
    OBVIOUS
  <2>2. Decided(e)
    <3>1. CASE found' = found
      BY <2>1, <3>1 DEF FoundDecided
    <3>2. CASE found' # found
      <4>1. ~Fails /\ Open(Bound(Cur)) = {} /\ found' = Append(found, Cur)
        BY <3>2 DEF Next, Drop, Keep, Branch, vars
      <4>2. Decided(Cur)
        BY <4>1 DEF Decided, Fails
      <4>3. found \in Seq(Entries) /\ Cur \in Entries
        BY <3>2, Calls DEF TypeOK, Cur, Next, Drop, Keep, Branch, vars
      <4>4. found'[i] = Cur \/ (i \in DOMAIN found /\ found'[i] = found[i])
        BY <4>1, <4>3, AppendProperties
      <4> QED
        BY <2>1, <4>2, <4>4 DEF FoundDecided
    <3> QED
      BY <3>1, <3>2
  <2>3. Decided(e)'
    BY <1>2, <2>2
  <2> QED
    BY <2>1, <2>3 DEF Decided
<1>4. QED
  BY <1>3 DEF FoundDecided

\* Whatever the model and the entries: where conditions do not chase each other,
\* what is stored of a candidate binds and shows what the search bound, leaves
\* nothing open and breaks no rule.
THEOREM CandidatesStandAlone == Spec => []StandsAlone
<1>1. Init => FoundDecided
  BY DEF Init, FoundDecided
<1>2. TypeOK /\ FoundDecided => StandsAlone
  <2> SUFFICES ASSUME TypeOK, FoundDecided, Settles, NEW i \in DOMAIN found
               PROVE  LET full == Bound(found[i]) again == Bound(Shown(found[i])) IN
                        full = again /\ Open(again) = {} /\ Conflicts(again) = {}
    BY DEF StandsAlone
  <2>1. Bound(Shown(found[i])) = Bound(found[i])
    BY ShownBinds DEF TypeOK
  <2> QED
    BY <2>1 DEF FoundDecided, Decided
<1> QED
  BY TypeCorrect, <1>1, <1>2, FoundNext, PTL DEF Spec

-----------------------------------------------------------------------------
(* The search leaves no answer.                                            *)

\* A full answer, as the entries it makes.
IsAnswer(f) ==
  /\ f \in Entries /\ Decided(f)
  /\ \A p \in DOMAIN f :
       /\ p \in Bound(f).visible
       /\ p \notin DOMAIN entries => f[p] \in Domain[p] /\ model.default[p] = Unset /\ p \notin model.partial
  /\ \A p \in DOMAIN entries \cap Bound(f).visible : p \in DOMAIN f /\ f[p] = entries[p]

\* Entries on the way to it: they say nothing else of what it shows.
Towards(e, f) ==
  /\ e \in Entries /\ DOMAIN entries \subseteq DOMAIN e
  /\ \A p \in DOMAIN e \cap Bound(f).visible : p \in DOMAIN f /\ f[p] = e[p]

OnTheWay(e, f) == model \in Models /\ Settles /\ IsAnswer(f) /\ Towards(e, f)

LEMMA AsAnswer ==
  ASSUME entries \in Given, NEW a \in Answers
  PROVE  IsAnswer(AsEntries(a))
<1> DEFINE f == AsEntries(a)
           b == Bound(f)
<1>1. DOMAIN f = {p \in Params : a[p] # Unset} /\ \A p \in DOMAIN f : f[p] = a[p]
  BY DEF AsEntries
<1>2. f \in Entries
  <2>1. a \in [Params -> Values \cup {Unset}]
    BY DEF Answers
  <2>2. DOMAIN f \in SUBSET Params /\ f \in [DOMAIN f -> Values]
    BY <1>1, <2>1 DEF AsEntries
  <2> HIDE DEF f
  <2> QED
    BY <2>2, EntriesAre
<1>3. /\ \A p \in Params : a[p] # Unset => p \in b.visible /\
           IF p \in DOMAIN entries THEN a[p] = entries[p]
           ELSE a[p] \in Domain[p] /\ model.default[p] = Unset /\ p \notin model.partial
      /\ \A p \in DOMAIN entries : p \in b.visible => a[p] = entries[p]
      /\ Open(b) = {} /\ Conflicts(b) = {}
  BY DEF Answers, AsEntries
<1>4. \A p \in DOMAIN entries : p \in Params /\ entries[p] # Unset
  BY EngineAssumption, EntriesShape
<1> HIDE DEF f
<1>5. QED
  BY <1>1, <1>2, <1>3, <1>4 DEF IsAnswer, Decided, f

\* What is bound on the way agrees with the answer where that shows something.
LEMMA ValuesAgree ==
  ASSUME NEW e, NEW f, OnTheWay(e, f), NEW p \in Bound(f).visible, p \in Bound(e).visible
  PROVE  Bound(e).values[p] \in {Unset, Bound(f).values[p]}
<1>1. p \in Params /\ DOMAIN e \subseteq Params /\ DOMAIN f \subseteq Params
  BY BoundIs, EntriesShape DEF OnTheWay, Towards, IsAnswer
<1>2. /\ Bound(e).values[p] = IF p \in DOMAIN e THEN e[p] ELSE model.default[p]
      /\ Bound(f).values[p] = IF p \in DOMAIN f THEN f[p] ELSE model.default[p]
  BY <1>1, BoundIs DEF OnTheWay
<1>3. CASE p \in DOMAIN e
  BY <1>2, <1>3 DEF OnTheWay, Towards
<1>4. CASE p \notin DOMAIN e
  BY <1>2, <1>4 DEF OnTheWay, Towards, IsAnswer
<1>5. QED
  BY <1>3, <1>4

\* What the answer shows is shown on the way to it.
LEMMA ShownOnTheWay ==
  ASSUME NEW e, NEW f, OnTheWay(e, f)
  PROVE  Bound(f).visible \subseteq Bound(e).visible
<1> DEFINE b == Bound(e)
           z == Bound(f)
           V == z.visible \ b.visible
<1>0. model \in Models /\ Settles
  BY DEF OnTheWay
<1>1. SUFFICES ASSUME V # {} PROVE FALSE
  OBVIOUS
<1>2. PICK rank : Ranks(rank)
  BY <1>0 DEF Settles, Ranks
<1>3. V \subseteq Params /\ \A x \in Params : rank[x] \in Nat
  BY <1>0, <1>2, BoundIs, EngineAssumption, FS_CardinalityType DEF Ranks
<1>4. PICK p \in V : \A x \in V : rank[p] <= rank[x]
  <2> DEFINE T == {rank[x] : x \in V}
  <2>1. T \subseteq Nat /\ T # {}
    BY <1>1, <1>3
  <2>2. PICK n \in T : \A m \in T : n <= m
    <3> HIDE DEF T
    <3> QED
      BY <2>1, SmallestOf
  <2> QED
    BY <2>2
<1> DEFINE q == model.shows[p].of
<1>5. model.shows[p] # Unset /\ b.values[q] \notin {Unset, model.shows[p].is}
      /\ z.values[q] \in {Unset, model.shows[p].is}
  BY <1>0, <1>3, <1>4, BoundIs
<1>6. q \in Params /\ rank[q] < rank[p] /\ model.shows[p].is \in Values
  BY <1>0, <1>2, <1>3, <1>4, <1>5, ModelShape DEF Ranks
<1>7. q \notin V
  BY <1>3, <1>4, <1>6
<1>8. CASE q \in z.visible
  BY <1>5, <1>7, <1>8, ValuesAgree
<1>9. CASE q \notin z.visible
  <2>1. z.values[q] = Null
    BY <1>0, <1>6, <1>9, BoundIs
  <2> QED
    BY <1>5, <1>6, <2>1, EngineAssumption
<1>10. QED
  BY <1>8, <1>9

\* What is left open on the way the answer answers, if it shows it.
LEMMA Answered ==
  ASSUME NEW e, NEW f, OnTheWay(e, f), NEW k \in Bound(f).visible,
         ~IsBound(Bound(e), k), Domain[k] # {}, k \notin model.partial
  PROVE  /\ k \in Open(Bound(e)) /\ k \in DOMAIN f
         /\ f[k] \in Domain[k] /\ f[k] \in Values /\ Bound(f).values[k] = f[k]
<1>1. k \in Bound(e).visible /\ k \in Params
  BY ShownOnTheWay, BoundIs DEF OnTheWay
<1>2. Bound(e).values[k] = Unset
  BY <1>1 DEF IsBound
<1>3. k \in Open(Bound(e))
  BY <1>1, <1>2 DEF Open, HasDomain
<1>4. k \notin DOMAIN e /\ model.default[k] = Unset
  <2>1. \A p \in DOMAIN e : e[p] # Unset
    BY EntriesShape, EngineAssumption DEF OnTheWay, Towards
  <2> QED
    BY <1>1, <1>2, <2>1, BoundIs DEF OnTheWay
<1>5. Bound(f).values[k] # Unset
  BY <1>1 DEF OnTheWay, IsAnswer, Decided, Open, HasDomain
<1>6. k \in DOMAIN f /\ Bound(f).values[k] = f[k]
  BY <1>1, <1>4, <1>5, BoundIs DEF OnTheWay
<1>7. f[k] \in Domain[k] /\ f[k] \in Values
  BY <1>4, <1>6, EntriesShape DEF OnTheWay, Towards, IsAnswer
<1>8. QED
  BY <1>3, <1>6, <1>7

\* What a rule reads is shown, and so is what decides whether it applies.
LEMMA RuleReads ==
  ASSUME NEW f, model \in Models, Settles, RulesReadSearched, NEW r \in model.rules
  PROVE  /\ \A j \in r.params : j \in Params /\ j \in Bound(f).visible /\ j \notin model.partial
         /\ r.when # Unset => r.when.of \in Bound(f).visible /\ r.when.is \in Values
         /\ \A row \in r.rows : \A j \in r.params : row[j] \in Values \cup {Null}
<1>1. Rule(r)
  BY ModelShape
<1>2. \A p \in Params : model.shows[p] = Unset => p \in Bound(f).visible
  BY BoundIs
<1>3. QED
  BY <1>1, <1>2 DEF RulesReadSearched, Rule, Condition

\* A row that holds on the way holds of the answer,
LEMMA BreaksPersist ==
  ASSUME NEW e, NEW f, OnTheWay(e, f), RulesReadSearched, NEW r \in model.rules, Breaks(Bound(e), r)
  PROVE  Breaks(Bound(f), r) /\ AllBound(Bound(f), r)
<1>1. PICK row \in r.rows : \A j \in r.params : Bound(e).values[j] = row[j]
  BY DEF Breaks, Matches
<1>2. ASSUME NEW j \in r.params PROVE Bound(f).values[j] = row[j] /\ IsBound(Bound(f), j)
  <2>1. j \in Bound(f).visible /\ j \in Bound(e).visible /\ row[j] \in Values \cup {Null}
    BY RuleReads DEF OnTheWay
  <2>2. row[j] # Unset /\ Bound(e).values[j] = row[j]
    BY <1>1, <2>1, EngineAssumption
  <2> QED
    BY <2>1, <2>2, ValuesAgree DEF IsBound
<1>3. QED
  BY <1>2 DEF Breaks, Matches, AllBound

\* a rule that applies on the way applies to the answer,
LEMMA ActivePersists ==
  ASSUME NEW e, NEW f, OnTheWay(e, f), RulesReadSearched, NEW r \in model.rules, Active(Bound(e), r)
  PROVE  Active(Bound(f), r)
<1>1. CASE r.when = Unset
  BY <1>1 DEF Active
<1>2. CASE r.when # Unset
  <2>1. r.when.of \in Bound(f).visible /\ r.when.of \in Bound(e).visible /\ r.when.is \in Values
    BY <1>2, RuleReads DEF OnTheWay
  <2>2. Bound(e).values[r.when.of] = r.when.is /\ r.when.is # Unset
    BY <1>2, <2>1, EngineAssumption DEF Active
  <2> QED
    BY <2>1, <2>2, ValuesAgree DEF Active
<1>3. QED
  BY <1>1, <1>2

\* so that a rule broken on the way is broken by the answer.
LEMMA NeverBroken ==
  ASSUME NEW e, NEW f, OnTheWay(e, f), RulesReadSearched, NEW r \in model.rules,
         r.kind = "deny" \/ (r.kind = "assert" /\ Active(Bound(f), r)), Breaks(Bound(e), r)
  PROVE  FALSE
<1>1. Breaks(Bound(f), r) /\ AllBound(Bound(f), r)
  BY BreaksPersist
<1>2. Unbound(Bound(f), r) = {}
  BY <1>1 DEF Unbound, AllBound
<1>3. r \in Conflicts(Bound(f))
  BY <1>1, <1>2 DEF Conflicts
<1>4. QED
  BY <1>3 DEF OnTheWay, IsAnswer, Decided

LEMMA NoConflict ==
  ASSUME NEW e, NEW f, OnTheWay(e, f), RulesReadSearched
  PROVE  Conflicts(Bound(e)) = {}
<1> SUFFICES ASSUME NEW r \in Conflicts(Bound(e)) PROVE FALSE
  OBVIOUS
<1>0. r \in model.rules
  BY DEF Conflicts
<1>1. CASE r.kind = "allow"
  <2>1. AllBound(Bound(e), r) /\ r.rows # {} /\ ~Breaks(Bound(e), r)
    BY <1>1 DEF Conflicts
  <2>2. ASSUME NEW j \in r.params
        PROVE  Bound(f).values[j] = Bound(e).values[j] /\ IsBound(Bound(f), j)
    <3>1. j \in Bound(f).visible /\ IsBound(Bound(e), j)
      BY <1>0, <2>1, RuleReads DEF OnTheWay, AllBound
    <3> QED
      BY <3>1, ValuesAgree DEF IsBound
  <2>3. AllBound(Bound(f), r) /\ ~Breaks(Bound(f), r)
    BY <2>1, <2>2 DEF AllBound, Breaks, Matches
  <2>4. r \in Conflicts(Bound(f))
    BY <1>0, <1>1, <2>1, <2>3 DEF Conflicts
  <2> QED
    BY <2>4 DEF OnTheWay, IsAnswer, Decided
<1>2. CASE r.kind = "deny"
  <2>1. Breaks(Bound(e), r)
    BY <1>2 DEF Conflicts
  <2> QED
    BY <1>0, <1>2, <2>1, NeverBroken
<1>3. CASE r.kind = "assert"
  <2>1. Breaks(Bound(e), r) /\ Active(Bound(e), r)
    BY <1>3 DEF Conflicts
  <2>2. Active(Bound(f), r)
    BY <1>0, <2>1, ActivePersists
  <2> QED
    BY <1>0, <1>3, <2>1, <2>2, NeverBroken
<1>4. QED
  BY <1>1, <1>2, <1>3 DEF Conflicts

\* One more of the answer's values is still on the way, and so is anything
\* for a parameter the answer hides.
LEMMA Further ==
  ASSUME NEW e, NEW f, OnTheWay(e, f), NEW k \in Params, NEW o \in Values,
         k \in Bound(f).visible => k \in DOMAIN f /\ f[k] = o
  PROVE  OnTheWay(With(e, k, o), f)
<1>1. With(e, k, o) \in Entries
  BY WithType DEF OnTheWay, Towards
<1>2. /\ DOMAIN With(e, k, o) = DOMAIN e \cup {k}
      /\ \A p \in DOMAIN e \cup {k} : With(e, k, o)[p] = IF p = k THEN o ELSE e[p]
  BY DEF With
<1>3. QED
  BY <1>1, <1>2 DEF OnTheWay, Towards

\* The answer's values among the live ones.
Keeps(live, e, f) == \A j \in Open(Bound(e)) \cap Bound(f).visible : f[j] \in live[j]

\* What a rule reads and finds unbound is open, and the answer has it live.
LEMMA UnboundAnswered ==
  ASSUME NEW e, NEW f, OnTheWay(e, f), RulesReadSearched, NEW r \in model.rules,
         NEW live, Keeps(live, e, f), NEW j \in Unbound(Bound(e), r)
  PROVE  /\ j \in Params /\ j \in Bound(f).visible /\ j \in DOMAIN f
         /\ f[j] \in Values /\ Bound(f).values[j] = f[j] /\ f[j] \in live[j]
<1>1. j \in Params /\ j \in Bound(f).visible /\ j \notin model.partial /\ Domain[j] # {}
      /\ ~IsBound(Bound(e), j)
  BY RuleReads DEF Unbound, HasDomain, OnTheWay
<1>2. QED
  BY <1>1, Answered DEF Keeps

\* No rule eliminates a value of the answer: a table that allows,
LEMMA AllowSpares ==
  ASSUME NEW e, NEW f, OnTheWay(e, f), RulesReadSearched, NEW r \in model.rules, r.kind = "allow",
         NEW live, Keeps(live, e, f), NEW k \in Unbound(Bound(e), r)
  PROVE  f[k] \notin KilledByAllow(Bound(e), r, live, k)
<1> DEFINE b == Bound(e)
           z == Bound(f)
<1>1. ASSUME NEW j \in r.params PROVE IsBound(z, j)
  <2>0. j \in Params /\ j \in z.visible /\ j \in b.visible
    BY RuleReads, ShownOnTheWay DEF OnTheWay
  <2>1. CASE IsBound(b, j)
    BY <2>0, <2>1, ValuesAgree DEF IsBound
  <2>2. CASE ~IsBound(b, j) /\ Domain[j] # {}
    <3>1. j \in Unbound(b, r)
      BY <2>0, <2>2 DEF Unbound, HasDomain
    <3>2. z.values[j] \in Values
      BY <3>1, UnboundAnswered
    <3> QED
      BY <2>0, <3>2, EngineAssumption DEF IsBound
  <2>3. CASE ~IsBound(b, j) /\ Domain[j] = {}
    <3>1. j \in DOMAIN entries \/ model.default[j] # Unset
      BY <2>3 DEF RulesReadSearched
    <3>2. b.values[j] = IF j \in DOMAIN e THEN e[j] ELSE model.default[j]
      BY <2>0, BoundIs DEF OnTheWay
    <3>3. DOMAIN entries \subseteq DOMAIN e /\ \A p \in DOMAIN e : e[p] # Unset
      BY EntriesShape, EngineAssumption DEF OnTheWay, Towards
    <3> QED
      BY <2>0, <2>3, <3>1, <3>2, <3>3 DEF IsBound
  <2>4. QED
    BY <2>1, <2>2, <2>3
<1>2. r.rows # {} /\ AllBound(z, r)
  BY <1>1 DEF AllBound, RulesReadSearched
<1>3. Breaks(z, r)
  BY <1>2 DEF OnTheWay, IsAnswer, Decided, Conflicts
<1>4. PICK row \in r.rows : \A j \in r.params : z.values[j] = row[j]
  BY <1>3 DEF Breaks, Matches
<1>5. row[k] = f[k]
  BY <1>4, UnboundAnswered DEF Unbound
<1>6. ASSUME NEW j \in r.params
      PROVE  IF IsBound(b, j) THEN b.values[j] = row[j] ELSE HasDomain(b, j) => row[j] \in live[j]
  <2>0. j \in z.visible /\ j \in b.visible
    BY RuleReads, ShownOnTheWay DEF OnTheWay
  <2>1. CASE IsBound(b, j)
    BY <1>4, <2>0, <2>1, ValuesAgree DEF IsBound
  <2>2. CASE ~IsBound(b, j) /\ HasDomain(b, j)
    <3>1. j \in Unbound(b, r)
      BY <2>2 DEF Unbound
    <3>2. f[j] \in live[j] /\ z.values[j] = f[j]
      BY <3>1, UnboundAnswered
    <3> QED
      BY <1>4, <2>2, <3>2
  <2>3. QED
    BY <2>1, <2>2
<1>7. QED
  BY <1>5, <1>6 DEF KilledByAllow

\* one that forbids,
LEMMA DenySpares ==
  ASSUME NEW e, NEW f, OnTheWay(e, f), RulesReadSearched, NEW r \in model.rules, r.kind = "deny",
         NEW live, Keeps(live, e, f), NEW k \in Unbound(Bound(e), r)
  PROVE  f[k] \notin KilledByDeny(Bound(e), r, live, k)
<1> DEFINE b == Bound(e)
           z == Bound(f)
<1> SUFFICES ASSUME f[k] \in KilledByDeny(b, r, live, k) PROVE FALSE
  OBVIOUS
<1>1. PICK row \in r.rows : row[k] = f[k] /\ \A j \in r.params \ {k} : b.values[j] = row[j]
  BY DEF KilledByDeny
<1>2. ASSUME NEW j \in r.params PROVE z.values[j] = row[j] /\ IsBound(z, j)
  <2>0. j \in z.visible /\ j \in b.visible /\ row[j] # Unset
    BY RuleReads, ShownOnTheWay, EngineAssumption DEF OnTheWay
  <2>1. CASE j = k
    BY <1>1, <2>0, <2>1, UnboundAnswered DEF IsBound
  <2>2. CASE j # k
    BY <1>1, <2>0, <2>2, ValuesAgree DEF IsBound
  <2>3. QED
    BY <2>1, <2>2
<1>3. r \in Conflicts(z)
  BY <1>2 DEF Conflicts, AllBound, Breaks, Matches
<1>4. QED
  BY <1>3 DEF OnTheWay, IsAnswer, Decided

\* an assertion.
LEMMA AssertSpares ==
  ASSUME NEW e, NEW f, OnTheWay(e, f), RulesReadSearched, NEW r \in model.rules, r.kind = "assert",
         NEW live, Keeps(live, e, f), NEW k \in Unbound(Bound(e), r)
  PROVE  f[k] \notin KilledByAssert(e, Bound(e), r, live, k)
<1> SUFFICES ASSUME f[k] \in KilledByAssert(e, Bound(e), r, live, k) PROVE FALSE
  OBVIOUS
<1>0. Active(Bound(f), r)
  BY ActivePersists DEF KilledByAssert
<1>1. OnTheWay(With(e, k, f[k]), f)
  BY UnboundAnswered, Further
<1>2. CASE Breaks(Bound(With(e, k, f[k])), r)
  BY <1>0, <1>1, <1>2, NeverBroken
<1>3. CASE \E y \in Params \ {k} : Unbound(Bound(e), r) = {k, y} /\
             \A x \in live[y] : Breaks(Bound(With(With(e, k, f[k]), y, x)), r)
  <2>1. PICK y \in Unbound(Bound(e), r) : \A x \in live[y] : Breaks(Bound(With(With(e, k, f[k]), y, x)), r)
    BY <1>3
  <2>2. Breaks(Bound(With(With(e, k, f[k]), y, f[y])), r)
    BY <2>1, UnboundAnswered
  <2>3. OnTheWay(With(With(e, k, f[k]), y, f[y]), f)
    BY <1>1, UnboundAnswered, Further
  <2> QED
    BY <1>0, <2>2, <2>3, NeverBroken
<1>4. QED
  BY <1>2, <1>3 DEF KilledByAssert

LEMMA NotKilled ==
  ASSUME NEW e, NEW f, OnTheWay(e, f), RulesReadSearched, NEW live, Keeps(live, e, f), NEW k
  PROVE  f[k] \notin Killed(e, Bound(e), live, k)
<1> SUFFICES ASSUME f[k] \in Killed(e, Bound(e), live, k) PROVE FALSE
  OBVIOUS
<1>1. PICK r \in model.rules :
        /\ k \in Unbound(Bound(e), r)
        /\ f[k] \in (CASE r.kind = "allow"  -> KilledByAllow(Bound(e), r, live, k)
                       [] r.kind = "deny"   -> KilledByDeny(Bound(e), r, live, k)
                       [] r.kind = "assert" -> KilledByAssert(e, Bound(e), r, live, k))
  BY DEF Killed
<1>2. r.kind \in {"allow", "deny", "assert"}
  BY ModelShape DEF OnTheWay, Rule
<1>3. CASE r.kind = "allow"
  BY <1>1, <1>3, AllowSpares
<1>4. CASE r.kind = "deny"
  BY <1>1, <1>4, DenySpares
<1>5. CASE r.kind = "assert"
  BY <1>1, <1>5, AssertSpares
<1>6. QED
  BY <1>2, <1>3, <1>4, <1>5

\* So what propagation leaves has them,
LEMMA AnswerStaysLive ==
  ASSUME NEW e, NEW f, OnTheWay(e, f), RulesReadSearched
  PROVE  Keeps(Live(e, Bound(e)), e, f)
<1> DEFINE P == {l \in [Params -> SUBSET Values] : Keeps(l, e, f)}
<1>1. Start(Bound(e)) \in P
  <2>1. Start(Bound(e)) \in [Params -> SUBSET Values]
    BY EngineAssumption DEF Start
  <2>2. ASSUME NEW j \in Open(Bound(e)) \cap Bound(f).visible PROVE f[j] \in Start(Bound(e))[j]
    <3>1. j \in Params /\ j \notin model.partial /\ HasDomain(Bound(e), j) /\ ~IsBound(Bound(e), j)
      BY DEF Open, IsBound
    <3>2. f[j] \in Domain[j]
      BY <3>1, Answered DEF HasDomain
    <3> QED
      BY <3>1, <3>2 DEF Start, HasDomain
  <2> QED
    BY <2>1, <2>2 DEF Keeps
<1>2. ASSUME NEW l \in P PROVE Narrow(e, Bound(e), l) \in P
  <2>1. Narrow(e, Bound(e), l) \in [Params -> SUBSET Values]
    BY DEF Narrow
  <2>2. ASSUME NEW j \in Open(Bound(e)) \cap Bound(f).visible PROVE f[j] \in Narrow(e, Bound(e), l)[j]
    <3>1. f[j] \in l[j] /\ j \in Params
      BY DEF Keeps, Open
    <3>2. f[j] \notin Killed(e, Bound(e), l, j)
      BY NotKilled
    <3> QED
      BY <3>1, <3>2 DEF Narrow
  <2> QED
    BY <2>1, <2>2 DEF Keeps
<1>3. Live(e, Bound(e)) \in P
  <2> HIDE DEF P
  <2> QED
    BY <1>1, <1>2, LiveKeeps
<1>4. QED
  BY <1>3

\* and all options of a parameter that no rule reads.
LEMMA UnreadStaysLive ==
  ASSUME NEW e, NEW b, NEW k \in Params, k \in b.visible, \A r \in model.rules : k \notin r.params
  PROVE  Live(e, b)[k] = Domain[k]
<1> DEFINE P == {l \in [Params -> SUBSET Values] : l[k] = Domain[k]}
<1>1. Start(b) \in P
  BY EngineAssumption DEF Start
<1>2. ASSUME NEW l \in P PROVE Narrow(e, b, l) \in P
  <2>1. \A r \in model.rules : k \notin Unbound(b, r)
    BY DEF Unbound
  <2>2. Killed(e, b, l, k) = {}
    BY <2>1 DEF Killed
  <2> QED
    BY <2>2 DEF Narrow
<1>3. Live(e, b) \in P
  <2> HIDE DEF P
  <2> QED
    BY <1>1, <1>2, LiveKeeps
<1>4. QED
  BY <1>3

\* A branch on any open parameter goes on towards the answer.
LEMMA GoesOn ==
  ASSUME NEW e, NEW f, OnTheWay(e, f), RulesReadSearched, NEW k \in Open(Bound(e))
  PROVE  \E o \in Live(e, Bound(e))[k] : OnTheWay(With(e, k, o), f)
<1>1. k \in Params /\ k \in Bound(e).visible /\ Domain[k] # {} /\ ~IsBound(Bound(e), k) /\ k \notin model.partial
  BY DEF Open, HasDomain, IsBound
<1>2. CASE k \in Bound(f).visible
  <2>1. f[k] \in Live(e, Bound(e))[k]
    BY <1>2, AnswerStaysLive DEF Keeps
  <2>2. k \in DOMAIN f /\ f[k] \in Values
    BY <1>1, <1>2, Answered
  <2>3. OnTheWay(With(e, k, f[k]), f)
    BY <1>1, <2>2, Further
  <2> QED
    BY <2>1, <2>3
<1>3. CASE k \notin Bound(f).visible
  <2>1. \A r \in model.rules : k \notin r.params
    BY <1>3, RuleReads DEF OnTheWay
  <2>2. Live(e, Bound(e))[k] = Domain[k]
    BY <1>1, <2>1, UnreadStaysLive
  <2>3. PICK o \in Domain[k] : o \in Values
    BY <1>1, EngineAssumption
  <2>4. OnTheWay(With(e, k, o), f)
    BY <1>1, <1>3, <2>3, Further
  <2> QED
    BY <2>2, <2>4
<1>4. QED
  BY <1>2, <1>3

\* With nothing open, what is shown is the answer.
LEMMA Arrives ==
  ASSUME NEW e, NEW f, OnTheWay(e, f), Open(Bound(e)) = {}
  PROVE  Shown(e) = f
<1> DEFINE b == Bound(e)
           z == Bound(f)
           V == b.visible \ z.visible
<1>0. model \in Models /\ Settles
  BY DEF OnTheWay
<1>1. DOMAIN f \subseteq DOMAIN e
  <2> SUFFICES ASSUME NEW p \in DOMAIN f, p \notin DOMAIN e PROVE FALSE
    OBVIOUS
  <2>1. p \notin DOMAIN entries /\ p \in z.visible /\ p \in b.visible
    BY ShownOnTheWay DEF OnTheWay, Towards, IsAnswer
  <2>2. f[p] \in Domain[p] /\ model.default[p] = Unset /\ p \notin model.partial /\ p \in Params
    BY <2>1, EntriesShape DEF OnTheWay, IsAnswer
  <2>3. b.values[p] = Unset
    BY <1>0, <2>1, <2>2, BoundIs
  <2> QED
    BY <2>1, <2>2, <2>3 DEF Open, HasDomain
<1>2. ASSUME NEW p \in z.visible PROVE p \in b.visible /\ b.values[p] = z.values[p]
  <2>1. p \in Params /\ p \in b.visible
    BY <1>0, BoundIs, ShownOnTheWay
  <2>2. /\ b.values[p] = IF p \in DOMAIN e THEN e[p] ELSE model.default[p]
        /\ z.values[p] = IF p \in DOMAIN f THEN f[p] ELSE model.default[p]
    BY <1>0, <2>1, BoundIs
  <2> QED
    BY <1>1, <2>1, <2>2 DEF OnTheWay, Towards
<1>3. V = {}
  <2>1. SUFFICES ASSUME V # {} PROVE FALSE
    OBVIOUS
  <2>2. PICK rank : Ranks(rank)
    BY <1>0 DEF Settles, Ranks
  <2>3. V \subseteq Params /\ \A x \in Params : rank[x] \in Nat
    BY <1>0, <2>2, BoundIs, EngineAssumption, FS_CardinalityType DEF Ranks
  <2>4. PICK p \in V : \A x \in V : rank[p] <= rank[x]
    <3> DEFINE T == {rank[x] : x \in V}
    <3>1. T \subseteq Nat /\ T # {}
      BY <2>1, <2>3
    <3>2. PICK n \in T : \A m \in T : n <= m
      <4> HIDE DEF T
      <4> QED
        BY <3>1, SmallestOf
    <3> QED
      BY <3>2
  <2> DEFINE q == model.shows[p].of
  <2>5. model.shows[p] # Unset /\ z.values[q] \notin {Unset, model.shows[p].is}
        /\ b.values[q] \in {Unset, model.shows[p].is}
    BY <1>0, <2>3, <2>4, BoundIs
  <2>6. q \in Params /\ rank[q] < rank[p] /\ model.shows[p].is \in Values
    BY <1>0, <2>2, <2>3, <2>4, <2>5, ModelShape DEF Ranks
  <2>7. q \notin V
    BY <2>3, <2>4, <2>6
  <2>8. CASE q \in z.visible
    BY <1>2, <2>5, <2>8
  <2>9. CASE q \notin z.visible
    <3>1. b.values[q] = Null
      BY <1>0, <2>6, <2>7, <2>9, BoundIs
    <3> QED
      BY <2>5, <2>6, <3>1, EngineAssumption
  <2>10. QED
    BY <2>8, <2>9
<1>4. b.visible = z.visible
  BY <1>3, ShownOnTheWay
<1>5. DOMAIN e \cap b.visible = DOMAIN f
  BY <1>1, <1>4 DEF OnTheWay, Towards, IsAnswer
<1>6. \A p \in DOMAIN f : e[p] = f[p]
  BY <1>4, <1>5 DEF OnTheWay, Towards
<1>7. f = [p \in DOMAIN f |-> f[p]]
  BY EntriesShape DEF OnTheWay, IsAnswer
<1>8. QED
  BY <1>5, <1>6, <1>7 DEF Shown

\* No answer is lost: it is found, or an open call is on the way to it.
Ahead(a) ==
  \/ \E i \in DOMAIN found : Shown(found[i]) = AsEntries(a)
  \/ \E i \in DOMAIN stack : Towards(stack[i], AsEntries(a))
Covered == ~capped /\ Settles /\ RulesReadSearched => \A a \in Answers : Ahead(a)

\* A step leaves the answers, and what is on the way to one.
LEMMA SameAnswers ==
  ASSUME UNCHANGED <<model, entries>>
  PROVE  /\ Settles' = Settles /\ RulesReadSearched' = RulesReadSearched
         /\ \A a : a \in Answers' => a \in Answers
         /\ \A e, f : Towards(e, f)' = Towards(e, f)
<1>1. Settles' = Settles /\ RulesReadSearched' = RulesReadSearched
  BY DEF Settles, RulesReadSearched
<1>2. ASSUME NEW e PROVE Bound(e)' = Bound(e)
  BY SameModel
<1>3. ASSUME NEW e PROVE Open(Bound(e))' = Open(Bound(e)) /\ Conflicts(Bound(e))' = Conflicts(Bound(e))
  <2> DEFINE b == Bound(e)
  <2>1. Bound(e)' = Bound(e)
    BY <1>2
  <2>2. PICK c : c = b
    OBVIOUS
  <2>3. Open(c)' = Open(c) /\ Conflicts(c)' = Conflicts(c)
    BY SameRules
  <2> QED
    BY <2>1, <2>2, <2>3 DEF Open, Conflicts, Active, Unbound, Breaks, Matches, AllBound, IsBound, HasDomain
<1>4. ASSUME NEW a, a \in Answers' PROVE a \in Answers
  <2> DEFINE f == [p \in {q \in Params : a[q] # Unset} |-> a[p]]
  <2>1. Bound(f)' = Bound(f) /\ Open(Bound(f))' = Open(Bound(f)) /\ Conflicts(Bound(f))' = Conflicts(Bound(f))
    BY <1>2, <1>3
  <2> QED
    BY <1>4, <2>1 DEF Answers
<1>5. ASSUME NEW e, NEW f PROVE Towards(e, f)' = Towards(e, f)
  BY <1>2 DEF Towards
<1>6. QED
  BY <1>1, <1>4, <1>5

\* The search never gives up on the way to an answer.
LEMMA NeverFails ==
  ASSUME NEW f, OnTheWay(Cur, f), RulesReadSearched
  PROVE  ~Fails
BY NoConflict, GoesOn DEF Fails

\* A branch opens a call for each value left, before the calls that wait.
LEMMA BranchOpens ==
  ASSUME TypeOK, Branch
  PROVE  \E k \in Open(Bound(Cur)) :
           /\ \A o \in Live(Cur, Bound(Cur))[k] : \E i \in DOMAIN stack' : stack'[i] = With(Cur, k, o)
           /\ \A i \in DOMAIN Tail(stack) : \E j \in DOMAIN stack' : stack'[j] = Tail(stack)[i]
<1>1. Cur \in Entries /\ Tail(stack) \in Seq(Entries)
  BY Calls DEF Branch, TypeOK, Cur
<1>2. PICK k \in Open(Bound(Cur)) :
        stack' = SetToSeq({With(Cur, k, o) : o \in Live(Cur, Bound(Cur))[k]}) \o Tail(stack)
  BY DEF Branch
<1> DEFINE S == {With(Cur, k, o) : o \in Live(Cur, Bound(Cur))[k]}
           s == SetToSeq(S)
           t == Tail(stack)
<1>3. S \subseteq Entries /\ IsFiniteSet(S)
  BY <1>1, Opened DEF Open
<1>4. s \in Seq(Entries) /\ \A x \in S : \E i \in DOMAIN s : s[i] = x
  <2> HIDE DEF S
  <2> QED
    BY <1>3, Sequenced
<1>5. /\ \A i \in DOMAIN s : i \in DOMAIN (s \o t) /\ (s \o t)[i] = s[i]
      /\ \A i \in DOMAIN t : Len(s) + i \in DOMAIN (s \o t) /\ (s \o t)[Len(s) + i] = t[i]
  <2> HIDE DEF s, t
  <2>1. Len(s) \in Nat /\ DOMAIN s = 1..Len(s) /\ Len(t) \in Nat /\ DOMAIN t = 1..Len(t)
    BY <1>1, <1>4 DEF t
  <2>2. DOMAIN (s \o t) = 1..(Len(s) + Len(t))
    BY <1>1, <1>4 DEF t
  <2> QED
    BY <1>1, <1>4, <2>1, <2>2, ConcatProperties DEF t
<1>6. stack' = s \o t
  BY <1>2
<1> HIDE DEF s, t
<1>7. \A o \in Live(Cur, Bound(Cur))[k] : \E i \in DOMAIN stack' : stack'[i] = With(Cur, k, o)
  BY <1>4, <1>5, <1>6
<1>8. \A i \in DOMAIN t : \E j \in DOMAIN stack' : stack'[j] = t[i]
  BY <1>5, <1>6
<1>9. QED
  BY <1>7, <1>8 DEF t

LEMMA CoveredInit == Init => Covered
<1> SUFFICES ASSUME Init, Settles, NEW a \in Answers PROVE Ahead(a)
  BY DEF Covered
<1>1. IsAnswer(AsEntries(a)) /\ entries \in Entries
  BY AsAnswer, EngineAssumption DEF Init
<1>2. Towards(entries, AsEntries(a))
  BY <1>1 DEF Towards, IsAnswer
<1>3. 1 \in DOMAIN stack /\ stack[1] = entries
  BY DEF Init
<1>4. QED
  BY <1>2, <1>3 DEF Ahead

LEMMA CoveredNext == TypeOK /\ Covered /\ [Next]_vars => Covered'
<1> SUFFICES ASSUME TypeOK, Covered, [Next]_vars, ~capped', Settles', RulesReadSearched', NEW a, a \in Answers'
             PROVE  Ahead(a)'
  BY DEF Covered
<1> DEFINE f == AsEntries(a)
<1>1. UNCHANGED <<model, entries>> /\ ~capped
  BY DEF Next, Drop, Keep, Branch, vars
<1>2. Settles /\ RulesReadSearched /\ a \in Answers
  BY <1>1, SameAnswers
<1>3. Ahead(a) /\ IsAnswer(f)
  BY <1>1, <1>2, AsAnswer DEF Covered, TypeOK
<1>4. \A e : OnTheWay(e, f) <=> Towards(e, f)
  BY <1>2, <1>3 DEF OnTheWay, TypeOK
<1> HIDE DEF f
<1>5. ASSUME NEW e, NEW i \in DOMAIN found', found'[i] = e, Shown(e) = f PROVE Ahead(a)'
  <2>1. Shown(e)' = f
    BY <1>1, <1>5, SameModel
  <2> QED
    BY <1>5, <2>1 DEF Ahead, Shown, f
<1>6. ASSUME NEW e, NEW i \in DOMAIN stack', stack'[i] = e, Towards(e, f) PROVE Ahead(a)'
  <2>1. Towards(e, f)'
    BY <1>1, <1>6, SameAnswers
  <2> QED
    BY <1>6, <2>1 DEF Ahead, Towards, f
<1>7. CASE UNCHANGED vars
  BY <1>3, <1>5, <1>6, <1>7 DEF Ahead, vars, f
<1>8. CASE Next
  <2>0. stack # <<>> /\ Cur \in Entries /\ Tail(stack) \in Seq(Entries)
    BY <1>8, Calls DEF Next, Drop, Keep, Branch, TypeOK, Cur
  <2>1. CASE \E i \in DOMAIN found : Shown(found[i]) = f
    <3>1. PICK i \in DOMAIN found : Shown(found[i]) = f
      BY <2>1
    <3>2. i \in DOMAIN found' /\ found'[i] = found[i]
      <4>1. found' = found \/ found' = Append(found, Cur)
        BY <1>8 DEF Next, Drop, Keep, Branch
      <4> QED
        BY <2>0, <4>1, AppendProperties DEF TypeOK
    <3> QED
      BY <1>5, <3>1, <3>2
  <2>2. CASE \E i \in DOMAIN Tail(stack) : Towards(Tail(stack)[i], f)
    <3>1. PICK i \in DOMAIN Tail(stack) : Towards(Tail(stack)[i], f)
      BY <2>2
    <3>2. \E j \in DOMAIN stack' : stack'[j] = Tail(stack)[i]
      BY <1>8, BranchOpens DEF Next, Drop, Keep
    <3> QED
      BY <1>6, <3>1, <3>2
  <2>3. CASE Towards(Cur, f)
    <3>0. OnTheWay(Cur, f)
      BY <1>4, <2>3
    <3>1. CASE Drop
      BY <1>2, <3>0, <3>1, NeverFails DEF Drop
    <3>2. CASE Keep
      <4>1. found' = Append(found, Cur) /\ Open(Bound(Cur)) = {}
        BY <1>1, <3>2 DEF Keep
      <4>2. Shown(Cur) = f
        BY <3>0, <4>1, Arrives
      <4>3. Len(found) + 1 \in DOMAIN found' /\ found'[Len(found) + 1] = Cur
        BY <2>0, <4>1, AppendProperties DEF TypeOK
      <4> QED
        BY <1>5, <4>2, <4>3
    <3>3. CASE Branch
      <4>1. PICK k \in Open(Bound(Cur)) :
              \A o \in Live(Cur, Bound(Cur))[k] : \E i \in DOMAIN stack' : stack'[i] = With(Cur, k, o)
        BY <3>3, BranchOpens
      <4>2. PICK o \in Live(Cur, Bound(Cur))[k] : Towards(With(Cur, k, o), f)
        BY <1>2, <3>0, GoesOn DEF OnTheWay
      <4> QED
        BY <1>6, <4>1, <4>2
    <3>4. QED
      BY <1>8, <3>1, <3>2, <3>3 DEF Next
  <2>4. QED
    BY <1>3, <2>0, <2>1, <2>2, <2>3, Calls DEF Ahead, Cur, TypeOK, f
<1>9. QED
  BY <1>7, <1>8

\* Whatever the model and the entries: a search that ended below its cap has
\* found every answer, where the conditions do not chase each other and the rules
\* read what is searched in full.  Elimination loses none.
THEOREM SearchIsComplete == Spec => []Complete
<1>1. Covered => Complete
  BY DEF Covered, Complete, Ahead
<1> QED
  BY TypeCorrect, CoveredInit, CoveredNext, <1>1, PTL DEF Spec
=============================================================================
