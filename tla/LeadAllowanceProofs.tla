------------------------- MODULE LeadAllowanceProofs -------------------------
(***************************************************************************)
(* Theorems about module LeadAllowance.  The properties add up units over   *)
(* the reservations of a period, so the proofs begin with the facts about   *)
(* sums that they use: induction on a finite set is an appeal to a smallest *)
(* counterexample (WFMin).  The invariant says of each request how its      *)
(* leads, rows and units relate; one lemma per kind of step keeps it.       *)
(***************************************************************************)
EXTENDS LeadAllowance, FiniteSetTheorems, SequenceTheorems, WellFoundedInduction, TLAPS

-----------------------------------------------------------------------------
(* Sums over finite sets.                                                  *)

\* What the library takes out of a set next.
Chosen(s) == CHOOSE x \in s : TRUE

\* g sums f over every subset of S.
Sums(f, S, g) == g = [s \in SUBSET S |-> IF s = {} THEN 0 ELSE f[Chosen(s)] + g[s \ {Chosen(s)}]]

Summing(f, S) == CHOOSE g : Sums(f, S, g)

\* What is chosen from a set that is not empty is in it.
LEMMA ChosenIn == \A s : s # {} => Chosen(s) \in s
BY DEF Chosen

\* The library's sum is the last value of the recursive function it defines.
LEMMA SumIs ==
  ASSUME NEW f, NEW S
  PROVE  SumFunctionOnSet(f, S) = Summing(f, S)[S]
BY DEF SumFunctionOnSet, FoldFunctionOnSet, MapThenFoldSet, Summing, Sums, Chosen

\* Among subsets of a finite set there is one that contains no other of them: every
\* induction on the sets summed is an appeal to it.
LEMMA Smallest ==
  ASSUME NEW S, IsFiniteSet(S), NEW B \in SUBSET SUBSET S, B # {}
  PROVE  \E m \in B : \A y \in B : y \subseteq m => y = m
<1> DEFINE R == StrictSubsetOrdering(S)
<1>1. FiniteSubsetsOf(S) = SUBSET S BY FS_FiniteSubsetsOfFinite
<1>2. IsWellFoundedOn(R, SUBSET S) BY <1>1, FS_StrictSubsetOrderingWellFounded
<1>3. \E m \in B : \A y \in B : ~ (<<y, m>> \in R)
  <2> HIDE DEF R
  <2> QED BY <1>2, WFMin
<1>4. PICK m \in B : \A y \in B : ~ (<<y, m>> \in R) BY <1>3
<1>5. ASSUME NEW y \in B, y \subseteq m, y # m PROVE FALSE
  <2>1. <<y, m>> \in (SUBSET S) \X (SUBSET S) OBVIOUS
  <2>2. <<y, m>> \in R BY <1>5, <2>1 DEF StrictSubsetOrdering
  <2> QED BY <1>4, <2>2
<1> QED BY <1>5

\* Two such functions agree on the sets that both sum.
LEMMA SumsAgree ==
  ASSUME NEW f, NEW S, NEW T, IsFiniteSet(T), NEW g, NEW h, Sums(f, S, g), Sums(f, T, h), T \subseteq S
  PROVE  \A s \in SUBSET T : g[s] = h[s]
<1> DEFINE B == {s \in SUBSET T : g[s] # h[s]}
<1> SUFFICES ASSUME B # {} PROVE FALSE OBVIOUS
<1>1. PICK m \in B : \A y \in B : y \subseteq m => y = m
  <2>1. B \in SUBSET SUBSET T OBVIOUS
  <2> HIDE DEF B
  <2> QED BY <2>1, Smallest
<1>2. /\ g[m] = IF m = {} THEN 0 ELSE f[Chosen(m)] + g[m \ {Chosen(m)}]
      /\ h[m] = IF m = {} THEN 0 ELSE f[Chosen(m)] + h[m \ {Chosen(m)}]
  BY DEF Sums
<1>3. CASE m = {} BY <1>2, <1>3
<1>4. CASE m # {}
  <2>1. Chosen(m) \in m BY <1>4, ChosenIn
  <2>2. m \ {Chosen(m)} \in SUBSET T /\ m \ {Chosen(m)} # m BY <2>1
  <2>3. m \ {Chosen(m)} \notin B BY <1>1, <2>2
  <2> QED BY <1>2, <1>4, <2>2, <2>3
<1> QED BY <1>3, <1>4

\* The recursion has a solution: for a smallest set without one, the solutions on
\* smaller sets make it up.
LEMMA SummingExists ==
  ASSUME NEW f, NEW S, IsFiniteSet(S)
  PROVE  Sums(f, S, Summing(f, S))
<1> DEFINE B == {s \in SUBSET S : ~Sums(f, s, Summing(f, s))}
<1> SUFFICES ASSUME B # {} PROVE FALSE
  OBVIOUS
<1>1. PICK m \in B : \A y \in B : y \subseteq m => y = m
  <2>1. B \in SUBSET SUBSET S OBVIOUS
  <2> HIDE DEF B
  <2> QED BY <2>1, Smallest
<1>2. \A s \in SUBSET m : s # m => Sums(f, s, Summing(f, s)) BY <1>1
<1> DEFINE g == [s \in SUBSET m |-> IF s = {} THEN 0
                   ELSE f[Chosen(s)] + Summing(f, s \ {Chosen(s)})[s \ {Chosen(s)}]]
<1>3. ASSUME NEW s \in SUBSET m, s # {}
      PROVE  g[s \ {Chosen(s)}] = Summing(f, s \ {Chosen(s)})[s \ {Chosen(s)}]
  <2> DEFINE r == s \ {Chosen(s)}
  <2>1. r \in SUBSET m /\ r # m BY <1>3, ChosenIn
  <2>2. Sums(f, r, Summing(f, r)) BY <1>2, <2>1
  <2>3. Summing(f, r)[r] = IF r = {} THEN 0 ELSE f[Chosen(r)] + Summing(f, r)[r \ {Chosen(r)}]
    <3> HIDE DEF r
    <3> QED BY <2>2 DEF Sums
  <2>4. ASSUME r # {} PROVE Summing(f, r)[r \ {Chosen(r)}] = Summing(f, r \ {Chosen(r)})[r \ {Chosen(r)}]
    <3> DEFINE q == r \ {Chosen(r)}
    <3>1. q \subseteq r /\ q \in SUBSET m /\ q # m BY <2>1, <2>4, ChosenIn
    <3>2. Sums(f, q, Summing(f, q)) BY <1>2, <3>1
    <3>3. IsFiniteSet(q) BY <3>1, FS_Subset
    <3> HIDE DEF q, r
    <3>4. Summing(f, r)[q] = Summing(f, q)[q]
      <4>1. \A s1 \in SUBSET q : Summing(f, r)[s1] = Summing(f, q)[s1]
        BY <2>2, <3>1, <3>2, <3>3, SumsAgree
      <4> QED BY <4>1
    <3> QED BY <3>4 DEF q
  <2>5. g[r] = IF r = {} THEN 0 ELSE f[Chosen(r)] + Summing(f, r \ {Chosen(r)})[r \ {Chosen(r)}]
    <3> HIDE DEF r
    <3> QED BY <2>1
  <2> HIDE DEF g, r
  <2>6. g[r] = Summing(f, r)[r] BY <2>3, <2>4, <2>5
  <2> QED BY <2>6 DEF r
<1>4. Sums(f, m, g)
  <2>1. \A s \in SUBSET m : g[s] = IF s = {} THEN 0 ELSE f[Chosen(s)] + g[s \ {Chosen(s)}]
    <3> SUFFICES ASSUME NEW s \in SUBSET m
                 PROVE  g[s] = IF s = {} THEN 0 ELSE f[Chosen(s)] + g[s \ {Chosen(s)}]
      OBVIOUS
    <3>1. g[s] = IF s = {} THEN 0 ELSE f[Chosen(s)] + Summing(f, s \ {Chosen(s)})[s \ {Chosen(s)}]
      OBVIOUS
    <3> HIDE DEF g
    <3> QED BY <1>3, <3>1
  <2>2. g = [s \in SUBSET m |-> g[s]] OBVIOUS
  <2> HIDE DEF g
  <2> QED BY <2>1, <2>2 DEF Sums
<1>5. Sums(f, m, Summing(f, m))
  <2> HIDE DEF g
  <2>1. \E k : Sums(f, m, k) BY <1>4
  <2> QED BY <2>1 DEF Summing
<1> QED BY <1>1, <1>5

\* Nothing sums to nothing.
LEMMA SumEmpty == ASSUME NEW f PROVE SumFunctionOnSet(f, {}) = 0
<1>1. IsFiniteSet({}) BY FS_EmptySet
<1>2. Sums(f, {}, Summing(f, {})) BY <1>1, SummingExists
<1> QED BY <1>2, SumIs DEF Sums

\* A sum is the chosen term and the sum of the others.
LEMMA SumChosen ==
  ASSUME NEW f, NEW S, IsFiniteSet(S), S # {}
  PROVE  SumFunctionOnSet(f, S) = f[Chosen(S)] + SumFunctionOnSet(f, S \ {Chosen(S)})
<1> DEFINE T == S \ {Chosen(S)}
<1>1. IsFiniteSet(T) /\ T \subseteq S BY FS_Subset
<1>2. T \in SUBSET S OBVIOUS
<1>3. Sums(f, S, Summing(f, S)) BY SummingExists
<1>4. Sums(f, T, Summing(f, T))
  <2> HIDE DEF T
  <2> QED BY <1>1, SummingExists
<1>5. Summing(f, S)[S] = f[Chosen(S)] + Summing(f, S)[T] BY <1>3 DEF Sums
<1> HIDE DEF T
<1>6. \A s \in SUBSET T : Summing(f, S)[s] = Summing(f, T)[s]
  <2> DEFINE g == Summing(f, S)
             h == Summing(f, T)
  <2>1. Sums(f, S, g) /\ Sums(f, T, h) BY <1>3, <1>4
  <2> HIDE DEF g, h
  <2>2. \A s \in SUBSET T : g[s] = h[s] BY <1>1, <2>1, SumsAgree
  <2> QED BY <2>2 DEF g, h
<1>7. Summing(f, S)[T] = Summing(f, T)[T] BY <1>6
<1>8. SumFunctionOnSet(f, S) = f[Chosen(S)] + SumFunctionOnSet(f, T) BY <1>5, <1>7, SumIs
<1> QED BY <1>8 DEF T

\* Equal terms have equal sums.
LEMMA SumSame ==
  ASSUME NEW f, NEW g, NEW S, IsFiniteSet(S), \A x \in S : f[x] = g[x]
  PROVE  SumFunctionOnSet(f, S) = SumFunctionOnSet(g, S)
<1> DEFINE B == {s \in SUBSET S : SumFunctionOnSet(f, s) # SumFunctionOnSet(g, s)}
<1> SUFFICES ASSUME B # {} PROVE FALSE
  OBVIOUS
<1>1. PICK m \in B : \A y \in B : y \subseteq m => y = m
  <2>1. B \in SUBSET SUBSET S OBVIOUS
  <2> HIDE DEF B
  <2> QED BY <2>1, Smallest
<1>2. m # {} BY SumEmpty
<1>3. IsFiniteSet(m) BY FS_Subset
<1>4. Chosen(m) \in m /\ m \ {Chosen(m)} # m BY <1>2, ChosenIn
<1>5. m \ {Chosen(m)} \notin B BY <1>1, <1>4
<1>6. SumFunctionOnSet(f, m \ {Chosen(m)}) = SumFunctionOnSet(g, m \ {Chosen(m)}) BY <1>5
<1>7. SumFunctionOnSet(f, m) = f[Chosen(m)] + SumFunctionOnSet(f, m \ {Chosen(m)}) BY <1>2, <1>3, SumChosen
<1>8. SumFunctionOnSet(g, m) = g[Chosen(m)] + SumFunctionOnSet(g, m \ {Chosen(m)}) BY <1>2, <1>3, SumChosen
<1>9. f[Chosen(m)] = g[Chosen(m)] BY <1>4
<1> QED BY <1>6, <1>7, <1>8, <1>9

\* Naturals sum to a natural.
LEMMA SumNat ==
  ASSUME NEW f, NEW S, IsFiniteSet(S), \A x \in S : f[x] \in Nat
  PROVE  SumFunctionOnSet(f, S) \in Nat
<1> DEFINE B == {s \in SUBSET S : SumFunctionOnSet(f, s) \notin Nat}
<1> SUFFICES ASSUME B # {} PROVE FALSE
  OBVIOUS
<1>1. PICK m \in B : \A y \in B : y \subseteq m => y = m
  <2>1. B \in SUBSET SUBSET S OBVIOUS
  <2> HIDE DEF B
  <2> QED BY <2>1, Smallest
<1>2. m # {} BY SumEmpty
<1>3. IsFiniteSet(m) BY FS_Subset
<1>4. Chosen(m) \in m /\ m \ {Chosen(m)} # m BY <1>2, ChosenIn
<1>5. m \ {Chosen(m)} \notin B BY <1>1, <1>4
<1>6. SumFunctionOnSet(f, m \ {Chosen(m)}) \in Nat BY <1>5
<1>7. SumFunctionOnSet(f, m) = f[Chosen(m)] + SumFunctionOnSet(f, m \ {Chosen(m)}) BY <1>2, <1>3, SumChosen
<1>8. f[Chosen(m)] \in Nat BY <1>4
<1>9. SumFunctionOnSet(f, m) \in Nat BY <1>6, <1>7, <1>8
<1> QED BY <1>9

\* Any term can be taken out, not only the one that is chosen.
LEMMA SumOut ==
  ASSUME NEW f, NEW S, IsFiniteSet(S), \A y \in S : f[y] \in Nat
  PROVE  \A x \in S : SumFunctionOnSet(f, S) = f[x] + SumFunctionOnSet(f, S \ {x})
<1> DEFINE Out(s) == \A x \in s : SumFunctionOnSet(f, s) = f[x] + SumFunctionOnSet(f, s \ {x})
           B == {s \in SUBSET S : ~Out(s)}
<1> SUFFICES ASSUME B # {} PROVE FALSE
  OBVIOUS
<1>1. PICK m \in B : \A y \in B : y \subseteq m => y = m
  <2>1. B \in SUBSET SUBSET S OBVIOUS
  <2> HIDE DEF B
  <2> QED BY <2>1, Smallest
<1>2. PICK x \in m : SumFunctionOnSet(f, m) # f[x] + SumFunctionOnSet(f, m \ {x}) OBVIOUS
<1> DEFINE c == Chosen(m)
           r == m \ {c, x}
<1>3. c \in m BY ChosenIn
<1>4. IsFiniteSet(m) BY FS_Subset
<1>5. SumFunctionOnSet(f, m) = f[c] + SumFunctionOnSet(f, m \ {c}) BY <1>3, <1>4, SumChosen
<1>6. c # x BY <1>2, <1>5
<1>7. Out(m \ {c}) /\ Out(m \ {x})
  <2>1. m \ {c} \in SUBSET S /\ m \ {x} \in SUBSET S OBVIOUS
  <2>2. m \ {c} # m /\ m \ {x} # m BY <1>3
  <2>3. m \ {c} \subseteq m /\ m \ {x} \subseteq m OBVIOUS
  <2> HIDE DEF Out, c
  <2> QED BY <1>1, <2>1, <2>2, <2>3
<1>8. x \in m \ {c} /\ c \in m \ {x} BY <1>3, <1>6
<1>9. (m \ {c}) \ {x} = r /\ (m \ {x}) \ {c} = r OBVIOUS
<1>10. /\ SumFunctionOnSet(f, m \ {c}) = f[x] + SumFunctionOnSet(f, r)
       /\ SumFunctionOnSet(f, m \ {x}) = f[c] + SumFunctionOnSet(f, r)
  <2> HIDE DEF c, r
  <2> QED BY <1>7, <1>8, <1>9
<1>11. f[c] \in Nat /\ f[x] \in Nat BY <1>3
<1>12. SumFunctionOnSet(f, r) \in Nat
  <2>1. IsFiniteSet(r) BY <1>4, FS_Subset
  <2>2. \A y \in r : f[y] \in Nat OBVIOUS
  <2> HIDE DEF r
  <2> QED BY <2>1, <2>2, SumNat
<1> HIDE DEF c, r, Out
<1> QED BY <1>2, <1>5, <1>10, <1>11, <1>12

\* The sum of a function to the naturals is a natural.
LEMMA TotalNat ==
  ASSUME NEW S, IsFiniteSet(S), NEW f \in [S -> Nat]
  PROVE  SumFunction(f) \in Nat
<1>1. DOMAIN f = S /\ \A x \in S : f[x] \in Nat OBVIOUS
<1>2. SumFunctionOnSet(f, S) \in Nat BY <1>1, SumNat
<1> QED BY <1>1, <1>2 DEF SumFunction

\* The sum of the empty function.
LEMMA TotalEmpty ==
  ASSUME NEW f, DOMAIN f = {}
  PROVE  SumFunction(f) = 0
BY SumEmpty DEF SumFunction

\* A function that has one argument more sums to one value more.
LEMMA TotalWith ==
  ASSUME NEW S, IsFiniteSet(S), NEW f \in [S -> Nat], NEW x \in S, NEW g \in [S \ {x} -> Nat],
         \A y \in S \ {x} : g[y] = f[y]
  PROVE  SumFunction(f) = f[x] + SumFunction(g)
<1>1. DOMAIN f = S /\ DOMAIN g = S \ {x} /\ \A y \in S : f[y] \in Nat OBVIOUS
<1>2. SumFunctionOnSet(f, S) = f[x] + SumFunctionOnSet(f, S \ {x}) BY <1>1, SumOut
<1>3. SumFunctionOnSet(g, S \ {x}) = SumFunctionOnSet(f, S \ {x})
  <2> DEFINE T == S \ {x}
  <2>1. IsFiniteSet(T) BY FS_Subset
  <2>2. \A y \in T : g[y] = f[y] OBVIOUS
  <2> HIDE DEF T
  <2>3. SumFunctionOnSet(g, T) = SumFunctionOnSet(f, T) BY <2>1, <2>2, SumSame
  <2> QED BY <2>3 DEF T
<1> QED BY <1>1, <1>2, <1>3 DEF SumFunction

\* Changing one value changes the sum by the difference, and no value exceeds the sum.
LEMMA TotalChanged ==
  ASSUME NEW S, IsFiniteSet(S), NEW f \in [S -> Nat], NEW g \in [S -> Nat], NEW x \in S,
         \A y \in S \ {x} : g[y] = f[y]
  PROVE  /\ SumFunction(g) = SumFunction(f) - f[x] + g[x]
         /\ f[x] <= SumFunction(f)
<1> DEFINE h == [y \in S \ {x} |-> f[y]]
<1>1. h \in [S \ {x} -> Nat] /\ \A y \in S \ {x} : h[y] = f[y] /\ h[y] = g[y] OBVIOUS
<1>2. SumFunction(h) \in Nat
  <2> HIDE DEF h
  <2> DEFINE T == S \ {x}
  <2>1. IsFiniteSet(T) BY FS_Subset
  <2>2. h \in [T -> Nat] BY <1>1
  <2> HIDE DEF T
  <2> QED BY <2>1, <2>2, TotalNat
<1> HIDE DEF h
<1>3. SumFunction(f) = f[x] + SumFunction(h) BY <1>1, TotalWith
<1>4. SumFunction(g) = g[x] + SumFunction(h) BY <1>1, TotalWith
<1>5. f[x] \in Nat /\ g[x] \in Nat OBVIOUS
<1> QED BY <1>2, <1>3, <1>4, <1>5

\* More arguments and larger values give no smaller sum.
LEMMA TotalGrows ==
  ASSUME NEW S, NEW T, IsFiniteSet(T), S \subseteq T, NEW f \in [S -> Nat], NEW g \in [T -> Nat],
         \A x \in S : f[x] <= g[x]
  PROVE  SumFunction(f) <= SumFunction(g)
<1> DEFINE Below(s) == SumFunctionOnSet(f, s \cap S) <= SumFunctionOnSet(g, s)
           B == {s \in SUBSET T : ~Below(s)}
<1>1. ASSUME B # {} PROVE FALSE
  <2>1. PICK m \in B : \A y \in B : y \subseteq m => y = m
    <3>1. B \in SUBSET SUBSET T OBVIOUS
    <3> HIDE DEF B
    <3> QED BY <1>1, <3>1, Smallest
  <2>2. m # {}
    <3>1. {} \cap S = {} OBVIOUS
    <3> QED BY <3>1, SumEmpty
  <2>3. PICK x \in m : TRUE BY <2>2
  <2> DEFINE r == m \ {x}
             k == m \cap S
             l == r \cap S
  <2>4. IsFiniteSet(m) /\ IsFiniteSet(r) /\ IsFiniteSet(k) /\ IsFiniteSet(l) BY FS_Subset
  <2>5. Below(r)
    <3>1. r \in SUBSET T /\ r # m /\ r \subseteq m BY <2>3
    <3> HIDE DEF r, Below
    <3> QED BY <2>1, <3>1
  <2>6. x \in T /\ g[x] \in Nat BY <2>3
  <2>7. SumFunctionOnSet(g, m) = g[x] + SumFunctionOnSet(g, r)
    <3>1. \A y \in m : g[y] \in Nat OBVIOUS
    <3> QED BY <2>3, <2>4, <3>1, SumOut
  <2>8. SumFunctionOnSet(g, r) \in Nat
    <3>1. \A y \in r : g[y] \in Nat OBVIOUS
    <3> HIDE DEF r
    <3> QED BY <2>4, <3>1, SumNat
  <2>9. SumFunctionOnSet(f, l) \in Nat
    <3>1. \A y \in l : f[y] \in Nat OBVIOUS
    <3> HIDE DEF l
    <3> QED BY <2>4, <3>1, SumNat
  <2>10. SumFunctionOnSet(f, l) <= SumFunctionOnSet(g, r) BY <2>5
  <2>11. CASE x \in S
    <3>1. x \in k /\ k \ {x} = l BY <2>3, <2>11
    <3>2. \A y \in k : f[y] \in Nat OBVIOUS
    <3>3. SumFunctionOnSet(f, k) = f[x] + SumFunctionOnSet(f, l)
      <4> HIDE DEF k, l
      <4> QED BY <2>4, <3>1, <3>2, SumOut
    <3>4. f[x] \in Nat /\ f[x] <= g[x] BY <2>11
    <3>5. SumFunctionOnSet(f, k) <= SumFunctionOnSet(g, m)
      <4> HIDE DEF k, l, r
      <4> QED BY <2>6, <2>7, <2>8, <2>9, <2>10, <3>3, <3>4
    <3> QED BY <3>5
  <2>12. CASE x \notin S
    <3>1. k = l BY <2>12
    <3>2. SumFunctionOnSet(f, k) <= SumFunctionOnSet(g, m)
      <4> HIDE DEF k, l, r
      <4> QED BY <2>6, <2>7, <2>8, <2>9, <2>10, <3>1
    <3> QED BY <3>2
  <2> QED BY <2>11, <2>12
<1>2. Below(T) BY <1>1
<1>3. T \cap S = S /\ DOMAIN f = S /\ DOMAIN g = T OBVIOUS
<1> QED BY <1>2, <1>3 DEF SumFunction

-----------------------------------------------------------------------------
(* The inductive invariant.                                                *)

\* The types, and that a reservation belongs to a benefit period that exists.
Typed ==
  /\ TypeOK
  /\ Len(tenant.periods) \in 1..MaxPeriods
  /\ \A r \in Requests : res[r] # None => res[r].period \in Periods

\* A request has a reservation from its first step on; it makes no more leads than
\* rows it tries, and no more rows than it was granted units.  Until it is late or the
\* work is done nothing is given back, and no unit is counted for a lead that was not made.
Sound(r) ==
  /\ work[r].pc = "idle" <=> res[r] = None
  /\ work[r].pc = "idle" => work[r].tried = 0
  /\ work[r].returned => work[r].pc = "done"
  /\ Created(r) <= work[r].tried
  /\ res[r] # None =>
       /\ work[r].tried <= res[r].granted
       /\ res[r].consumed <= Created(r)
       /\ res[r].status = "reserved" => res[r].released = 0
       /\ work[r].pc \in {"making", "made", "releasing"} /\ ~res[r].late => res[r].released = 0
       /\ res[r].status # "reserved" /\ ~res[r].late => Outstanding(res[r]) = 0
       /\ work[r].pc = "made" /\ res[r].status = "reserved" => res[r].consumed < Created(r)

\* Nobody has used a benefit period before it begins.
Untouched(p) ==
  /\ tenant.periods[p].used = 0
  /\ \A r \in Requests : res[r] # None => res[r].period # p

FutureUntouched == \A p \in Periods : tenant.periods[p].slot > tenant.now => Untouched(p)

IInv ==
  /\ Typed
  /\ \A r \in Requests : Sound(r)
  /\ FutureUntouched
  /\ LedgerBalances
  /\ WithinAllowance

-----------------------------------------------------------------------------
(* The periods and the limit.                                              *)

PeriodRecord == [slot : 1..MaxSlots, total : Totals, topup : Nat, used : Nat]
TenantRecord == [model : Models, now : 1..MaxSlots, cut : Nat, periods : Seq(PeriodRecord)]
WorkRecord == [pc : {"idle", "making", "made", "releasing", "done"}, tried : Nat, returned : BOOLEAN]
LeadRecord == [by : Requests, state : {"open", "locked", "gone"}, late : BOOLEAN]

\* What TypeOK says of each variable, under the names above.
LEMMA Shapes ==
  ASSUME Typed
  PROVE  /\ tenant \in TenantRecord /\ Len(tenant.periods) \in 1..MaxPeriods
         /\ res \in [Requests -> Reservations \cup {None}]
         /\ work \in [Requests -> WorkRecord] /\ leads \in Seq(LeadRecord)
BY DEF Typed, TypeOK, TenantRecord, PeriodRecord, WorkRecord, LeadRecord

\* One of finitely many elements has a set that contains no other of their sets.
LEMMA Outermost ==
  ASSUME NEW S, IsFiniteSet(S), S # {}, NEW A \in [S -> SUBSET S]
  PROVE  \E n \in S : \A k \in S : A[k] \subseteq A[n] => A[k] = A[n]
<1> DEFINE B == {A[n] : n \in S}
<1>1. B \in SUBSET SUBSET S /\ B # {} OBVIOUS
<1>2. \E m \in B : \A y \in B : y \subseteq m => y = m
  <2> HIDE DEF B
  <2> QED BY <1>1, Smallest
<1> QED BY <1>2

\* A finite set of naturals that is not empty has a largest element, which is its maximum.
LEMMA Largest ==
  ASSUME NEW S, IsFiniteSet(S), S # {}
  PROVE  S \subseteq Nat => Max(S) \in S /\ \A k \in S : k <= Max(S)
<1> DEFINE A == [n \in S |-> {k \in S : k > n}]
<1>1. PICK n \in S : \A k \in S : A[k] \subseteq A[n] => A[k] = A[n]
  <2>1. A \in [S -> SUBSET S] OBVIOUS
  <2> HIDE DEF A
  <2> QED BY <2>1, Outermost
<1> HAVE S \subseteq Nat
<1>2. ASSUME NEW k \in S, k > n PROVE FALSE
  <2>1. k \in Nat /\ n \in Nat OBVIOUS
  <2>2. k \in A[n] /\ k \notin A[k] BY <1>2, <2>1
  <2>3. ASSUME NEW j \in A[k] PROVE j \in A[n]
    <3>1. j \in S /\ j > k /\ j \in Nat BY <2>3
    <3>2. j > n BY <1>2, <2>1, <3>1
    <3> QED BY <3>1, <3>2
  <2> HIDE DEF A
  <2>4. A[k] \subseteq A[n] BY <2>3
  <2> QED BY <1>1, <1>2, <2>2, <2>4
<1>3. \A k \in S : n >= k BY <1>2
<1>4. \E x \in S : \A k \in S : x >= k BY <1>3
<1>5. Max(S) \in S /\ \A k \in S : Max(S) >= k
  <2> HIDE DEF A
  <2> QED BY <1>4 DEF Max
<1> QED BY <1>5

\* The period under way is one of those that hold now, if there is any.
LEMMA CurrentHolds ==
  ASSUME NEW t \in TenantRecord
  PROVE  /\ Active(t) = {} => Current(t) = 0
         /\ Active(t) # {} => Current(t) \in Active(t)
         /\ Current(t) # 0 => Current(t) \in DOMAIN t.periods /\ t.periods[Current(t)].slot = t.now
         /\ Current(t) \in Nat
<1>1. t.periods \in Seq(PeriodRecord) BY DEF TenantRecord
<1>2. DOMAIN t.periods = 1..Len(t.periods) /\ Len(t.periods) \in Nat BY <1>1, LenProperties
<1>3. Active(t) \subseteq 1..Len(t.periods) BY <1>2 DEF Active
<1>4. IsFiniteSet(Active(t))
  <2>1. IsFiniteSet(1..Len(t.periods)) BY <1>2, FS_Interval
  <2> QED BY <1>3, <2>1, FS_Subset
<1>5. Active(t) \in SUBSET Nat BY <1>2, <1>3
<1>6. Active(t) # {} => Max(Active(t)) \in Active(t) BY <1>4, <1>5, Largest
<1>7. Active(t) # {} => Current(t) \in Active(t) BY <1>6 DEF Current
<1>8. Active(t) = {} => Current(t) = 0 BY DEF Current
<1> QED BY <1>2, <1>5, <1>7, <1>8 DEF Active

\* A period is what the sequence says.
LEMMA PeriodTyped ==
  ASSUME NEW t \in TenantRecord, NEW i \in DOMAIN t.periods
  PROVE  /\ t.periods[i] \in PeriodRecord
         /\ t.periods[i].total \in Nat /\ t.periods[i].topup \in Nat /\ t.periods[i].used \in Nat
         /\ t.periods[i].slot \in Nat
<1>1. t.periods \in Seq(PeriodRecord) BY DEF TenantRecord
<1>2. t.periods[i] \in PeriodRecord BY <1>1, ElementOfSeq, LenProperties
<1>3. Totals \subseteq Nat /\ 1..MaxSlots \subseteq Nat BY TotalsAssumption, BoundsAssumption
<1> QED BY <1>2, <1>3 DEF PeriodRecord

\* Limits are numbers, whatever the add-on.
LEMMA LimitTyped ==
  ASSUME NEW t \in TenantRecord, Len(t.periods) >= 1, NEW a
  PROVE  Limit(t, a) \in Nat /\ Ceiling(t, a) \in Nat /\ Recurring(t, a) \in Nat
<1>1. Recurring(t, a) \in Nat BY TotalsAssumption DEF Recurring
<1>2. Limit(t, a) \in Nat
  <2>1. CASE Current(t) = 0 BY <2>1 DEF Limit
  <2>2. CASE Current(t) # 0
    <3>1. Current(t) \in DOMAIN t.periods BY <2>2, CurrentHolds
    <3> QED BY <1>1, <2>2, <3>1, PeriodTyped DEF Limit
  <2> QED BY <2>1, <2>2
<1>3. ReadLimit(t, a) \in Nat
  <2> DEFINE i == IF Current(t) = 0 THEN Len(t.periods) ELSE Current(t)
  <2>1. i \in DOMAIN t.periods
    <3>1. DOMAIN t.periods = 1..Len(t.periods) /\ Len(t.periods) \in Nat
      BY LenProperties DEF TenantRecord
    <3> QED BY <3>1, CurrentHolds
  <2>2. t.periods[i].total \in Nat
    <3> HIDE DEF i
    <3> QED BY <2>1, PeriodTyped
  <2> QED BY <1>1, <1>2, <2>2 DEF ReadLimit
<1> QED BY <1>1, <1>2, <1>3 DEF Ceiling

\* Limits depend on the model, the time, the add-on and the units of each period, and
\* not on what is used or cut.
LEMMA SameLimit ==
  ASSUME NEW t, NEW u, NEW a, u.model = t.model, u.now = t.now,
         Len(u.periods) = Len(t.periods), DOMAIN u.periods = DOMAIN t.periods,
         Len(t.periods) \in DOMAIN t.periods, t \in TenantRecord,
         \A i \in DOMAIN t.periods : /\ u.periods[i].slot = t.periods[i].slot
                                     /\ u.periods[i].total = t.periods[i].total
                                     /\ u.periods[i].topup = t.periods[i].topup
  PROVE  Current(u) = Current(t) /\ Limit(u, a) = Limit(t, a) /\ Ceiling(u, a) = Ceiling(t, a)
<1>1. Active(u) = Active(t) BY DEF Active
<1>2. Current(u) = Current(t) BY <1>1 DEF Current
<1>3. Recurring(u, a) = Recurring(t, a) BY DEF Recurring
<1>4. Limit(u, a) = Limit(t, a)
  <2>1. CASE Current(t) = 0 BY <1>2, <2>1 DEF Limit
  <2>2. CASE Current(t) # 0
    <3>1. Current(t) \in DOMAIN t.periods BY <2>2, CurrentHolds
    <3> QED BY <1>2, <1>3, <2>2, <3>1 DEF Limit
  <2> QED BY <2>1, <2>2
<1>5. ReadLimit(u, a) = ReadLimit(t, a)
  <2> DEFINE i == IF Current(t) = 0 THEN Len(t.periods) ELSE Current(t)
  <2>1. i \in DOMAIN t.periods BY CurrentHolds
  <2>2. u.periods[i].total = t.periods[i].total BY <2>1
  <2> QED BY <1>2, <1>3, <1>4, <2>2 DEF ReadLimit
<1> QED BY <1>2, <1>4, <1>5 DEF Ceiling

\* What a period has used can change without its limit.
LEMMA UsedSet ==
  ASSUME NEW t \in TenantRecord, NEW p \in DOMAIN t.periods, NEW v \in Nat,
         NEW u, u = [t EXCEPT !.periods[p].used = v]
  PROVE  /\ u \in TenantRecord /\ u.model = t.model /\ u.now = t.now /\ u.cut = t.cut
         /\ Len(u.periods) = Len(t.periods) /\ DOMAIN u.periods = DOMAIN t.periods
         /\ u.periods[p].used = v
         /\ \A i \in DOMAIN t.periods :
              /\ u.periods[i].slot = t.periods[i].slot
              /\ u.periods[i].total = t.periods[i].total
              /\ u.periods[i].topup = t.periods[i].topup
              /\ i # p => u.periods[i].used = t.periods[i].used
<1> DEFINE q == [t.periods EXCEPT ![p].used = v]
<1>1. t.periods \in Seq(PeriodRecord) BY DEF TenantRecord
<1>2. t.periods[p] \in PeriodRecord BY PeriodTyped
<1>3. [t.periods[p] EXCEPT !.used = v] \in PeriodRecord BY <1>2 DEF PeriodRecord
<1>4. q = [t.periods EXCEPT ![p] = [t.periods[p] EXCEPT !.used = v]] BY Zenon
<1>5. q \in Seq(PeriodRecord) /\ Len(q) = Len(t.periods) /\ DOMAIN q = DOMAIN t.periods
  <2>1. p \in 1..Len(t.periods) BY <1>1, LenProperties
  <2> QED BY <1>1, <1>3, <1>4, <2>1, ExceptSeq, LenProperties
<1>6. \A i \in DOMAIN t.periods :
        q[i] = IF i = p THEN [t.periods[p] EXCEPT !.used = v] ELSE t.periods[i]
  BY <1>1, <1>4, LenProperties
<1>7. u = [t EXCEPT !.periods = q] BY Zenon
<1>8. u \in TenantRecord /\ u.model = t.model /\ u.now = t.now /\ u.cut = t.cut /\ u.periods = q
  <2> HIDE DEF q
  <2> QED BY <1>5, <1>7 DEF TenantRecord
<1>9. /\ q[p].used = v
      /\ \A i \in DOMAIN t.periods :
              /\ q[i].slot = t.periods[i].slot
              /\ q[i].total = t.periods[i].total
              /\ q[i].topup = t.periods[i].topup
              /\ i # p => q[i].used = t.periods[i].used
  <2> HIDE DEF q
  <2> QED BY <1>2, <1>3, <1>6 DEF PeriodRecord
<1> HIDE DEF q
<1> QED BY <1>5, <1>8, <1>9

\* The same, of the limit.
LEMMA UsedLimit ==
  ASSUME NEW t \in TenantRecord, NEW p \in DOMAIN t.periods, NEW v \in Nat, Len(t.periods) >= 1
  PROVE  \A u, a : u = [t EXCEPT !.periods[p].used = v] =>
           Current(u) = Current(t) /\ Limit(u, a) = Limit(t, a) /\ Ceiling(u, a) = Ceiling(t, a)
<1> SUFFICES ASSUME NEW u, NEW a, u = [t EXCEPT !.periods[p].used = v]
             PROVE  Current(u) = Current(t) /\ Limit(u, a) = Limit(t, a) /\ Ceiling(u, a) = Ceiling(t, a)
  OBVIOUS
<1>1. Len(t.periods) \in DOMAIN t.periods
  <2>1. DOMAIN t.periods = 1..Len(t.periods) /\ Len(t.periods) \in Nat
    BY LenProperties DEF TenantRecord
  <2> QED BY <2>1
<1>2. /\ u.model = t.model /\ u.now = t.now
      /\ Len(u.periods) = Len(t.periods) /\ DOMAIN u.periods = DOMAIN t.periods
      /\ \A i \in DOMAIN t.periods : /\ u.periods[i].slot = t.periods[i].slot
                                     /\ u.periods[i].total = t.periods[i].total
                                     /\ u.periods[i].topup = t.periods[i].topup
  BY UsedSet
<1> QED BY <1>1, <1>2, SameLimit

\* The ghost cut is of no consequence to the limit.
LEMMA CutSet ==
  ASSUME NEW t \in TenantRecord, NEW v \in Nat, NEW u, u = [t EXCEPT !.cut = v], NEW a,
         Len(t.periods) >= 1
  PROVE  /\ u \in TenantRecord /\ u.model = t.model /\ u.now = t.now /\ u.cut = v
         /\ u.periods = t.periods
         /\ Current(u) = Current(t) /\ Limit(u, a) = Limit(t, a) /\ Ceiling(u, a) = Ceiling(t, a)
<1>1. Len(t.periods) \in DOMAIN t.periods
  <2>1. DOMAIN t.periods = 1..Len(t.periods) /\ Len(t.periods) \in Nat
    BY LenProperties DEF TenantRecord
  <2> QED BY <2>1
<1>2. /\ u \in TenantRecord /\ u.model = t.model /\ u.now = t.now /\ u.cut = v
      /\ u.periods = t.periods
  BY DEF TenantRecord
<1> QED BY <1>1, <1>2, SameLimit

-----------------------------------------------------------------------------
(* Leads.                                                                  *)

\* Leads are never lost from the list: some are locked, opened or gone.
Kept ==
  /\ leads' \in Seq(LeadRecord) /\ DOMAIN leads' = DOMAIN leads /\ Len(leads') = Len(leads)
  /\ \A n \in DOMAIN leads :
       leads'[n].by = leads[n].by /\ leads'[n].late = leads[n].late
         /\ (leads'[n].state = "gone" <=> leads[n].state = "gone")

OnTime(r) == {n \in Linked(r) : ~leads[n].late}

\* There are finitely many leads.
LEMMA LeadsFinite ==
  ASSUME leads \in Seq(LeadRecord)
  PROVE  /\ IsFiniteSet(DOMAIN leads) /\ IsFiniteSet(Existing)
         /\ DOMAIN leads = 1..Len(leads) /\ Len(leads) \in Nat
         /\ Cardinality(Existing) \in Nat
         /\ \A r : /\ Created(r) \in Nat /\ IsFiniteSet(Linked(r)) /\ IsFiniteSet(OnTime(r))
                   /\ IsFiniteSet({n \in DOMAIN leads : leads[n].by = r})
                   /\ Cardinality(Linked(r)) \in Nat /\ Cardinality(OnTime(r)) \in Nat
                   /\ Cardinality(OnTime(r)) <= Cardinality(Linked(r))
                   /\ Cardinality(Linked(r)) <= Created(r)
<1>1. DOMAIN leads = 1..Len(leads) /\ Len(leads) \in Nat BY LenProperties
<1>2. IsFiniteSet(DOMAIN leads) BY <1>1, FS_Interval
<1>3. IsFiniteSet(Existing) /\ Cardinality(Existing) \in Nat
  <2>1. Existing \subseteq DOMAIN leads BY DEF Existing
  <2> QED BY <1>2, <2>1, FS_Subset, FS_CardinalityType
<1>4. ASSUME NEW r
      PROVE  /\ Created(r) \in Nat /\ IsFiniteSet(Linked(r)) /\ IsFiniteSet(OnTime(r))
             /\ IsFiniteSet({n \in DOMAIN leads : leads[n].by = r})
             /\ Cardinality(Linked(r)) \in Nat /\ Cardinality(OnTime(r)) \in Nat
             /\ Cardinality(OnTime(r)) <= Cardinality(Linked(r))
             /\ Cardinality(Linked(r)) <= Created(r)
  <2> DEFINE C == {n \in DOMAIN leads : leads[n].by = r}
  <2>1. C \subseteq DOMAIN leads /\ Linked(r) \subseteq C /\ OnTime(r) \subseteq Linked(r)
    BY DEF Linked, OnTime, Existing
  <2>2. Created(r) = Cardinality(C) BY DEF Created
  <2> HIDE DEF C
  <2>3. IsFiniteSet(C) /\ Cardinality(C) \in Nat BY <1>2, <2>1, FS_Subset, FS_CardinalityType
  <2>4. IsFiniteSet(Linked(r)) /\ Cardinality(Linked(r)) \in Nat
        /\ Cardinality(Linked(r)) <= Cardinality(C)
    BY <2>1, <2>3, FS_Subset, FS_CardinalityType
  <2>5. IsFiniteSet(OnTime(r)) /\ Cardinality(OnTime(r)) \in Nat
        /\ Cardinality(OnTime(r)) <= Cardinality(Linked(r))
    BY <2>1, <2>4, FS_Subset, FS_CardinalityType
  <2> QED BY <2>2, <2>3, <2>4, <2>5 DEF C
<1> QED BY <1>1, <1>2, <1>3, <1>4

\* Then the sets of leads that are counted stay the same.
LEMMA KeptCounts ==
  ASSUME Kept
  PROVE  /\ Existing' = Existing
         /\ \A r : Created(r)' = Created(r) /\ Linked(r)' = Linked(r) /\ OnTime(r)' = OnTime(r)
<1>1. Existing' = Existing BY DEF Kept, Existing
<1>2. ASSUME NEW r PROVE Created(r)' = Created(r) /\ Linked(r)' = Linked(r) /\ OnTime(r)' = OnTime(r)
  <2>1. {n \in DOMAIN leads' : leads'[n].by = r} = {n \in DOMAIN leads : leads[n].by = r} BY DEF Kept
  <2>2. Linked(r)' = Linked(r) BY <1>1 DEF Kept, Linked, Existing
  <2>3. OnTime(r)' = OnTime(r) BY <2>2 DEF Kept, OnTime, Linked, Existing
  <2> QED BY <2>1, <2>2, <2>3 DEF Created
<1> QED BY <1>1, <1>2

\* Whatever opens and locks leads that exist keeps them.
LEMMA Marked ==
  ASSUME leads \in Seq(LeadRecord), NEW S, S \subseteq Existing,
         NEW state \in [DOMAIN leads -> {"open", "locked"}],
         leads' = [n \in DOMAIN leads |-> IF n \in S THEN [leads[n] EXCEPT !.state = state[n]] ELSE leads[n]]
  PROVE  Kept
<1>1. DOMAIN leads = 1..Len(leads) /\ Len(leads) \in Nat BY LenProperties
<1>2. ASSUME NEW n \in DOMAIN leads
      PROVE  /\ leads'[n] \in LeadRecord
             /\ leads'[n].by = leads[n].by /\ leads'[n].late = leads[n].late
             /\ (leads'[n].state = "gone" <=> leads[n].state = "gone")
  <2>1. leads[n] \in LeadRecord BY ElementOfSeq, LenProperties
  <2>2. state[n] \in {"open", "locked"} OBVIOUS
  <2>3. CASE n \in S
    <3>1. leads[n].state # "gone" BY <2>3 DEF Existing
    <3>2. leads'[n] = [leads[n] EXCEPT !.state = state[n]] BY <2>3
    <3> QED BY <2>1, <2>2, <3>1, <3>2 DEF LeadRecord
  <2>4. CASE n \notin S
    <3>1. leads'[n] = leads[n] BY <2>4
    <3> QED BY <2>1, <3>1
  <2> QED BY <2>3, <2>4
<1>3. leads' \in [1..Len(leads) -> LeadRecord]
  <2>1. leads' = [n \in DOMAIN leads |-> leads'[n]] OBVIOUS
  <2> QED BY <1>1, <1>2, <2>1
<1>4. leads' \in Seq(LeadRecord) /\ Len(leads') = Len(leads) BY <1>1, <1>3, SeqDef, LenProperties
<1> QED BY <1>1, <1>2, <1>3, <1>4 DEF Kept

\* Reconciling keeps them.
LEMMA ReconciledKept ==
  ASSUME leads \in Seq(LeadRecord), NEW limit, leads' = leads \/ leads' = Reconciled(limit)
  PROVE  Kept
<1>1. CASE leads' = leads
  <2>1. Len(leads') = Len(leads) /\ DOMAIN leads' = DOMAIN leads BY <1>1
  <2> QED BY <1>1, <2>1 DEF Kept
<1>2. CASE leads' = [n \in DOMAIN leads |->
              IF n \notin Existing THEN leads[n]
              ELSE [leads[n] EXCEPT !.state = IF n \in Newest(limit) THEN "open" ELSE "locked"]]
  <2> DEFINE state == [n \in DOMAIN leads |-> IF n \in Newest(limit) THEN "open" ELSE "locked"]
  <2>1. state \in [DOMAIN leads -> {"open", "locked"}] OBVIOUS
  <2>2. leads' = [n \in DOMAIN leads |-> IF n \in Existing THEN [leads[n] EXCEPT !.state = state[n]] ELSE leads[n]]
    BY <1>2
  <2> HIDE DEF state
  <2>3. Existing \subseteq Existing OBVIOUS
  <2> QED BY <2>1, <2>2, <2>3, Marked
<1> QED BY <1>1, <1>2 DEF Reconciled

\* A new lead is one more of its request's, and of no other's.
LEMMA LeadAdded ==
  ASSUME leads \in Seq(LeadRecord), NEW r \in Requests, NEW late \in BOOLEAN,
         leads' = Append(leads, [by |-> r, state |-> "open", late |-> late])
  PROVE  /\ leads' \in Seq(LeadRecord) /\ Len(leads') = Len(leads) + 1
         /\ Cardinality(Existing') = Cardinality(Existing) + 1
         /\ Created(r)' = Created(r) + 1
         /\ IF late THEN OnTime(r)' = OnTime(r) ELSE Cardinality(OnTime(r)') = Cardinality(OnTime(r)) + 1
         /\ \A q \in Requests \ {r} : Created(q)' = Created(q) /\ OnTime(q)' = OnTime(q)
<1> DEFINE l == [by |-> r, state |-> "open", late |-> late]
           n == Len(leads) + 1
<1>1. l \in LeadRecord BY DEF LeadRecord
<1>2. /\ leads' \in Seq(LeadRecord) /\ Len(leads') = n
      /\ \A i \in 1..Len(leads) : leads'[i] = leads[i]
      /\ leads'[n] = l
  <2> HIDE DEF l
  <2> QED BY <1>1, AppendProperties DEF l
<1>3. DOMAIN leads = 1..Len(leads) /\ Len(leads) \in Nat /\ DOMAIN leads' = 1..n
  BY <1>2, LenProperties
<1>4. n \notin DOMAIN leads /\ DOMAIN leads' = DOMAIN leads \cup {n} BY <1>3
<1>5. \A i \in DOMAIN leads : leads'[i] = leads[i] BY <1>2, <1>3
<1>6. leads'[n].by = r /\ leads'[n].state = "open" /\ leads'[n].late = late BY <1>2
<1> HIDE DEF l, n
<1>7. Existing' = Existing \cup {n} /\ n \notin Existing BY <1>4, <1>5, <1>6 DEF Existing
<1>8. Cardinality(Existing') = Cardinality(Existing) + 1 BY <1>7, LeadsFinite, FS_AddElement
<1>9. Created(r)' = Created(r) + 1
  <2> DEFINE C == {i \in DOMAIN leads : leads[i].by = r}
             D == {i \in DOMAIN leads' : leads'[i].by = r}
  <2>1. D = C \cup {n} /\ n \notin C BY <1>4, <1>5, <1>6
  <2>2. IsFiniteSet(C) BY LeadsFinite
  <2>3. Created(r) = Cardinality(C) /\ Created(r)' = Cardinality(D) BY DEF Created
  <2> HIDE DEF C, D
  <2> QED BY <2>1, <2>2, <2>3, FS_AddElement
<1>10. IF late THEN OnTime(r)' = OnTime(r) ELSE Cardinality(OnTime(r)') = Cardinality(OnTime(r)) + 1
  <2>1. CASE late
    <3>1. OnTime(r)' = OnTime(r) BY <1>4, <1>5, <1>6, <1>7, <2>1 DEF OnTime, Linked, Existing
    <3> QED BY <2>1, <3>1
  <2>2. CASE ~late
    <3>1. OnTime(r)' = OnTime(r) \cup {n} /\ n \notin OnTime(r)
      BY <1>4, <1>5, <1>6, <1>7, <2>2 DEF OnTime, Linked, Existing
    <3>2. Cardinality(OnTime(r)') = Cardinality(OnTime(r)) + 1 BY <3>1, LeadsFinite, FS_AddElement
    <3> QED BY <2>2, <3>2
  <2> QED BY <2>1, <2>2
<1>11. ASSUME NEW q \in Requests \ {r} PROVE Created(q)' = Created(q) /\ OnTime(q)' = OnTime(q)
  <2>1. {i \in DOMAIN leads' : leads'[i].by = q} = {i \in DOMAIN leads : leads[i].by = q}
    BY <1>4, <1>5, <1>6
  <2>2. OnTime(q)' = OnTime(q) BY <1>4, <1>5, <1>6, <1>7 DEF OnTime, Linked, Existing
  <2> QED BY <2>1, <2>2 DEF Created
<1> QED BY <1>2, <1>8, <1>9, <1>10, <1>11 DEF n

\* The leads that reconciling leaves open are fewer than the limit only when there are no
\* others: its count of what is used misses no lead.
LEMMA OpenIsAll ==
  ASSUME leads \in Seq(LeadRecord), NEW limit \in Nat, OpenIn(Reconciled(limit)) < limit
  PROVE  Cardinality(Existing) = OpenIn(Reconciled(limit))
<1>1. IsFiniteSet(Existing) /\ Cardinality(Existing) \in Nat BY LeadsFinite
<1>2. CASE Reconciled(limit) = leads /\ Cardinality(Existing \ Accessible) =
             IF limit < Cardinality(Existing) THEN Cardinality(Existing) - limit ELSE 0
  <2>1. Accessible \subseteq Existing /\ OpenIn(leads) = Cardinality(Accessible)
    BY DEF Accessible, Existing, OpenIn
  <2>2. IsFiniteSet(Accessible) /\ Cardinality(Accessible) \in Nat
    BY <1>1, <2>1, FS_Subset, FS_CardinalityType
  <2>3. Existing \cap Accessible = Accessible BY <2>1
  <2>4. Cardinality(Existing \ Accessible) = Cardinality(Existing) - Cardinality(Accessible)
    BY <1>1, <2>3, FS_Difference
  <2> QED BY <1>1, <1>2, <2>1, <2>2, <2>4
<1>3. CASE Reconciled(limit) = [n \in DOMAIN leads |->
              IF n \notin Existing THEN leads[n]
              ELSE [leads[n] EXCEPT !.state = IF n \in Newest(limit) THEN "open" ELSE "locked"]]
  <2> DEFINE N == Newest(limit)
             R == Reconciled(limit)
             X == Existing \ N
  <2>1. N \subseteq Existing BY DEF Newest
  <2>2. \A n \in DOMAIN leads : leads[n] \in LeadRecord BY ElementOfSeq, LenProperties
  <2>3. {n \in DOMAIN R : R[n].state = "open"} = N
    <3>1. DOMAIN R = DOMAIN leads BY <1>3
    <3>2. ASSUME NEW n \in DOMAIN leads PROVE R[n].state = "open" <=> n \in N
      <4>1. CASE n \in Existing
        <5>1. R[n] = [leads[n] EXCEPT !.state = IF n \in N THEN "open" ELSE "locked"] BY <1>3, <4>1
        <5> QED BY <2>2, <5>1 DEF LeadRecord
      <4>2. CASE n \notin Existing
        <5>1. R[n] = leads[n] BY <1>3, <4>2
        <5>2. leads[n].state = "gone" BY <4>2 DEF Existing
        <5> QED BY <2>1, <4>2, <5>1, <5>2
      <4> QED BY <4>1, <4>2
    <3>3. N \subseteq DOMAIN leads BY <2>1 DEF Existing
    <3> QED BY <3>1, <3>2, <3>3
  <2>4. OpenIn(R) = Cardinality(N) BY <2>3 DEF OpenIn
  <2>5. IsFiniteSet(N) /\ Cardinality(N) \in Nat BY <1>1, <2>1, FS_Subset, FS_CardinalityType
  <2>6. ASSUME X # {} PROVE FALSE
    <3> DEFINE m == Max(X)
               A == {k \in Existing : k > m}
    <3>1. IsFiniteSet(X) BY <1>1, FS_Subset
    <3>2. X \subseteq Nat BY LeadsFinite DEF Existing
    <3>3. m \in X /\ \A k \in X : k <= m
      <4> HIDE DEF X
      <4> QED BY <2>6, <3>1, <3>2, Largest
    <3>4. A \subseteq N
      <4> SUFFICES ASSUME NEW k \in Existing, k > m, k \notin N PROVE FALSE
        OBVIOUS
      <4>1. k \in X OBVIOUS
      <4>2. k \in Nat /\ m \in Nat BY <3>2, <3>3, <4>1
      <4> HIDE DEF m, X
      <4> QED BY <3>3, <4>1, <4>2
    <3>5. ~(Cardinality(A) < limit) BY <3>3 DEF Newest
    <3> HIDE DEF A
    <3>6. Cardinality(A) \in Nat /\ Cardinality(A) <= Cardinality(N)
      BY <2>5, <3>4, FS_Subset, FS_CardinalityType
    <3> QED BY <2>4, <2>5, <3>5, <3>6
  <2>7. N = Existing BY <2>1, <2>6
  <2> QED BY <2>4, <2>7
<1> QED BY <1>2, <1>3 DEF Reconciled

-----------------------------------------------------------------------------
(* What is reserved.                                                       *)

Holders(p) == {q \in Requests : res[q] # None /\ res[q].period = p}

\* The units of each reservation of a period that have not been given back, ...
Unreturned(p) == [r \in Holders(p) |-> res[r].granted - res[r].released]

\* ... those for which a lead may still be made, and those not consumed.
ToMake(p) == [r \in Held(p) |-> Unused(r)]
ToConsume(p) == [r \in Held(p) |-> Outstanding(res[r])]

Balanced == tenant.model = "credits" =>
  \A p \in Periods : tenant.periods[p].used = SumFunction(Unreturned(p))

\* The two properties in these words.
LEMMA Reworded ==
  /\ LedgerBalances <=> LeadsArePaidFor /\ Balanced
  /\ WithinAllowance <=>
       IF tenant.model = "credits"
         THEN Current(tenant) # 0 =>
                tenant.periods[Current(tenant)].used <= Limit(tenant, addon) + tenant.cut
         ELSE Cardinality(Existing) + SumFunction(ToMake(Current(tenant)))
                <= Ceiling(tenant, addon) + tenant.cut
  /\ LeadsArePaidFor <=>
       \A r \in Requests : res[r] # None /\ ~work[r].returned =>
         Cardinality(OnTime(r)) <= res[r].granted - res[r].released
  /\ \A p : HeldUnits(p) = SumFunction(ToConsume(p))
<1>1. Balanced <=> (tenant.model = "credits" =>
       \A p \in Periods : tenant.periods[p].used =
         SumFunction([r \in {q \in Requests : res[q] # None /\ res[q].period = p} |->
                        res[r].granted - res[r].released]))
  BY DEF Balanced, Unreturned, Holders
<1>2. WithinAllowance <=>
       IF tenant.model = "credits"
         THEN Current(tenant) # 0 =>
                tenant.periods[Current(tenant)].used <= Limit(tenant, addon) + tenant.cut
         ELSE Cardinality(Existing) + SumFunction(ToMake(Current(tenant)))
                <= Ceiling(tenant, addon) + tenant.cut
  BY DEF WithinAllowance, ToMake
<1>3. LeadsArePaidFor <=>
       \A r \in Requests : res[r] # None /\ ~work[r].returned =>
         Cardinality(OnTime(r)) <= res[r].granted - res[r].released
  BY DEF LeadsArePaidFor, OnTime
<1>4. \A p : HeldUnits(p) = SumFunction(ToConsume(p)) BY DEF HeldUnits, ToConsume
<1> QED BY <1>1, <1>2, <1>3, <1>4 DEF LedgerBalances

\* A reservation's counts are naturals that add up to no more than what was granted.
LEMMA ReservationTyped ==
  ASSUME Typed, NEW r \in Requests, res[r] # None
  PROVE  /\ res[r] \in Reservations
         /\ res[r].granted \in Nat /\ res[r].consumed \in Nat /\ res[r].released \in Nat
         /\ res[r].consumed + res[r].released <= res[r].granted
         /\ res[r].granted - res[r].released \in Nat /\ Outstanding(res[r]) \in Nat
         /\ res[r].period \in Periods
<1>1. res[r] \in Reservations BY Shapes
<1>2. res[r].granted \in Nat /\ res[r].consumed \in Nat /\ res[r].released \in Nat
  BY <1>1 DEF Reservations
<1>3. res[r].consumed + res[r].released <= res[r].granted /\ res[r].period \in Periods
  BY DEF Typed, TypeOK
<1>4. res[r].granted - res[r].released \in Nat BY <1>2, <1>3
<1>5. Outstanding(res[r]) \in Nat BY <1>2, <1>3 DEF Outstanding
<1> QED BY <1>1, <1>2, <1>3, <1>4, <1>5

\* The sums are over finitely many naturals.
LEMMA SumsTyped ==
  ASSUME Typed, NEW p
  PROVE  /\ IsFiniteSet(Holders(p)) /\ IsFiniteSet(Held(p))
         /\ Unreturned(p) \in [Holders(p) -> Nat]
         /\ ToMake(p) \in [Held(p) -> Nat] /\ ToConsume(p) \in [Held(p) -> Nat]
         /\ SumFunction(Unreturned(p)) \in Nat
         /\ SumFunction(ToMake(p)) \in Nat /\ SumFunction(ToConsume(p)) \in Nat
<1>1. Holders(p) \subseteq Requests /\ Held(p) \subseteq Holders(p)
  BY DEF Holders, Held, Reserved, Covered
<1>2. IsFiniteSet(Holders(p)) /\ IsFiniteSet(Held(p)) BY <1>1, WantsAssumption, FS_Subset
<1>3. Unreturned(p) \in [Holders(p) -> Nat]
  <2>1. \A r \in Holders(p) : res[r].granted - res[r].released \in Nat
    BY ReservationTyped DEF Holders
  <2> QED BY <2>1 DEF Unreturned
<1>4. \A r \in Held(p) : r \in Requests /\ res[r] # None BY <1>1 DEF Holders
<1>5. ToConsume(p) \in [Held(p) -> Nat]
  <2>1. \A r \in Held(p) : Outstanding(res[r]) \in Nat BY <1>4, ReservationTyped
  <2> QED BY <2>1 DEF ToConsume
<1>6. ToMake(p) \in [Held(p) -> Nat]
  <2>1. ASSUME NEW r \in Held(p) PROVE Unused(r) \in Nat
    <3>1. Created(r) \in Nat BY Shapes, LeadsFinite
    <3>2. res[r].granted \in Nat /\ res[r].released \in Nat BY <1>4, ReservationTyped
    <3> QED BY <3>1, <3>2 DEF Unused
  <2> QED BY <2>1 DEF ToMake
<1> QED BY <1>2, <1>3, <1>5, <1>6, TotalNat

-----------------------------------------------------------------------------
(* The initial states.                                                     *)

\* Nothing is reserved, and nothing used.
LEMMA InitIInv == Init => IInv
<1> SUFFICES ASSUME Init PROVE IInv
  OBVIOUS
<1>1. PICK model \in Models, total \in Totals :
        tenant = [model |-> model, now |-> 1, periods |-> <<Period(1, total)>>, cut |-> 0]
  BY DEF Init
<1>2. 1 \in 1..MaxSlots /\ 1 \in 1..MaxPeriods BY BoundsAssumption
<1>3. Period(1, total) \in PeriodRecord BY <1>2 DEF Period, PeriodRecord
<1>4. /\ tenant.periods \in Seq(PeriodRecord) /\ Len(tenant.periods) = 1 /\ Periods = {1}
      /\ tenant.periods[1] = Period(1, total)
  BY <1>1, <1>3 DEF Periods
<1>5. tenant \in TenantRecord BY <1>1, <1>2, <1>4 DEF TenantRecord
<1>6. \A r \in Requests : res[r] = None /\ work[r] = [pc |-> "idle", tried |-> 0, returned |-> FALSE]
  BY DEF Init
<1>7. res \in [Requests -> Reservations \cup {None}] BY DEF Init
<1>8. work \in [Requests -> WorkRecord] BY DEF Init, WorkRecord
<1>9. leads \in Seq(LeadRecord) /\ Len(leads) = 0 /\ DOMAIN leads = {} BY DEF Init
<1>10. Typed
  <2>1. Len(leads) <= MaxLeads /\ faults \in 0..MaxFaults BY <1>9, BoundsAssumption DEF Init
  <2> QED BY <1>2, <1>4, <1>5, <1>6, <1>7, <1>8, <1>9, <2>1
        DEF Typed, TypeOK, TenantRecord, PeriodRecord, WorkRecord, LeadRecord
<1>11. ASSUME NEW r \in Requests PROVE Created(r) = 0
  <2>1. {n \in DOMAIN leads : leads[n].by = r} = {} BY <1>9
  <2> QED BY <2>1, FS_EmptySet DEF Created
<1>12. \A r \in Requests : Sound(r) BY <1>6, <1>11 DEF Sound
<1>13. FutureUntouched
  BY <1>1, <1>4 DEF FutureUntouched, Period
<1>14. LeadsArePaidFor BY <1>6 DEF LeadsArePaidFor
<1>15. \A p : Holders(p) = {} /\ Held(p) = {} BY <1>6 DEF Holders, Held, Reserved
<1>16. \A p : SumFunction(Unreturned(p)) = 0 /\ SumFunction(ToMake(p)) = 0
  <2>1. \A p : DOMAIN Unreturned(p) = {} /\ DOMAIN ToMake(p) = {} BY <1>15 DEF Unreturned, ToMake
  <2> QED BY <2>1, TotalEmpty
<1>17. tenant.periods[1].used = 0 /\ tenant.cut = 0 BY <1>1, <1>4 DEF Period
<1>18. Balanced BY <1>4, <1>16, <1>17 DEF Balanced
<1>19. WithinAllowance
  <2>1. Limit(tenant, addon) \in Nat /\ Ceiling(tenant, addon) \in Nat BY <1>4, <1>5, LimitTyped
  <2>2. Cardinality(Existing) = 0
    <3>1. Existing = {} BY <1>9 DEF Existing
    <3> QED BY <3>1, FS_EmptySet
  <2>3. Current(tenant) # 0 => Current(tenant) = 1 BY <1>4, <1>5, CurrentHolds DEF Periods
  <2> QED BY <1>16, <1>17, <2>1, <2>2, <2>3, Reworded
<1> QED BY <1>10, <1>12, <1>13, <1>14, <1>18, <1>19, Reworded DEF IInv

-----------------------------------------------------------------------------
(* Units that are consumed or given back.                                  *)

\* A reservation counts more units consumed or given back, or becomes late; what it gives
\* back goes to the period it was taken from.
Settles(r, v) ==
  /\ res[r] # None
  /\ res' = [res EXCEPT ![r] = v]
  /\ v \in Reservations /\ v.granted = res[r].granted /\ v.period = res[r].period
  /\ v.released >= res[r].released /\ v.consumed + v.released <= v.granted
  /\ v.status = "reserved" => res[r].status = "reserved"
  /\ res[r].late => v.late
  /\ v.status = "finalized" => v.consumed > 0
  /\ v.status = "released" => v.consumed = 0
  /\ \/ tenant' = tenant /\ v.released = res[r].released
     \/ tenant' = Returned(tenant, r, v.released - res[r].released)
  /\ UNCHANGED <<leads, addon>>

\* The period has used at least what the reservation has not given back.
LEMMA SettlesTenant ==
  ASSUME IInv, NEW r \in Requests, NEW v, Settles(r, v)
  PROVE  /\ v # None /\ v.released \in Nat /\ v.released - res[r].released \in Nat
         /\ \/ tenant' = tenant /\ (tenant.model = "credits" => v.released = res[r].released)
            \/ /\ tenant.model = "credits"
               /\ tenant.periods[v.period].used - (v.released - res[r].released) \in Nat
               /\ tenant' = [tenant EXCEPT !.periods[v.period].used =
                               tenant.periods[v.period].used - (v.released - res[r].released)]
<1> DEFINE p == res[r].period
           units == v.released - res[r].released
<1>1. Typed /\ Balanced BY Reworded DEF IInv
<1>2. /\ p \in Periods /\ res[r].released \in Nat /\ res[r].granted \in Nat /\ res[r].consumed \in Nat
      /\ res[r].granted - res[r].released \in Nat
  BY <1>1, ReservationTyped DEF Settles
<1>3. v.released \in Nat /\ v.consumed \in Nat BY DEF Settles, Reservations
<1>4. units \in Nat /\ units <= res[r].granted - res[r].released BY <1>2, <1>3 DEF Settles
<1>5. v # None BY NoneAssumption DEF Settles
<1>6. CASE tenant' = tenant /\ v.released = res[r].released BY <1>3, <1>4, <1>5, <1>6
<1>7. CASE tenant' = Returned(tenant, r, units)
  <2>1. CASE tenant.model # "credits"
    BY <1>3, <1>4, <1>5, <1>7, <2>1 DEF Returned
  <2>2. CASE tenant.model = "credits"
    <3>1. tenant.periods[p].used = SumFunction(Unreturned(p)) BY <1>1, <1>2, <2>2 DEF Balanced
    <3>2. r \in Holders(p) BY DEF Holders, Settles
    <3>3. Unreturned(p)[r] = res[r].granted - res[r].released BY <3>2 DEF Unreturned
    <3>4. Unreturned(p)[r] <= SumFunction(Unreturned(p))
      BY <1>1, <3>2, SumsTyped, TotalChanged
    <3>5. tenant.periods[p].used \in Nat BY <1>1, <1>2, Shapes, PeriodTyped DEF Periods
    <3>6. units <= tenant.periods[p].used BY <1>2, <1>4, <3>1, <3>3, <3>4, <3>5
    <3>7. tenant' = [tenant EXCEPT !.periods[p].used = IF units <= @ THEN @ - units ELSE @]
      BY <1>7, <2>2 DEF Returned
    <3>8. tenant' = [tenant EXCEPT !.periods[p].used = tenant.periods[p].used - units]
      <4> HIDE DEF units, p
      <4> QED BY <3>6, <3>7
    <3>9. tenant.periods[p].used - units \in Nat
      <4> HIDE DEF units, p
      <4> QED BY <1>4, <3>5, <3>6
    <3>10. v.period = p BY DEF Settles
    <3> QED BY <1>3, <1>4, <1>5, <2>2, <3>8, <3>9, <3>10
  <2> QED BY <2>1, <2>2
<1> QED BY <1>6, <1>7 DEF Settles

\* What changes, in the tenant and in the reservations.
LEMMA SettlesShape ==
  ASSUME IInv, NEW r \in Requests, NEW v, Settles(r, v)
  PROVE  /\ tenant' \in TenantRecord /\ tenant'.model = tenant.model /\ tenant'.now = tenant.now
         /\ tenant'.cut = tenant.cut
         /\ Len(tenant'.periods) = Len(tenant.periods) /\ Periods' = Periods
         /\ Current(tenant') = Current(tenant)
         /\ Limit(tenant', addon') = Limit(tenant, addon)
         /\ Ceiling(tenant', addon') = Ceiling(tenant, addon)
         /\ \A i \in Periods : tenant'.periods[i].slot = tenant.periods[i].slot
         /\ \A i \in Periods : tenant'.periods[i].used =
              IF tenant.model = "credits" /\ i = v.period
                THEN tenant.periods[i].used - (v.released - res[r].released)
                ELSE tenant.periods[i].used
         /\ res' \in [Requests -> Reservations \cup {None}] /\ res'[r] = v
         /\ \A q \in Requests \ {r} : res'[q] = res[q]
<1>1. Typed BY DEF IInv
<1>2. tenant \in TenantRecord /\ Len(tenant.periods) >= 1 /\ Len(tenant.periods) \in Nat
  <2>1. Len(tenant.periods) \in 1..MaxPeriods BY <1>1, Shapes
  <2> QED BY <1>1, <2>1, Shapes, BoundsAssumption
<1>3. res \in [Requests -> Reservations \cup {None}] BY <1>1, Shapes
<1>4. /\ res' \in [Requests -> Reservations \cup {None}] /\ res'[r] = v
      /\ \A q \in Requests \ {r} : res'[q] = res[q]
  BY <1>3 DEF Settles
<1>5. addon' = addon /\ v.period \in Periods BY <1>1, ReservationTyped DEF Settles
<1>6. CASE tenant' = tenant /\ (tenant.model = "credits" => v.released = res[r].released)
  <2>1. \A i \in Periods : tenant.periods[i].used \in Nat BY <1>2, PeriodTyped DEF Periods
  <2>2. v.released \in Nat BY SettlesTenant
  <2>3. \A i \in Periods : tenant'.periods[i].used =
              IF tenant.model = "credits" /\ i = v.period
                THEN tenant.periods[i].used - (v.released - res[r].released)
                ELSE tenant.periods[i].used
    BY <1>6, <2>1, <2>2
  <2> QED BY <1>2, <1>4, <1>5, <1>6, <2>3 DEF Periods
<1>7. CASE /\ tenant.model = "credits"
           /\ tenant.periods[v.period].used - (v.released - res[r].released) \in Nat
           /\ tenant' = [tenant EXCEPT !.periods[v.period].used =
                           tenant.periods[v.period].used - (v.released - res[r].released)]
  <2> DEFINE p == v.period
             d == tenant.periods[v.period].used - (v.released - res[r].released)
  <2>1. p \in DOMAIN tenant.periods /\ d \in Nat /\ tenant' = [tenant EXCEPT !.periods[p].used = d]
    BY <1>5, <1>7 DEF Periods
  <2> HIDE DEF p, d
  <2>2. /\ tenant' \in TenantRecord /\ tenant'.model = tenant.model /\ tenant'.now = tenant.now
        /\ tenant'.cut = tenant.cut
        /\ Len(tenant'.periods) = Len(tenant.periods) /\ DOMAIN tenant'.periods = DOMAIN tenant.periods
        /\ tenant'.periods[p].used = d
        /\ \A i \in DOMAIN tenant.periods :
              /\ tenant'.periods[i].slot = tenant.periods[i].slot
              /\ i # p => tenant'.periods[i].used = tenant.periods[i].used
    BY <1>2, <2>1, UsedSet
  <2>3. /\ Current(tenant') = Current(tenant)
        /\ Limit(tenant', addon) = Limit(tenant, addon) /\ Ceiling(tenant', addon) = Ceiling(tenant, addon)
    <3>1. \A u, a : u = [tenant EXCEPT !.periods[p].used = d] =>
            Current(u) = Current(tenant) /\ Limit(u, a) = Limit(tenant, a) /\ Ceiling(u, a) = Ceiling(tenant, a)
      BY <1>2, <2>1, UsedLimit
    <3> QED BY <2>1, <3>1
  <2>4. \A i \in Periods : tenant'.periods[i].used =
              IF tenant.model = "credits" /\ i = v.period
                THEN tenant.periods[i].used - (v.released - res[r].released)
                ELSE tenant.periods[i].used
    BY <1>7, <2>2 DEF p, d, Periods
  <2> QED BY <1>4, <1>5, <2>2, <2>3, <2>4 DEF Periods
<1> QED BY <1>6, <1>7, SettlesTenant

\* The books balance as before, and no more than before is used or still to be made.
LEMMA SettlesStep ==
  ASSUME IInv, NEW r \in Requests, NEW v, Settles(r, v)
  PROVE  FutureUntouched' /\ Balanced' /\ WithinAllowance'
<1>1. Typed /\ Balanced /\ FutureUntouched /\ WithinAllowance BY Reworded DEF IInv
<1>2. /\ v # None /\ v.period = res[r].period /\ v.granted = res[r].granted /\ res[r] # None
      /\ v.released \in Nat /\ v.released - res[r].released \in Nat /\ res'[r] = v
      /\ \A q \in Requests \ {r} : res'[q] = res[q]
  BY SettlesTenant, SettlesShape DEF Settles
<1>3. /\ res[r].period \in Periods /\ res[r].granted \in Nat /\ res[r].released \in Nat
      /\ res[r].consumed \in Nat /\ res[r].granted - res[r].released \in Nat
  BY <1>1, <1>2, ReservationTyped
<1>4. \A p : Holders(p)' = Holders(p) BY <1>2 DEF Holders
<1>5. FutureUntouched'
  <2> SUFFICES ASSUME NEW p \in Periods', tenant'.periods[p].slot > tenant'.now PROVE Untouched(p)'
    BY DEF FutureUntouched
  <2>1. p \in Periods /\ tenant.periods[p].slot > tenant.now BY SettlesShape
  <2>2. Untouched(p) BY <1>1, <2>1 DEF FutureUntouched
  <2>3. p # v.period BY <1>2, <2>2 DEF Untouched
  <2>4. tenant'.periods[p].used = 0 BY <2>1, <2>2, <2>3, SettlesShape DEF Untouched
  <2>5. \A q \in Requests : res'[q] # None => res'[q].period # p BY <1>2, <2>2 DEF Untouched
  <2> QED BY <2>4, <2>5 DEF Untouched
<1>6. Balanced'
  <2> SUFFICES ASSUME tenant'.model = "credits", NEW p \in Periods'
               PROVE  tenant'.periods[p].used = SumFunction(Unreturned(p)')
    BY DEF Balanced
  <2> DEFINE f == Unreturned(p)
             g == Unreturned(p)'
  <2>1. tenant.model = "credits" /\ p \in Periods BY SettlesShape
  <2>2. tenant.periods[p].used = SumFunction(f) BY <1>1, <2>1 DEF Balanced
  <2>3. g = [q \in Holders(p) |-> res'[q].granted - res'[q].released] BY <1>4 DEF Unreturned
  <2>4. f \in [Holders(p) -> Nat] /\ IsFiniteSet(Holders(p)) BY <1>1, SumsTyped
  <2>5. \A q \in Holders(p) \ {r} : g[q] = f[q] BY <1>2, <2>3 DEF Unreturned, Holders
  <2>6. CASE p # v.period
    <3>1. r \notin Holders(p) BY <1>2, <2>6 DEF Holders
    <3>2. g = f BY <2>3, <2>4, <2>5, <3>1
    <3>3. tenant'.periods[p].used = tenant.periods[p].used BY <2>1, <2>6, SettlesShape
    <3> QED BY <2>2, <3>2, <3>3
  <2>7. CASE p = v.period
    <3>1. r \in Holders(p) BY <1>2, <2>7 DEF Holders
    <3>2. f[r] = res[r].granted - res[r].released BY <3>1 DEF Unreturned
    <3>3. g[r] = res[r].granted - v.released BY <1>2, <2>3, <3>1
    <3>4. v.released <= res[r].granted /\ v.consumed \in Nat BY <1>2 DEF Settles, Reservations
    <3>5. g[r] \in Nat BY <1>2, <1>3, <3>3, <3>4
    <3>6. g \in [Holders(p) -> Nat]
      <4> HIDE DEF f
      <4>1. \A q \in Holders(p) : g[q] \in Nat BY <2>4, <2>5, <3>5
      <4>2. g = [q \in Holders(p) |-> g[q]] BY <2>3
      <4> HIDE DEF g
      <4> QED BY <4>1, <4>2
    <3>7. SumFunction(g) = SumFunction(f) - f[r] + g[r]
      <4> HIDE DEF f, g
      <4> QED BY <2>4, <2>5, <3>1, <3>6, TotalChanged
    <3>8. tenant'.periods[p].used = tenant.periods[p].used - (v.released - res[r].released)
      BY <2>1, <2>7, SettlesShape
    <3>9. SumFunction(f) \in Nat BY <1>1, SumsTyped
    <3> HIDE DEF f, g
    <3>10. tenant'.periods[p].used = SumFunction(g)
      BY <1>2, <1>3, <2>2, <3>2, <3>3, <3>7, <3>8, <3>9
    <3> QED BY <3>10 DEF g
  <2> QED BY <2>6, <2>7
<1>7. WithinAllowance'
  <2> DEFINE p == Current(tenant)
  <2>1. /\ Current(tenant)' = p /\ Limit(tenant, addon)' = Limit(tenant, addon)
        /\ Ceiling(tenant, addon)' = Ceiling(tenant, addon) /\ tenant'.cut = tenant.cut
        /\ tenant'.model = tenant.model
    BY SettlesShape
  <2>2. tenant \in TenantRecord /\ Len(tenant.periods) >= 1 /\ tenant.cut \in Nat
    <3>1. tenant \in TenantRecord /\ Len(tenant.periods) \in 1..MaxPeriods BY <1>1, Shapes
    <3>2. tenant.cut \in Nat BY <3>1 DEF TenantRecord
    <3> QED BY <3>1, <3>2, BoundsAssumption
  <2>3. Limit(tenant, addon) \in Nat /\ Ceiling(tenant, addon) \in Nat BY <2>2, LimitTyped
  <2>4. CASE tenant.model = "credits"
    <3>1. ASSUME p # 0 PROVE tenant'.periods[p].used <= Limit(tenant, addon) + tenant.cut
      <4>1. p \in Periods BY <2>2, <3>1, CurrentHolds DEF Periods
      <4>2. tenant.periods[p].used <= Limit(tenant, addon) + tenant.cut BY <1>1, <2>4, <3>1, Reworded
      <4>3. tenant.periods[p].used \in Nat BY <2>2, <4>1, PeriodTyped DEF Periods
      <4>4. tenant'.periods[p].used =
              IF p = v.period THEN tenant.periods[p].used - (v.released - res[r].released)
                ELSE tenant.periods[p].used
        BY <2>4, <4>1, SettlesShape
      <4> HIDE DEF p
      <4> QED BY <1>2, <2>2, <2>3, <4>2, <4>3, <4>4
    <3> QED BY <2>1, <2>4, <3>1 DEF WithinAllowance
  <2>5. CASE tenant.model # "credits"
    <3> DEFINE f == ToMake(p)'
               g == ToMake(p)
    <3>1. Kept
      <4>1. leads' = leads /\ leads \in Seq(LeadRecord) BY <1>1, Shapes DEF Settles
      <4> QED BY <4>1 DEF Kept
    <3>2. Existing' = Existing /\ \A q : Created(q)' = Created(q) BY <3>1, KeptCounts
    <3>3. \A q : Held(q)' \subseteq Held(q)
      BY <1>2 DEF Held, Reserved, Covered, Settles
    <3>4. f = [q \in Held(p)' |-> Unused(q)'] BY <2>1 DEF ToMake
    <3>5. g \in [Held(p) -> Nat] /\ IsFiniteSet(Held(p)) /\ SumFunction(g) \in Nat BY <1>1, SumsTyped
    <3>6. ASSUME NEW q \in Held(p)' PROVE f[q] \in Nat /\ f[q] <= g[q]
      <4>1. q \in Held(p) BY <2>1, <3>3
      <4>2. f[q] = Unused(q)' /\ g[q] = Unused(q) BY <3>4, <4>1 DEF ToMake
      <4>3. q \in Requests /\ res[q] # None BY <4>1 DEF Held, Reserved
      <4>4. /\ res[q].granted \in Nat /\ res[q].released \in Nat /\ Created(q) \in Nat
        BY <1>1, <4>3, ReservationTyped, Shapes, LeadsFinite
      <4>5. /\ res'[q].granted = res[q].granted /\ res'[q].released \in Nat
            /\ res'[q].released >= res[q].released
        <5>1. CASE q = r BY <1>2, <4>4, <5>1 DEF Settles
        <5>2. CASE q # r BY <1>2, <4>3, <4>4, <5>2
        <5> QED BY <5>1, <5>2
      <4>6. Unused(q)' \in Nat /\ Unused(q)' <= Unused(q) BY <3>2, <4>4, <4>5 DEF Unused
      <4> QED BY <4>2, <4>6
    <3>7. f \in [Held(p)' -> Nat]
      <4>1. f = [q \in Held(p)' |-> f[q]] BY <3>4
      <4> HIDE DEF f
      <4> QED BY <3>6, <4>1
    <3>8. SumFunction(f) <= SumFunction(g) /\ SumFunction(f) \in Nat
      <4> DEFINE S == Held(p)'
                 T == Held(p)
      <4>1. S \subseteq T BY <2>1, <3>3
      <4>2. f \in [S -> Nat] /\ g \in [T -> Nat] /\ IsFiniteSet(T) /\ \A q \in S : f[q] <= g[q]
        BY <3>5, <3>6, <3>7
      <4> HIDE DEF S, T, f, g
      <4>3. IsFiniteSet(S) BY <4>1, <4>2, FS_Subset
      <4>4. SumFunction(f) \in Nat BY <4>2, <4>3, TotalNat
      <4>5. SumFunction(f) <= SumFunction(g) BY <4>1, <4>2, TotalGrows
      <4> QED BY <4>4, <4>5
    <3>9. Cardinality(Existing) + SumFunction(g) <= Ceiling(tenant, addon) + tenant.cut
      BY <1>1, <2>5, Reworded
    <3>10. Cardinality(Existing) \in Nat BY <1>1, Shapes, LeadsFinite
    <3>11. Cardinality(Existing') + SumFunction(f) <= Ceiling(tenant, addon)' + tenant'.cut
      <4> HIDE DEF f, g, p
      <4>1. Cardinality(Existing) + SumFunction(f) <= Ceiling(tenant, addon) + tenant.cut
        BY <2>2, <2>3, <3>5, <3>8, <3>9, <3>10
      <4> QED BY <2>1, <3>2, <4>1
    <3>12. f = [q \in Held(Current(tenant))' |-> Unused(q)'] BY <2>1, <3>4
    <3> HIDE DEF f, g, p
    <3> QED BY <2>1, <2>5, <3>11, <3>12 DEF WithinAllowance
  <2> QED BY <2>4, <2>5
<1> QED BY <1>5, <1>6, <1>7

-----------------------------------------------------------------------------
(* What a request does.                                                    *)

\* Steps that change neither reservations, leads nor the limit keep what is said of them.
LEMMA NothingMoves ==
  ASSUME UNCHANGED <<tenant, res, leads, addon>>
  PROVE  /\ FutureUntouched' = FutureUntouched /\ Balanced' = Balanced
         /\ WithinAllowance' = WithinAllowance
<1>1. FutureUntouched' = FutureUntouched BY DEF FutureUntouched, Untouched, Periods
<1>2. Balanced' = Balanced BY DEF Balanced, Unreturned, Holders, Periods
<1>3. /\ Existing' = Existing /\ \A p : Held(p)' = Held(p) /\ \A r : Unused(r)' = Unused(r)
  BY DEF Existing, Held, Reserved, Covered, Unused, Created
<1>4. \A p : ToMake(p)' = ToMake(p) BY <1>3 DEF ToMake
<1>5. WithinAllowance' = WithinAllowance
  <2>1. /\ Current(tenant)' = Current(tenant) /\ Limit(tenant, addon)' = Limit(tenant, addon)
        /\ Ceiling(tenant, addon)' = Ceiling(tenant, addon)
    BY DEF Current, Active, Limit, Ceiling, ReadLimit, Recurring
  <2>2. SumFunction(ToMake(Current(tenant)))' = SumFunction(ToMake(Current(tenant)))
    BY <1>3, <2>1 DEF ToMake
  <2>3. Cardinality(Existing)' = Cardinality(Existing) BY <1>3
  <2> QED BY <2>1, <2>2, <2>3 DEF WithinAllowance, ToMake
<1> QED BY <1>1, <1>2, <1>5

\* One request's part of the table.
LEMMA Worked ==
  ASSUME Typed, NEW r \in Requests, NEW w \in WorkRecord, work' = [work EXCEPT ![r] = w]
  PROVE  /\ work' \in [Requests -> WorkRecord] /\ work'[r] = w
         /\ \A q \in Requests \ {r} : work'[q] = work[q]
BY Shapes

\* The steps a request takes through its table.
LEMMA Gone ==
  ASSUME Typed, NEW r \in Requests,
         NEW pc \in {"idle", "making", "made", "releasing", "done"}, Goes(r, pc)
  PROVE  /\ work' \in [Requests -> WorkRecord]
         /\ work'[r].pc = pc /\ work'[r].tried = work[r].tried /\ work'[r].returned = work[r].returned
         /\ \A q \in Requests \ {r} : work'[q] = work[q]
<1> DEFINE w == [work[r] EXCEPT !.pc = pc]
<1>1. work[r] \in WorkRecord BY Shapes
<1>2. w \in WorkRecord /\ w.pc = pc /\ w.tried = work[r].tried /\ w.returned = work[r].returned
  BY <1>1 DEF WorkRecord
<1>3. work' = [work EXCEPT ![r] = w] BY DEF Goes
<1> HIDE DEF w
<1> QED BY <1>2, <1>3, Worked

\* A request keeps to its reservation when nothing happens to it.
LEMMA OthersSound ==
  ASSUME \A r \in Requests : Sound(r), NEW q \in Requests, res'[q] = res[q], work'[q] = work[q],
         Created(q)' = Created(q)
  PROVE  Sound(q)'
BY DEF Sound, Outstanding

\* A fault is counted.
LEMMA FaultCounted == ASSUME Typed, Failing \/ UNCHANGED faults PROVE faults' \in 0..MaxFaults
<1>1. faults \in 0..MaxFaults /\ MaxFaults \in Nat BY BoundsAssumption DEF Typed, TypeOK
<1> QED BY <1>1 DEF Failing

\* A step in a request's table alone.
LEMMA WorkOnly ==
  ASSUME IInv, NEW r \in Requests, UNCHANGED <<tenant, res, leads, addon>>,
         Failing \/ UNCHANGED faults,
         work' \in [Requests -> WorkRecord], \A q \in Requests \ {r} : work'[q] = work[q],
         \/ work'[r].returned \/ work'[r].returned = work[r].returned
         \/ Cardinality(OnTime(r)) <= res[r].granted - res[r].released,
         Sound(r)'
  PROVE  IInv'
<1>1. Typed'
  <2>1. Typed /\ faults' \in 0..MaxFaults BY FaultCounted DEF IInv
  <2> QED BY <2>1 DEF Typed, TypeOK, WorkRecord, Periods
<1>2. ASSUME NEW q \in Requests PROVE Sound(q)'
  <2>1. Created(q)' = Created(q) BY DEF Created
  <2>2. CASE q # r BY <2>1, <2>2, OthersSound DEF IInv
  <2> QED BY <2>2
<1>3. FutureUntouched' /\ Balanced' /\ WithinAllowance' BY NothingMoves, Reworded DEF IInv
<1>4. LeadsArePaidFor'
  <2>1. \A q \in Requests : res[q] # None /\ ~work[q].returned =>
          Cardinality(OnTime(q)) <= res[q].granted - res[q].released
    BY Reworded DEF IInv
  <2>2. \A q \in Requests : res[q] # None /\ ~work'[q].returned =>
          Cardinality(OnTime(q)) <= res[q].granted - res[q].released
    BY <2>1
  <2>3. \A q \in Requests : {n \in Linked(q) : ~leads[n].late}' = OnTime(q)
    BY DEF OnTime, Linked, Existing
  <2> QED BY <2>2, <2>3 DEF LeadsArePaidFor
<1>5. LedgerBalances' BY <1>3, <1>4 DEF LedgerBalances, Balanced, Unreturned, Holders
<1> QED BY <1>1, <1>2, <1>3, <1>5 DEF IInv

\* A row that makes no lead is tried all the same.
LEMMA CreateFailsStep == ASSUME IInv, NEW r \in Requests, CreateFails(r) PROVE IInv'
<1>1. Typed /\ Sound(r) /\ work[r] \in WorkRecord BY Shapes DEF IInv
<1>2. res[r] # None BY <1>1 DEF Sound, CreateFails
<1>3. res[r].granted \in Nat BY <1>1, <1>2, ReservationTyped
<1> DEFINE pc == IF Wants[r] > 1 THEN "making" ELSE "releasing"
<1>4. pc \in {"making", "releasing"} OBVIOUS
<1> DEFINE w == [work[r] EXCEPT !.pc = pc, !.tried = work[r].tried + 1]
<1>5. w \in WorkRecord /\ w.pc = pc /\ w.tried = work[r].tried + 1 /\ w.returned = work[r].returned
  <2> HIDE DEF pc
  <2>1. work[r].tried + 1 \in Nat BY <1>1 DEF WorkRecord
  <2>2. PICK n \in Nat : n = work[r].tried + 1 BY <2>1
  <2>3. w = [work[r] EXCEPT !.pc = pc, !.tried = n] BY <2>2
  <2> HIDE DEF w
  <2>4. w \in WorkRecord /\ w.pc = pc /\ w.tried = n /\ w.returned = work[r].returned
    BY <1>1, <1>4, <2>3 DEF WorkRecord
  <2> QED BY <2>2, <2>4
<1>6. work' = [work EXCEPT ![r] = w] BY DEF CreateFails
<1> HIDE DEF w, pc
<1>7. /\ work' \in [Requests -> WorkRecord] /\ work'[r] = w
      /\ \A q \in Requests \ {r} : work'[q] = work[q]
  BY <1>1, <1>5, <1>6, Worked
<1>8. Created(r)' = Created(r) /\ Created(r) \in Nat /\ work[r].tried \in Nat
  BY <1>1, Shapes, LeadsFinite DEF Created, CreateFails, WorkRecord
<1>9. work[r].tried < res[r].granted BY DEF CreateFails, MoreRows
<1>10. Sound(r)'
  BY <1>1, <1>2, <1>3, <1>5, <1>4, <1>7, <1>8, <1>9 DEF Sound, CreateFails, Outstanding
<1> QED BY <1>5, <1>7, <1>10, WorkOnly DEF CreateFails

\* A consumption is lost: the reservation keeps a unit that is not counted.
LEMMA ConsumeLostStep == ASSUME IInv, NEW r \in Requests, ConsumeLost(r) PROVE IInv'
<1>1. Typed /\ Sound(r) BY DEF IInv
<1>2. NextRow(r) \in {"making", "done"} BY DEF NextRow
<1>3. /\ work' \in [Requests -> WorkRecord]
      /\ work'[r].pc = NextRow(r) /\ work'[r].tried = work[r].tried /\ work'[r].returned = work[r].returned
      /\ \A q \in Requests \ {r} : work'[q] = work[q]
  BY <1>1, <1>2, Gone DEF ConsumeLost
<1>4. Created(r)' = Created(r) BY DEF Created, ConsumeLost
<1>5. Sound(r)' BY <1>1, <1>2, <1>3, <1>4 DEF Sound, ConsumeLost, Outstanding
<1> QED BY <1>3, <1>5, WorkOnly DEF ConsumeLost

\* No row is left.
LEMMA RowsTriedStep == ASSUME IInv, NEW r \in Requests, RowsTried(r) PROVE IInv'
<1>1. Typed /\ Sound(r) BY DEF IInv
<1>2. /\ work' \in [Requests -> WorkRecord]
      /\ work'[r].pc = "releasing" /\ work'[r].tried = work[r].tried /\ work'[r].returned = work[r].returned
      /\ \A q \in Requests \ {r} : work'[q] = work[q]
  BY <1>1, Gone DEF RowsTried
<1>3. Created(r)' = Created(r) BY DEF Created, RowsTried
<1>4. Sound(r)' BY <1>1, <1>2, <1>3 DEF Sound, RowsTried, Outstanding
<1> QED BY <1>2, <1>4, WorkOnly DEF RowsTried

\* The process dies; what it reserved stays.
LEMMA CrashStep == ASSUME IInv, NEW r \in Requests, Crash(r) PROVE IInv'
<1>1. Typed /\ Sound(r) BY DEF IInv
<1>2. /\ work' \in [Requests -> WorkRecord]
      /\ work'[r].pc = "done" /\ work'[r].tried = work[r].tried /\ work'[r].returned = work[r].returned
      /\ \A q \in Requests \ {r} : work'[q] = work[q]
  BY <1>1, Gone DEF Crash
<1>3. Created(r)' = Created(r) BY DEF Created, Crash
<1>4. Sound(r)' BY <1>1, <1>2, <1>3 DEF Sound, Crash, Outstanding
<1> QED BY <1>2, <1>4, WorkOnly DEF Crash

\* A settled reservation is the same but for its status.
LEMMA SettledFields ==
  ASSUME NEW v \in Reservations, v.consumed + v.released <= v.granted,
         v.status = "finalized" => v.consumed > 0, v.status = "released" => v.consumed = 0
  PROVE  LET u == Settled(v) IN
         /\ u \in Reservations /\ u.granted = v.granted /\ u.period = v.period /\ u.late = v.late
         /\ u.consumed = v.consumed /\ u.released = v.released
         /\ u.status = "reserved" => v.status = "reserved"
         /\ u.status = "finalized" => u.consumed > 0
         /\ u.status = "released" => u.consumed = 0
         /\ u.status # v.status => Outstanding(u) = 0
         /\ v.consumed + v.released = v.granted => u.status # "reserved"
<1>1. v.consumed \in Nat /\ v.released \in Nat /\ v.granted \in Nat BY DEF Reservations
<1>2. CASE v.consumed + v.released < v.granted
  <2>1. Settled(v) = v BY <1>2 DEF Settled
  <2>2. v.consumed + v.released # v.granted BY <1>1, <1>2
  <2> QED BY <2>1, <2>2
<1>3. CASE ~(v.consumed + v.released < v.granted)
  <2>1. PICK status \in {"finalized", "released"} :
          /\ Settled(v) = [v EXCEPT !.status = status]
          /\ status = IF v.consumed > 0 THEN "finalized" ELSE "released"
    BY <1>3 DEF Settled
  <2>2. v.granted - v.consumed - v.released = 0 BY <1>1, <1>3
  <2>3. PICK u \in Reservations :
          /\ u = Settled(v) /\ u.granted = v.granted /\ u.period = v.period /\ u.late = v.late
          /\ u.consumed = v.consumed /\ u.released = v.released /\ u.status = status
    BY <2>1 DEF Reservations
  <2>4. Outstanding(u) = 0 BY <2>2, <2>3 DEF Outstanding
  <2>5. /\ u.status = "reserved" => v.status = "reserved"
        /\ u.status = "finalized" => u.consumed > 0
        /\ u.status = "released" => u.consumed = 0
    BY <1>1, <2>1, <2>3
  <2> QED BY <2>3, <2>4, <2>5
<1> QED BY <1>2, <1>3

\* A step that settles keeps the invariant if the request is sound and its leads are paid
\* for.
LEMMA SettlesInv ==
  ASSUME IInv, NEW r \in Requests, NEW v, Settles(r, v),
         Failing \/ UNCHANGED faults,
         work' \in [Requests -> WorkRecord], \A q \in Requests \ {r} : work'[q] = work[q],
         work'[r].returned \/ Cardinality(OnTime(r)) <= v.granted - v.released,
         Sound(r)'
  PROVE  IInv'
<1>1. Typed BY DEF IInv
<1>2. /\ tenant' \in TenantRecord /\ Len(tenant'.periods) = Len(tenant.periods) /\ Periods' = Periods
      /\ res' \in [Requests -> Reservations \cup {None}] /\ res'[r] = v
      /\ \A q \in Requests \ {r} : res'[q] = res[q]
  BY SettlesShape
<1>3. leads' = leads BY DEF Settles
<1>4. Typed'
  <2>1. faults' \in 0..MaxFaults BY <1>1, FaultCounted
  <2>2. ASSUME NEW q \in Requests, res'[q] # None
        PROVE  /\ res'[q].consumed + res'[q].released <= res'[q].granted
               /\ res'[q].status = "finalized" => res'[q].consumed > 0
               /\ res'[q].status = "released" => res'[q].consumed = 0
               /\ res'[q].period \in Periods'
    <3>1. CASE q = r
      <4>1. res[r].period \in Periods BY <1>1, ReservationTyped DEF Settles
      <4> QED BY <1>2, <3>1, <4>1 DEF Settles
    <3>2. CASE q # r BY <1>1, <1>2, <2>2, <3>2 DEF Typed, TypeOK
    <3> QED BY <3>1, <3>2
  <2>3. TypeOK'
    BY <1>1, <1>2, <1>3, <2>1, <2>2 DEF Typed, TypeOK, TenantRecord, PeriodRecord, WorkRecord
  <2> QED BY <1>1, <1>2, <2>2, <2>3 DEF Typed
<1>5. ASSUME NEW q \in Requests PROVE Sound(q)'
  <2>1. Created(q)' = Created(q) BY <1>3 DEF Created
  <2>2. CASE q # r BY <1>2, <2>1, <2>2, OthersSound DEF IInv
  <2> QED BY <2>2
<1>6. FutureUntouched' /\ Balanced' /\ WithinAllowance' BY SettlesStep
<1>7. LeadsArePaidFor'
  <2>1. \A q \in Requests : res[q] # None /\ ~work[q].returned =>
          Cardinality(OnTime(q)) <= res[q].granted - res[q].released
    BY Reworded DEF IInv
  <2>2. \A q \in Requests : res'[q] # None /\ ~work'[q].returned =>
          Cardinality(OnTime(q)) <= res'[q].granted - res'[q].released
    BY <1>2, <2>1
  <2>3. \A q \in Requests : {n \in Linked(q) : ~leads[n].late}' = OnTime(q)
    BY <1>3 DEF OnTime, Linked, Existing
  <2> QED BY <2>2, <2>3 DEF LeadsArePaidFor
<1>8. LedgerBalances' BY <1>6, <1>7 DEF LedgerBalances, Balanced, Unreturned, Holders
<1> QED BY <1>4, <1>5, <1>6, <1>8 DEF IInv

\* Thirty minutes are over.
LEMMA ExpiresStep == ASSUME IInv, NEW r \in Requests, ReservationExpires(r) PROVE IInv'
<1>1. Typed /\ Sound(r) /\ res[r] # None BY DEF IInv, ReservationExpires, Reserved
<1>2. res[r] \in Reservations BY <1>1, ReservationTyped
<1> DEFINE v == [res[r] EXCEPT !.late = TRUE]
<1>3. /\ v \in Reservations /\ v.granted = res[r].granted /\ v.period = res[r].period
      /\ v.consumed = res[r].consumed /\ v.released = res[r].released /\ v.status = res[r].status
      /\ v.late = TRUE
  BY <1>2 DEF Reservations
<1>4. res' = [res EXCEPT ![r] = v] BY DEF ReservationExpires
<1> HIDE DEF v
<1>5. /\ res[r].consumed + res[r].released <= res[r].granted
      /\ res[r].status = "finalized" => res[r].consumed > 0
      /\ res[r].status = "released" => res[r].consumed = 0
      /\ res[r].released \in Nat
  BY <1>1, ReservationTyped DEF Typed, TypeOK
<1>6. Settles(r, v)
  <2>1. tenant' = tenant /\ leads' = leads /\ addon' = addon BY DEF ReservationExpires
  <2>2. v.released >= res[r].released /\ v.consumed + v.released <= v.granted BY <1>3, <1>5
  <2>3. /\ v.status = "reserved" => res[r].status = "reserved"
        /\ v.status = "finalized" => v.consumed > 0
        /\ v.status = "released" => v.consumed = 0
    BY <1>3, <1>5
  <2>4. res[r].late => v.late BY <1>3
  <2> QED BY <1>1, <1>3, <1>4, <2>1, <2>2, <2>3, <2>4 DEF Settles
<1>7. res'[r] = v BY <1>6, SettlesShape
<1>8. work' = work /\ work \in [Requests -> WorkRecord] BY <1>1, Shapes DEF ReservationExpires
<1>9. Created(r)' = Created(r) BY DEF Created, ReservationExpires
<1>10. Sound(r)'
  <2>1. v # None BY <1>6, SettlesTenant
  <2> QED BY <1>1, <1>3, <1>7, <1>8, <1>9, <2>1 DEF Sound, Outstanding
<1>11. work[r].returned \/ Cardinality(OnTime(r)) <= res[r].granted - res[r].released
  BY <1>1, Reworded DEF IInv
<1> QED BY <1>3, <1>6, <1>8, <1>10, <1>11, SettlesInv DEF ReservationExpires

\* The cleanup counts the leads that were made as consumed, and gives back the rest.
LEMMA CleanupStep == ASSUME IInv, NEW r \in Requests, Cleanup(r) PROVE IInv'
<1>1. Typed /\ Sound(r) /\ res[r] # None /\ res[r].status = "reserved" /\ res[r].late
  BY DEF IInv, Cleanup, Stale, Reserved
<1>2. /\ res[r] \in Reservations
      /\ res[r].granted \in Nat /\ res[r].consumed \in Nat /\ res[r].released = 0
      /\ res[r].consumed <= res[r].granted
  BY <1>1, ReservationTyped DEF Sound
<1>3. /\ Cardinality(Linked(r)) \in Nat /\ Cardinality(OnTime(r)) \in Nat /\ Created(r) \in Nat
      /\ Cardinality(OnTime(r)) <= Cardinality(Linked(r)) /\ Cardinality(Linked(r)) <= Created(r)
      /\ work[r].tried \in Nat
  BY <1>1, Shapes, LeadsFinite DEF WorkRecord
<1>4. PICK c : c = ConsumedUnits(r) OBVIOUS
<1>5. /\ c \in Nat /\ c <= res[r].granted /\ c <= Created(r) /\ Cardinality(OnTime(r)) <= c
  <2>1. Created(r) <= work[r].tried /\ work[r].tried <= res[r].granted /\ res[r].consumed <= Created(r)
    BY <1>1 DEF Sound
  <2> QED BY <1>2, <1>3, <1>4, <2>1 DEF ConsumedUnits
<1>6. PICK units \in Nat : units = res[r].granted - c BY <1>2, <1>5
<1>7. PICK status \in {"finalized", "released"} : status = IF c > 0 THEN "finalized" ELSE "released"
  OBVIOUS
<1>8. PICK v \in Reservations :
        /\ v = [res[r] EXCEPT !.consumed = c, !.released = units, !.status = status]
        /\ v.granted = res[r].granted /\ v.period = res[r].period /\ v.late = TRUE
        /\ v.consumed = c /\ v.released = units /\ v.status = status
  <2> DEFINE w == [res[r] EXCEPT !.consumed = c, !.released = units, !.status = status]
  <2>1. w \in Reservations /\ w.granted = res[r].granted /\ w.period = res[r].period /\ w.late = TRUE
          /\ w.consumed = c /\ w.released = units /\ w.status = status
    BY <1>1, <1>2, <1>5, <1>6, <1>7 DEF Reservations
  <2> HIDE DEF w
  <2> QED BY <2>1 DEF w
<1>9. /\ tenant' = Returned(tenant, r, units)
      /\ res' = [res EXCEPT ![r].consumed = c, ![r].released = @ + units, ![r].status = status]
  <2>1. c <= res[r].granted - res[r].released /\ res[r].granted - res[r].released - c = units
    BY <1>2, <1>5, <1>6
  <2> QED BY <1>4, <1>7, <2>1 DEF Cleanup
<1>10. res' = [res EXCEPT ![r] = v]
  <2>1. res[r].released + units = units BY <1>2, <1>6
  <2>2. res \in [Requests -> Reservations \cup {None}] BY <1>1, Shapes
  <2> QED BY <1>2, <1>8, <1>9, <2>1, <2>2
<1>11. Settles(r, v)
  <2>1. v.released - res[r].released = units /\ v.released >= res[r].released BY <1>2, <1>6, <1>8
  <2>2. v.consumed + v.released <= v.granted BY <1>2, <1>5, <1>6, <1>8
  <2>3. /\ v.status = "finalized" => v.consumed > 0
        /\ v.status = "released" => v.consumed = 0
    BY <1>5, <1>7, <1>8
  <2> QED BY <1>1, <1>7, <1>8, <1>9, <1>10, <2>1, <2>2, <2>3 DEF Settles, Cleanup
<1>12. res'[r] = v BY <1>11, SettlesShape
<1>13. work' = work /\ work \in [Requests -> WorkRecord] BY <1>1, Shapes DEF Cleanup
<1>14. Created(r)' = Created(r) BY DEF Created, Cleanup
<1>15. Sound(r)'
  <2>1. v # None BY <1>11, SettlesTenant
  <2> QED BY <1>1, <1>5, <1>7, <1>8, <1>12, <1>13, <1>14, <2>1 DEF Sound
<1>16. Cardinality(OnTime(r)) <= v.granted - v.released BY <1>2, <1>3, <1>5, <1>6, <1>8
<1> QED BY <1>11, <1>13, <1>15, <1>16, SettlesInv DEF Cleanup

\* Until an import has given back the unit of a lead, its reservation pays for its leads.
LEMMA StillPaid ==
  ASSUME IInv, NEW r \in Requests, res[r] # None, ~work[r].returned
  PROVE  Cardinality(OnTime(r)) <= res[r].granted - res[r].released
BY Reworded DEF IInv

\* A row's lead is counted, whether or not the status is saved with it.
LEMMA ConsumeStep == ASSUME IInv, NEW r \in Requests, Consume(r) PROVE IInv'
<1>1. Typed /\ Sound(r) /\ work[r].pc = "made" /\ res[r] # None /\ ~work[r].returned
  BY DEF IInv, Consume, Sound
<1>2. /\ res[r] \in Reservations /\ res[r].granted \in Nat /\ res[r].consumed \in Nat
      /\ res[r].released \in Nat /\ res[r].consumed + res[r].released <= res[r].granted
      /\ Created(r) \in Nat
  BY <1>1, ReservationTyped, Shapes, LeadsFinite
<1>3. NextRow(r) \in {"making", "done"} BY DEF NextRow
<1>4. Created(r)' = Created(r) BY DEF Created, Consume
<1>5. CASE UNCHANGED <<res, faults>> /\ Goes(r, NextRow(r))
  <2>1. /\ work' \in [Requests -> WorkRecord]
        /\ work'[r].pc = NextRow(r) /\ work'[r].tried = work[r].tried
        /\ work'[r].returned = work[r].returned
        /\ \A q \in Requests \ {r} : work'[q] = work[q]
    BY <1>1, <1>3, <1>5, Gone
  <2>2. Sound(r)' BY <1>1, <1>3, <1>4, <1>5, <2>1 DEF Sound, Outstanding
  <2> QED BY <1>5, <2>1, <2>2, WorkOnly DEF Consume
<1>6. ASSUME res[r].status = "reserved", Outstanding(res[r]) >= 1,
             NEW v, v = [res[r] EXCEPT !.consumed = @ + 1], NEW u, u = Settled(v) \/ u = v,
             res' = [res EXCEPT ![r] = u], NEW pc \in {"making", "done"}, Goes(r, pc),
             Failing \/ UNCHANGED faults
      PROVE  IInv'
  <2>1. /\ v \in Reservations /\ v.granted = res[r].granted /\ v.period = res[r].period
        /\ v.released = res[r].released /\ v.status = "reserved" /\ v.late = res[r].late
        /\ v.consumed = res[r].consumed + 1
    <3>1. PICK n \in Nat : n = res[r].consumed + 1 BY <1>2
    <3>2. v = [res[r] EXCEPT !.consumed = n] BY <1>6, <3>1
    <3> QED BY <1>2, <1>6, <3>1, <3>2 DEF Reservations
  <2>2. res[r].released = 0 /\ res[r].consumed < Created(r) BY <1>1, <1>6 DEF Sound
  <2>3. v.consumed <= Created(r) /\ v.consumed + v.released <= v.granted
    BY <1>2, <1>6, <2>1, <2>2 DEF Outstanding
  <2>4. /\ u \in Reservations /\ u.granted = v.granted /\ u.period = v.period /\ u.late = v.late
        /\ u.consumed = v.consumed /\ u.released = v.released
        /\ u.status = "finalized" => u.consumed > 0
        /\ u.status = "released" => u.consumed = 0
        /\ u.status # "reserved" => Outstanding(u) = 0
    BY <1>6, <2>1, <2>3, SettledFields
  <2>5. Settles(r, u)
    <3>1. tenant' = tenant /\ leads' = leads /\ addon' = addon BY DEF Consume
    <3>2. u.released >= res[r].released /\ u.consumed + u.released <= u.granted
      BY <1>2, <2>1, <2>3, <2>4
    <3> QED BY <1>1, <1>6, <2>1, <2>4, <3>1, <3>2 DEF Settles
  <2>6. /\ work' \in [Requests -> WorkRecord]
        /\ work'[r].pc = pc /\ work'[r].tried = work[r].tried
        /\ work'[r].returned = work[r].returned
        /\ \A q \in Requests \ {r} : work'[q] = work[q]
    BY <1>1, <1>6, Gone
  <2>7. u # None /\ res'[r] = u BY <2>5, SettlesTenant, SettlesShape
  <2>8. Sound(r)' BY <1>1, <1>4, <1>6, <2>1, <2>2, <2>3, <2>4, <2>6, <2>7 DEF Sound
  <2>9. Cardinality(OnTime(r)) <= u.granted - u.released BY <1>1, <2>1, <2>4, StillPaid
  <2> QED BY <1>6, <2>5, <2>6, <2>8, <2>9, SettlesInv
<1> QED BY <1>3, <1>5, <1>6 DEF Consume

\* What is left over goes back, the units of leads whose consumption was lost included.
LEMMA ReleaseStep == ASSUME IInv, NEW r \in Requests, Release(r) PROVE IInv'
<1>1. Typed /\ Sound(r) /\ work[r].pc = "releasing" /\ res[r] # None /\ ~work[r].returned
  BY DEF IInv, Release, Sound
<1>2. /\ res[r] \in Reservations /\ res[r].granted \in Nat /\ res[r].consumed \in Nat
      /\ res[r].released \in Nat /\ res[r].consumed + res[r].released <= res[r].granted
      /\ Outstanding(res[r]) \in Nat /\ Created(r) \in Nat
      /\ Cardinality(OnTime(r)) \in Nat /\ Cardinality(OnTime(r)) <= Created(r)
  <2>1. /\ Cardinality(OnTime(r)) \in Nat /\ Cardinality(Linked(r)) \in Nat /\ Created(r) \in Nat
        /\ Cardinality(OnTime(r)) <= Cardinality(Linked(r)) /\ Cardinality(Linked(r)) <= Created(r)
    BY <1>1, Shapes, LeadsFinite
  <2> QED BY <1>1, <2>1, ReservationTyped
<1> DEFINE w == [work[r] EXCEPT !.pc = "done",
                   !.returned = res[r].status = "reserved" /\ Created(r) > res[r].consumed]
<1>3. /\ w \in WorkRecord /\ w.pc = "done" /\ w.tried = work[r].tried
      /\ w.returned <=> res[r].status = "reserved" /\ Created(r) > res[r].consumed
  <2>1. work[r] \in WorkRecord BY <1>1, Shapes
  <2> QED BY <2>1 DEF WorkRecord
<1>4. work' = [work EXCEPT ![r] = w] BY DEF Release
<1> HIDE DEF w
<1>5. /\ work' \in [Requests -> WorkRecord] /\ work'[r] = w
      /\ \A q \in Requests \ {r} : work'[q] = work[q]
  BY <1>1, <1>3, <1>4, Worked
<1>6. Created(r)' = Created(r) BY DEF Created, Release
<1>7. CASE ~(res[r].status = "reserved" /\ Outstanding(res[r]) > 0)
  <2>1. UNCHANGED <<tenant, res, leads, addon, faults>> BY <1>7 DEF Release
  <2>2. Sound(r)' BY <1>1, <1>3, <1>5, <1>6, <2>1 DEF Sound, Outstanding
  <2> QED BY <1>1, <1>5, <2>1, <2>2, StillPaid, WorkOnly
<1>8. CASE res[r].status = "reserved" /\ Outstanding(res[r]) > 0
  <2>1. PICK units \in Nat : units = Outstanding(res[r]) BY <1>2
  <2>2. PICK n \in Nat : n = res[r].released + units BY <1>2, <2>1
  <2> DEFINE v == [res[r] EXCEPT !.released = n]
             u == Settled(v)
  <2>3. res' = [res EXCEPT ![r] = u] /\ tenant' = Returned(tenant, r, units)
    BY <1>8, <2>1, <2>2 DEF Release
  <2>4. /\ v \in Reservations /\ v.granted = res[r].granted /\ v.period = res[r].period
        /\ v.released = n /\ v.status = "reserved" /\ v.late = res[r].late
        /\ v.consumed = res[r].consumed
    BY <1>2, <1>8 DEF Reservations
  <2> HIDE DEF v
  <2>5. v.consumed + v.released = v.granted BY <1>2, <2>1, <2>2, <2>4 DEF Outstanding
  <2>6. /\ u \in Reservations /\ u.granted = v.granted /\ u.period = v.period /\ u.late = v.late
        /\ u.consumed = v.consumed /\ u.released = v.released
        /\ u.status = "finalized" => u.consumed > 0
        /\ u.status = "released" => u.consumed = 0
        /\ u.status # "reserved" /\ Outstanding(u) = 0
    <3>1. v.consumed + v.released <= v.granted BY <1>2, <2>4, <2>5
    <3> QED BY <2>4, <2>5, <3>1, SettledFields
  <2> HIDE DEF u
  <2>7. Settles(r, u)
    <3>1. leads' = leads /\ addon' = addon BY DEF Release
    <3>2. /\ u.released >= res[r].released /\ u.consumed + u.released <= u.granted
          /\ u.released - res[r].released = units
      BY <1>2, <2>1, <2>2, <2>4, <2>5, <2>6
    <3> QED BY <1>1, <2>3, <2>4, <2>6, <3>1, <3>2 DEF Settles
  <2>8. u # None /\ res'[r] = u BY <2>7, SettlesTenant, SettlesShape
  <2>9. Sound(r)' BY <1>1, <1>3, <1>5, <1>6, <2>4, <2>6, <2>8 DEF Sound
  <2>10. work'[r].returned \/ Cardinality(OnTime(r)) <= u.granted - u.released
    BY <1>2, <1>3, <1>5, <1>8, <2>4, <2>5, <2>6
  <2>11. UNCHANGED faults BY DEF Release
  <2> QED BY <1>5, <2>7, <2>9, <2>10, <2>11, SettlesInv
<1> QED BY <1>7, <1>8

NewReservation(granted, p) ==
  [granted |-> granted, consumed |-> 0, released |-> 0, status |-> "reserved", late |-> FALSE, period |-> p]

\* A reservation is granted no more than the limit has left beside what is used: credits
\* used before, or leads that exist, locked ones included, and units not consumed.
LEMMA Grants ==
  ASSUME IInv, NEW r \in Requests, Reserve(r)
  PROVE  \E granted \in Nat \ {0} :
           /\ res' = [res EXCEPT ![r] = NewReservation(granted, Current(tenant))]
           /\ Current(tenant) # 0 /\ Limit(tenant, addon) \in Nat /\ Kept
           /\ IF tenant.model = "credits"
                THEN /\ tenant.periods[Current(tenant)].used + granted <= Limit(tenant, addon)
                     /\ tenant' = [tenant EXCEPT !.periods[Current(tenant)].used =
                                     tenant.periods[Current(tenant)].used + granted]
                ELSE /\ Cardinality(Existing) + SumFunction(ToConsume(Current(tenant))) + granted
                          <= Limit(tenant, addon)
                     /\ tenant' = [tenant EXCEPT !.cut = 0]
<1> DEFINE p == Current(tenant)
           limit == Limit(tenant, addon)
           reconciled == IF tenant.model = "capacity" THEN Reconciled(limit) ELSE leads
           used == CASE tenant.model = "credits" -> tenant.periods[p].used
                     [] tenant.model = "capacity" -> OpenIn(reconciled) + HeldUnits(p)
                     [] tenant.model = "pipeline" -> Cardinality(Existing) + HeldUnits(p)
           available == IF used < limit THEN limit - used ELSE 0
           granted == IF Wants[r] = 1 \/ Wants[r] <= available THEN Wants[r] ELSE available
<1>1. /\ p # 0 /\ available > 0 /\ leads' = reconciled
      /\ res' = [res EXCEPT ![r] = NewReservation(granted, p)]
      /\ tenant' = IF tenant.model = "credits" THEN [tenant EXCEPT !.periods[p].used = @ + granted]
                   ELSE [tenant EXCEPT !.cut = 0]
  BY Zenon DEF Reserve, NewReservation
<1>2. /\ Typed /\ tenant \in TenantRecord /\ leads \in Seq(LeadRecord)
      /\ Len(tenant.periods) >= 1 /\ tenant.model \in {"credits", "capacity", "pipeline"}
  <2>1. Typed BY DEF IInv
  <2>2. tenant \in TenantRecord /\ leads \in Seq(LeadRecord) /\ Len(tenant.periods) \in 1..MaxPeriods
    BY <2>1, Shapes
  <2>3. tenant.model \in {"credits", "capacity", "pipeline"}
    BY <2>2, TotalsAssumption DEF TenantRecord
  <2>4. Len(tenant.periods) >= 1 BY <2>2, BoundsAssumption
  <2> QED BY <2>1, <2>2, <2>3, <2>4
<1>3. limit \in Nat BY <1>2, LimitTyped
<1>4. Kept
  <2>1. leads' = leads \/ leads' = Reconciled(limit) BY <1>1
  <2> HIDE DEF limit
  <2> QED BY <1>2, <2>1, ReconciledKept
<1>5. HeldUnits(p) = SumFunction(ToConsume(p)) /\ SumFunction(ToConsume(p)) \in Nat
  BY <1>2, Reworded, SumsTyped
<1>6. Cardinality(Existing) \in Nat BY <1>2, LeadsFinite
<1>7. Wants[r] \in Nat \ {0} BY WantsAssumption
<1>8. used \in Nat /\ used < limit =>
        /\ granted \in Nat \ {0} /\ used + granted <= limit
  <2> SUFFICES ASSUME used \in Nat, used < limit
               PROVE  granted \in Nat \ {0} /\ used + granted <= limit
    OBVIOUS
  <2> HIDE DEF used, limit
  <2>1. available \in Nat \ {0} /\ used + available = limit BY <1>3
  <2> HIDE DEF available
  <2>2. granted \in Nat \ {0} /\ granted <= available BY <1>7, <2>1
  <2> HIDE DEF granted
  <2> QED BY <2>1, <2>2
<1>9. used < limit
  <2> HIDE DEF used, limit
  <2> QED BY <1>1
<1>10. CASE tenant.model = "credits"
  <2>1. used = tenant.periods[p].used BY <1>10
  <2>2. used \in Nat
    <3>1. p \in DOMAIN tenant.periods BY <1>1, <1>2, CurrentHolds
    <3> HIDE DEF p, used
    <3> QED BY <1>2, <2>1, <3>1, PeriodTyped
  <2>3. granted \in Nat \ {0} /\ used + granted <= limit BY <1>8, <1>9, <2>2
  <2> HIDE DEF p, used, limit, granted, available
  <2>4. tenant' = [tenant EXCEPT !.periods[p].used = tenant.periods[p].used + granted]
    BY <1>1, <1>10
  <2>5. tenant.periods[p].used + granted <= limit BY <2>1, <2>3
  <2>6. /\ granted \in Nat \ {0} /\ res' = [res EXCEPT ![r] = NewReservation(granted, p)]
        /\ p # 0 /\ limit \in Nat /\ Kept
    BY <1>1, <1>3, <1>4, <2>3
  <2>7. \E n \in Nat \ {0} :
          /\ res' = [res EXCEPT ![r] = NewReservation(n, p)] /\ p # 0 /\ limit \in Nat /\ Kept
          /\ tenant.periods[p].used + n <= limit
          /\ tenant' = [tenant EXCEPT !.periods[p].used = tenant.periods[p].used + n]
    BY <2>4, <2>5, <2>6
  <2> QED BY <1>10, <2>7 DEF p, limit
<1>11. CASE tenant.model # "credits"
  <2>1. used \in Nat /\ (used < limit => used = Cardinality(Existing) + SumFunction(ToConsume(p)))
    <3>1. CASE tenant.model = "pipeline"
      <4>1. used = Cardinality(Existing) + HeldUnits(p) BY <3>1
      <4> HIDE DEF used, p
      <4> QED BY <1>5, <1>6, <4>1
    <3>2. CASE tenant.model = "capacity"
      <4>1. used = OpenIn(Reconciled(limit)) + HeldUnits(p) /\ leads' = Reconciled(limit)
        BY <1>1, <3>2
      <4>2. OpenIn(leads') \in Nat
        <5>1. DOMAIN leads' = 1..Len(leads') /\ Len(leads') \in Nat BY <1>4, LenProperties DEF Kept
        <5>2. IsFiniteSet(1..Len(leads')) BY <5>1, FS_Interval
        <5>3. {n \in DOMAIN leads' : leads'[n].state = "open"} \subseteq 1..Len(leads') BY <5>1
        <5> QED BY <5>2, <5>3, FS_Subset, FS_CardinalityType DEF OpenIn
      <4> HIDE DEF used, p, limit
      <4>3. used \in Nat BY <1>5, <4>1, <4>2
      <4>4. ASSUME used < limit PROVE OpenIn(Reconciled(limit)) < limit
        BY <1>3, <1>5, <4>1, <4>2, <4>4
      <4>5. ASSUME used < limit PROVE Cardinality(Existing) = OpenIn(Reconciled(limit))
        BY <1>2, <1>3, <4>4, <4>5, OpenIsAll
      <4> QED BY <1>5, <4>1, <4>3, <4>5
    <3> QED BY <1>2, <1>11, <3>1, <3>2
  <2>2. granted \in Nat \ {0} /\ used + granted <= limit BY <1>8, <1>9, <2>1
  <2> HIDE DEF p, used, limit, granted, available
  <2>3. tenant' = [tenant EXCEPT !.cut = 0] BY <1>1, <1>11
  <2>4. Cardinality(Existing) + SumFunction(ToConsume(p)) + granted <= limit BY <1>9, <2>1, <2>2
  <2>5. \E n \in Nat \ {0} :
          /\ res' = [res EXCEPT ![r] = NewReservation(n, p)] /\ p # 0 /\ limit \in Nat /\ Kept
          /\ Cardinality(Existing) + SumFunction(ToConsume(p)) + n <= limit
          /\ tenant' = [tenant EXCEPT !.cut = 0]
    BY <1>1, <1>3, <1>4, <2>2, <2>3, <2>4
  <2> QED BY <1>11, <2>5 DEF p, limit
<1> QED BY <1>10, <1>11

\* What the types say of the tenant.
LEMMA TenantTyped ==
  ASSUME Typed
  PROVE  /\ tenant \in TenantRecord /\ tenant.model \in {"credits", "capacity", "pipeline"}
         /\ Len(tenant.periods) \in Nat /\ Len(tenant.periods) >= 1
         /\ Periods = 1..Len(tenant.periods) /\ Periods \subseteq 1..MaxPeriods
         /\ tenant.cut \in Nat /\ tenant.now \in Nat
         /\ \A p \in Periods : tenant.periods[p].used \in Nat /\ tenant.periods[p].slot \in Nat
         /\ Limit(tenant, addon) \in Nat /\ Ceiling(tenant, addon) \in Nat
         /\ Current(tenant) # 0 => /\ Current(tenant) \in Periods
                                   /\ tenant.periods[Current(tenant)].slot = tenant.now
<1>1. tenant \in TenantRecord /\ Len(tenant.periods) \in 1..MaxPeriods BY Shapes
<1>2. tenant.model \in {"credits", "capacity", "pipeline"} BY <1>1, TotalsAssumption DEF TenantRecord
<1>3. Len(tenant.periods) \in Nat /\ Len(tenant.periods) >= 1 BY <1>1, BoundsAssumption
<1>4. tenant.cut \in Nat /\ tenant.now \in Nat BY <1>1, BoundsAssumption DEF TenantRecord
<1>5. Periods = 1..Len(tenant.periods) BY <1>1, LenProperties DEF Periods, TenantRecord
<1>6. Periods \subseteq 1..MaxPeriods BY <1>1, <1>5, BoundsAssumption
<1>7. \A p \in Periods : tenant.periods[p].used \in Nat /\ tenant.periods[p].slot \in Nat
  BY <1>1, PeriodTyped DEF Periods
<1>8. Limit(tenant, addon) \in Nat /\ Ceiling(tenant, addon) \in Nat BY <1>1, <1>3, LimitTyped
<1> QED BY <1>1, <1>2, <1>3, <1>4, <1>5, <1>6, <1>7, <1>8, CurrentHolds DEF Periods

\* A step that sets what a period has used.
LEMMA UsedMoves ==
  ASSUME Typed, NEW p, p \in Periods, NEW d, d \in Nat, addon' = addon,
         tenant' = [tenant EXCEPT !.periods[p].used = d]
  PROVE  /\ tenant' \in TenantRecord /\ tenant'.model = tenant.model /\ tenant'.now = tenant.now
         /\ tenant'.cut = tenant.cut
         /\ Len(tenant'.periods) = Len(tenant.periods) /\ Periods' = Periods
         /\ Current(tenant') = Current(tenant)
         /\ Limit(tenant', addon') = Limit(tenant, addon)
         /\ Ceiling(tenant', addon') = Ceiling(tenant, addon)
         /\ \A i \in Periods :
              /\ tenant'.periods[i].slot = tenant.periods[i].slot
              /\ tenant'.periods[i].used = IF i = p THEN d ELSE tenant.periods[i].used
<1>1. tenant \in TenantRecord /\ Len(tenant.periods) >= 1 /\ Len(tenant.periods) \in Nat
  BY TenantTyped
<1>2. p \in DOMAIN tenant.periods /\ d \in Nat BY DEF Periods
<1>3. /\ tenant' \in TenantRecord /\ tenant'.model = tenant.model /\ tenant'.now = tenant.now
      /\ tenant'.cut = tenant.cut
      /\ Len(tenant'.periods) = Len(tenant.periods) /\ DOMAIN tenant'.periods = DOMAIN tenant.periods
      /\ tenant'.periods[p].used = d
      /\ \A i \in DOMAIN tenant.periods :
            /\ tenant'.periods[i].slot = tenant.periods[i].slot
            /\ i # p => tenant'.periods[i].used = tenant.periods[i].used
  BY <1>1, <1>2, UsedSet
<1>4. /\ Current(tenant') = Current(tenant) /\ Limit(tenant', addon) = Limit(tenant, addon)
      /\ Ceiling(tenant', addon) = Ceiling(tenant, addon)
  <2>1. \A u, a : u = [tenant EXCEPT !.periods[p].used = d] =>
          Current(u) = Current(tenant) /\ Limit(u, a) = Limit(tenant, a) /\ Ceiling(u, a) = Ceiling(tenant, a)
    BY <1>1, <1>2, UsedLimit
  <2> QED BY <2>1
<1> QED BY <1>3, <1>4 DEF Periods

\* A new reservation takes what it is granted from the period or the room under way.
LEMMA ReserveStep == ASSUME IInv, NEW r \in Requests, Reserve(r) PROVE IInv'
<1>1. PICK p : p = Current(tenant) OBVIOUS
<1>2. PICK granted \in Nat \ {0} :
        /\ res' = [res EXCEPT ![r] = NewReservation(granted, p)]
        /\ p # 0 /\ Limit(tenant, addon) \in Nat /\ Kept
        /\ IF tenant.model = "credits"
             THEN /\ tenant.periods[p].used + granted <= Limit(tenant, addon)
                  /\ tenant' = [tenant EXCEPT !.periods[p].used = tenant.periods[p].used + granted]
             ELSE /\ Cardinality(Existing) + SumFunction(ToConsume(p)) + granted
                       <= Limit(tenant, addon)
                  /\ tenant' = [tenant EXCEPT !.cut = 0]
  BY <1>1, Grants
<1>3. /\ Typed /\ Sound(r) /\ FutureUntouched /\ Balanced /\ WithinAllowance
      /\ work[r].pc = "idle" /\ res[r] = None /\ work[r].tried = 0 /\ ~work[r].returned
      /\ addon' = addon /\ faults' = faults
  BY Reworded DEF IInv, Reserve, Sound
<1>4. /\ tenant \in TenantRecord /\ Len(tenant.periods) >= 1 /\ Len(tenant.periods) \in Nat
      /\ Periods \subseteq 1..MaxPeriods
      /\ tenant.cut \in Nat /\ tenant.now \in Nat
      /\ p \in Periods /\ tenant.periods[p].slot = tenant.now /\ p \in 1..MaxPeriods
      /\ \A i \in Periods : tenant.periods[i].used \in Nat /\ tenant.periods[i].slot \in Nat
      /\ Ceiling(tenant, addon) \in Nat
  BY <1>1, <1>2, <1>3, TenantTyped
<1> DEFINE v == NewReservation(granted, p)
<1>5. /\ v \in Reservations /\ v # None /\ v.granted = granted /\ v.period = p /\ v.consumed = 0
      /\ v.released = 0 /\ v.status = "reserved" /\ ~v.late
  <2>1. granted \in Nat \ {0} /\ p \in 1..MaxPeriods BY <1>2, <1>4
  <2>2. /\ v.granted = granted /\ v.period = p /\ v.consumed = 0
        /\ v.released = 0 /\ v.status = "reserved" /\ v.late = FALSE
    BY DEF NewReservation
  <2>3. v \in Reservations BY <2>1 DEF NewReservation, Reservations
  <2> HIDE DEF v
  <2> QED BY <2>2, <2>3, NoneAssumption
<1> HIDE DEF v
<1>6. /\ res' \in [Requests -> Reservations \cup {None}] /\ res'[r] = v
      /\ \A q \in Requests \ {r} : res'[q] = res[q]
  BY <1>2, <1>3, <1>5, Shapes DEF v
<1>7. /\ work' \in [Requests -> WorkRecord]
      /\ work'[r].pc = "making" /\ work'[r].tried = work[r].tried /\ work'[r].returned = work[r].returned
      /\ \A q \in Requests \ {r} : work'[q] = work[q]
  BY <1>3, Gone DEF Reserve
<1>8. /\ tenant' \in TenantRecord /\ tenant'.model = tenant.model /\ tenant'.now = tenant.now
      /\ Len(tenant'.periods) = Len(tenant.periods) /\ Periods' = Periods
      /\ Current(tenant') = p /\ Limit(tenant', addon') = Limit(tenant, addon)
      /\ Ceiling(tenant', addon') = Ceiling(tenant, addon)
      /\ tenant'.cut = IF tenant.model = "credits" THEN tenant.cut ELSE 0
      /\ \A i \in Periods :
           /\ tenant'.periods[i].slot = tenant.periods[i].slot
           /\ tenant'.periods[i].used =
                IF tenant.model = "credits" /\ i = p THEN tenant.periods[p].used + granted
                ELSE tenant.periods[i].used
  <2>0. tenant \in TenantRecord /\ Len(tenant.periods) >= 1 /\ Len(tenant.periods) \in Nat BY <1>4
  <2>1. CASE tenant.model = "credits"
    <3> DEFINE d == tenant.periods[p].used + granted
    <3>1. /\ d \in Nat /\ p \in Periods /\ tenant' = [tenant EXCEPT !.periods[p].used = d]
          /\ addon' = addon
      BY <1>2, <1>3, <1>4, <2>1
    <3> HIDE DEF d
    <3>2. /\ tenant' \in TenantRecord /\ tenant'.model = tenant.model /\ tenant'.now = tenant.now
          /\ tenant'.cut = tenant.cut
          /\ Len(tenant'.periods) = Len(tenant.periods) /\ Periods' = Periods
          /\ Current(tenant') = Current(tenant)
          /\ Limit(tenant', addon') = Limit(tenant, addon)
          /\ Ceiling(tenant', addon') = Ceiling(tenant, addon)
          /\ \A i \in Periods :
               /\ tenant'.periods[i].slot = tenant.periods[i].slot
               /\ tenant'.periods[i].used = IF i = p THEN d ELSE tenant.periods[i].used
      BY <1>3, <3>1, UsedMoves
    <3> QED BY <1>1, <2>1, <3>2 DEF d
  <2>2. CASE tenant.model # "credits"
    <3>1. tenant' = [tenant EXCEPT !.cut = 0] BY <1>2, <2>2
    <3>2. \A u, a : u = [tenant EXCEPT !.cut = 0] =>
            /\ u \in TenantRecord /\ u.model = tenant.model /\ u.now = tenant.now /\ u.cut = 0
            /\ u.periods = tenant.periods
            /\ Current(u) = Current(tenant) /\ Limit(u, a) = Limit(tenant, a)
            /\ Ceiling(u, a) = Ceiling(tenant, a)
      BY <1>4, CutSet
    <3> QED BY <1>1, <1>3, <2>2, <3>1, <3>2 DEF Periods
  <2> QED BY <2>1, <2>2
<1>9. /\ Existing' = Existing
      /\ \A q : Created(q)' = Created(q) /\ OnTime(q)' = OnTime(q)
  BY <1>2, KeptCounts
<1>10. Created(r) = 0 /\ Cardinality(OnTime(r)) = 0
  <2>1. /\ Created(r) \in Nat /\ Cardinality(OnTime(r)) \in Nat /\ Cardinality(Linked(r)) \in Nat
        /\ Cardinality(OnTime(r)) <= Cardinality(Linked(r)) /\ Cardinality(Linked(r)) <= Created(r)
    BY <1>3, Shapes, LeadsFinite
  <2>2. Created(r) <= 0 BY <1>3 DEF Sound
  <2> QED BY <2>1, <2>2
<1>11. Typed'
  <2>1. ASSUME NEW q \in Requests, res'[q] # None
        PROVE  /\ res'[q].consumed + res'[q].released <= res'[q].granted
               /\ res'[q].status = "finalized" => res'[q].consumed > 0
               /\ res'[q].status = "released" => res'[q].consumed = 0
               /\ res'[q].period \in Periods'
    <3>1. CASE q = r BY <1>4, <1>5, <1>6, <1>8, <3>1
    <3>2. CASE q # r BY <1>3, <1>6, <1>8, <2>1, <3>2 DEF Typed, TypeOK
    <3> QED BY <3>1, <3>2
  <2>2. /\ leads' \in Seq(LeadRecord) /\ Len(leads') <= MaxLeads /\ faults' \in 0..MaxFaults
        /\ Len(tenant'.periods) \in 1..MaxPeriods
    BY <1>2, <1>3, <1>8 DEF Kept, Typed, TypeOK
  <2>3. TypeOK'
    BY <1>6, <1>7, <1>8, <2>1, <2>2
      DEF TypeOK, TenantRecord, PeriodRecord, WorkRecord, LeadRecord
  <2> QED BY <2>1, <2>2, <2>3 DEF Typed
<1>12. ASSUME NEW q \in Requests PROVE Sound(q)'
  <2>1. CASE q = r BY <1>3, <1>5, <1>6, <1>7, <1>9, <1>10, <2>1 DEF Sound
  <2>2. CASE q # r BY <1>6, <1>7, <1>9, <2>2, OthersSound DEF IInv
  <2> QED BY <2>1, <2>2
<1>13. FutureUntouched'
  <2> SUFFICES ASSUME NEW i \in Periods', tenant'.periods[i].slot > tenant'.now PROVE Untouched(i)'
    BY DEF FutureUntouched
  <2>1. i \in Periods /\ tenant.periods[i].slot > tenant.now BY <1>8
  <2>2. Untouched(i) BY <1>3, <2>1 DEF FutureUntouched
  <2>3. i # p BY <1>4, <2>1
  <2>4. tenant'.periods[i].used = 0 BY <1>8, <2>1, <2>2, <2>3 DEF Untouched
  <2>5. \A q \in Requests : res'[q] # None => res'[q].period # i
    BY <1>5, <1>6, <2>2, <2>3 DEF Untouched
  <2> QED BY <2>4, <2>5 DEF Untouched
<1>14. Balanced'
  <2> SUFFICES ASSUME tenant'.model = "credits", NEW i \in Periods'
               PROVE  tenant'.periods[i].used = SumFunction(Unreturned(i)')
    BY DEF Balanced
  <2> DEFINE f == Unreturned(i)'
             g == Unreturned(i)
             S == Holders(i)'
             T == Holders(i)
  <2>1. tenant.model = "credits" /\ i \in Periods BY <1>8
  <2>2. tenant.periods[i].used = SumFunction(g) BY <1>3, <2>1 DEF Balanced
  <2>3. f = [q \in S |-> res'[q].granted - res'[q].released]
        /\ g = [q \in T |-> res[q].granted - res[q].released]
    BY DEF Unreturned
  <2>4. g \in [T -> Nat] /\ IsFiniteSet(T) /\ SumFunction(g) \in Nat BY <1>3, SumsTyped
  <2>5. S \ {r} = T /\ r \notin T BY <1>3, <1>6 DEF Holders
  <2>6. \A q \in T : q \in Requests \ {r} BY <1>3 DEF Holders
  <2>7. CASE i # p
    <3>1. S = T BY <1>5, <1>6, <2>5, <2>7 DEF Holders
    <3>2. f = g BY <1>6, <2>3, <2>6, <3>1
    <3> QED BY <1>8, <2>1, <2>2, <2>7, <3>2
  <2>8. CASE i = p
    <3>1. r \in S /\ f[r] = granted BY <1>5, <1>6, <2>3, <2>8 DEF Holders
    <3>2. \A q \in T : f[q] = g[q] BY <1>6, <2>3, <2>5, <2>6
    <3> HIDE DEF S, T, g
    <3>3. f \in [S -> Nat]
      <4>1. \A q \in S : f[q] \in Nat BY <2>4, <2>5, <3>1, <3>2
      <4>2. f = [q \in S |-> f[q]] BY <2>3
      <4> HIDE DEF f
      <4> QED BY <4>1, <4>2
    <3> HIDE DEF f
    <3>4. IsFiniteSet(S)
      <4>1. S = T \cup {r} BY <2>5, <3>1
      <4> QED BY <2>4, <4>1, FS_AddElement
    <3>5. SumFunction(f) = f[r] + SumFunction(g)
      <4>1. g \in [S \ {r} -> Nat] /\ \A q \in S \ {r} : g[q] = f[q] BY <2>4, <2>5, <3>2
      <4> QED BY <3>1, <3>3, <3>4, <4>1, TotalWith
    <3>6. tenant'.periods[i].used = tenant.periods[i].used + granted BY <1>8, <2>1, <2>8
    <3>7. tenant'.periods[i].used = SumFunction(f) BY <2>2, <2>4, <3>1, <3>5, <3>6
    <3> QED BY <3>7 DEF f
  <2> QED BY <2>7, <2>8
<1>15. WithinAllowance'
  <2>1. CASE tenant.model = "credits"
    <3>1. tenant'.periods[p].used <= Limit(tenant, addon)' + tenant'.cut
      BY <1>2, <1>4, <1>8, <2>1
    <3> QED BY <1>8, <2>1, <3>1 DEF WithinAllowance
  <2>2. CASE tenant.model # "credits"
    <3> DEFINE f == ToMake(p)'
               g == ToMake(p)
               h == ToConsume(p)
               S == Held(p)'
               T == Held(p)
    <3>1. S = T \cup {r} /\ r \notin T
      BY <1>3, <1>5, <1>6 DEF Held, Reserved, Covered
    <3>2. \A q \in T : q \in Requests \ {r} /\ res[q] # None BY <1>3 DEF Held, Reserved
    <3>3. /\ g \in [T -> Nat] /\ h \in [T -> Nat] /\ IsFiniteSet(T)
          /\ SumFunction(g) \in Nat /\ SumFunction(h) \in Nat
      BY <1>3, SumsTyped
    <3>4. \A q \in T : g[q] <= h[q]
      <4> SUFFICES ASSUME NEW q \in T PROVE Unused(q) <= Outstanding(res[q])
        BY DEF ToMake, ToConsume
      <4>1. /\ res[q].granted \in Nat /\ res[q].consumed \in Nat /\ res[q].released \in Nat
            /\ res[q].consumed + res[q].released <= res[q].granted /\ Created(q) \in Nat
        BY <1>3, <3>2, ReservationTyped, Shapes, LeadsFinite
      <4>2. res[q].consumed <= Created(q) BY <3>2 DEF IInv, Sound
      <4> QED BY <4>1, <4>2 DEF Unused, Outstanding
    <3>5. SumFunction(g) <= SumFunction(h)
      <4>1. T \subseteq T OBVIOUS
      <4> HIDE DEF T, g, h
      <4> QED BY <3>3, <3>4, <4>1, TotalGrows
    <3>6. f = [q \in S |-> Unused(q)'] BY <1>8 DEF ToMake
    <3>7. \A q \in T : f[q] = g[q]
      <4> SUFFICES ASSUME NEW q \in T PROVE Unused(q)' = Unused(q)
        BY <3>1, <3>6 DEF ToMake
      <4> QED BY <1>6, <1>9, <3>2 DEF Unused
    <3>8. f[r] = granted BY <1>5, <1>6, <1>9, <1>10, <3>1, <3>6 DEF Unused
    <3> HIDE DEF S, T, g, h
    <3>9. f \in [S -> Nat]
      <4>1. \A q \in S : f[q] \in Nat BY <3>1, <3>3, <3>7, <3>8
      <4>2. f = [q \in S |-> f[q]] BY <3>6
      <4> HIDE DEF f
      <4> QED BY <4>1, <4>2
    <3> HIDE DEF f
    <3>10. IsFiniteSet(S) BY <3>1, <3>3, FS_AddElement
    <3>11. SumFunction(f) = f[r] + SumFunction(g)
      <4>1. r \in S /\ S \ {r} = T BY <3>1
      <4>2. g \in [S \ {r} -> Nat] /\ \A q \in S \ {r} : g[q] = f[q] BY <3>3, <3>7, <4>1
      <4> QED BY <3>9, <3>10, <4>1, <4>2, TotalWith
    <3>12. Ceiling(tenant, addon) = Limit(tenant, addon)
      BY <1>1, <1>2 DEF Ceiling, ReadLimit
    <3>13. Cardinality(Existing) \in Nat BY <1>3, Shapes, LeadsFinite
    <3>14. Cardinality(Existing) + SumFunction(f) <= Limit(tenant, addon)
      <4>1. Cardinality(Existing) + SumFunction(h) + granted <= Limit(tenant, addon)
        BY <1>2, <2>2 DEF h
      <4> QED BY <1>2, <3>3, <3>5, <3>8, <3>11, <3>13, <4>1
    <3>15. Cardinality(Existing') + SumFunction(f) <= Ceiling(tenant, addon)' + tenant'.cut
      <4>1. Ceiling(tenant, addon)' = Limit(tenant, addon) /\ tenant'.cut = 0 BY <1>8, <2>2, <3>12
      <4> QED BY <1>2, <1>9, <3>14, <4>1
    <3>16. f = [q \in Held(Current(tenant))' |-> Unused(q)'] BY <1>8, <3>6 DEF S
    <3> QED BY <1>8, <2>2, <3>15, <3>16 DEF WithinAllowance
  <2> QED BY <2>1, <2>2
<1>16. LeadsArePaidFor'
  <2>1. \A q \in Requests : res'[q] # None /\ ~work'[q].returned =>
          Cardinality(OnTime(q)) <= res'[q].granted - res'[q].released
    <3> SUFFICES ASSUME NEW q \in Requests, res'[q] # None, ~work'[q].returned
                 PROVE  Cardinality(OnTime(q)) <= res'[q].granted - res'[q].released
      OBVIOUS
    <3>1. CASE q = r BY <1>5, <1>6, <1>10, <3>1
    <3>2. CASE q # r BY <1>6, <1>7, <3>2, StillPaid
    <3> QED BY <3>1, <3>2
  <2>2. \A q \in Requests : {n \in Linked(q) : ~leads[n].late}' = OnTime(q)
    BY <1>9 DEF OnTime
  <2> QED BY <2>1, <2>2 DEF LeadsArePaidFor
<1>17. LedgerBalances' BY <1>14, <1>16 DEF LedgerBalances, Balanced, Unreturned, Holders
<1> QED BY <1>11, <1>12, <1>13, <1>15, <1>17 DEF IInv

\* A lead uses the room its reservation keeps; one without such room was cut.
LEMMA CreateLeadStep == ASSUME IInv, NEW r \in Requests, CreateLead(r) PROVE IInv'
<1>1. /\ Typed /\ Sound(r) /\ FutureUntouched /\ Balanced /\ WithinAllowance
      /\ work[r].pc = "making" /\ res[r] # None /\ ~work[r].returned
      /\ work[r].tried < res[r].granted /\ Len(leads) < MaxLeads
      /\ res' = res /\ addon' = addon /\ faults' = faults
  BY Reworded DEF IInv, CreateLead, MoreRows, Sound
<1>2. /\ res[r] \in Reservations /\ res[r].granted \in Nat /\ res[r].consumed \in Nat
      /\ res[r].released \in Nat /\ res[r].consumed + res[r].released <= res[r].granted
      /\ res[r].late \in BOOLEAN
  <2>1. res[r] \in Reservations BY <1>1, ReservationTyped
  <2>2. res[r].late \in BOOLEAN BY <2>1 DEF Reservations
  <2> QED BY <1>1, <2>2, ReservationTyped
<1>3. /\ Created(r) \in Nat /\ Cardinality(Existing) \in Nat
      /\ Cardinality(OnTime(r)) \in Nat /\ Cardinality(OnTime(r)) <= Created(r)
      /\ work[r].tried \in Nat /\ Created(r) <= work[r].tried
      /\ res[r].consumed <= Created(r) /\ (~res[r].late => res[r].released = 0)
  <2>1. /\ Cardinality(OnTime(r)) \in Nat /\ Cardinality(Linked(r)) \in Nat /\ Created(r) \in Nat
        /\ Cardinality(OnTime(r)) <= Cardinality(Linked(r)) /\ Cardinality(Linked(r)) <= Created(r)
        /\ Cardinality(Existing) \in Nat
    BY <1>1, Shapes, LeadsFinite
  <2>2. work[r].tried \in Nat BY <1>1, Shapes DEF WorkRecord
  <2>3. Created(r) <= work[r].tried /\ res[r].consumed <= Created(r) /\ (~res[r].late => res[r].released = 0)
    BY <1>1 DEF Sound
  <2> QED BY <2>1, <2>2, <2>3
<1>4. /\ leads' \in Seq(LeadRecord) /\ Len(leads') = Len(leads) + 1
      /\ Cardinality(Existing') = Cardinality(Existing) + 1
      /\ Created(r)' = Created(r) + 1
      /\ IF res[r].late THEN OnTime(r)' = OnTime(r)
         ELSE Cardinality(OnTime(r)') = Cardinality(OnTime(r)) + 1
      /\ \A q \in Requests \ {r} : Created(q)' = Created(q) /\ OnTime(q)' = OnTime(q)
  <2>1. leads \in Seq(LeadRecord) BY <1>1, Shapes
  <2>2. leads' = Append(leads, [by |-> r, state |-> "open", late |-> res[r].late]) BY DEF CreateLead
  <2> QED BY <1>2, <2>1, <2>2, LeadAdded
<1> DEFINE w == [work[r] EXCEPT !.pc = "made", !.tried = work[r].tried + 1]
<1>5. w \in WorkRecord /\ w.pc = "made" /\ w.tried = work[r].tried + 1 /\ w.returned = work[r].returned
  <2>1. PICK n \in Nat : n = work[r].tried + 1 BY <1>3
  <2>2. w = [work[r] EXCEPT !.pc = "made", !.tried = n] BY <2>1
  <2>3. work[r] \in WorkRecord BY <1>1, Shapes
  <2> HIDE DEF w
  <2>4. w \in WorkRecord /\ w.pc = "made" /\ w.tried = n /\ w.returned = work[r].returned
    BY <2>2, <2>3 DEF WorkRecord
  <2> QED BY <2>1, <2>4
<1>6. work' = [work EXCEPT ![r] = w] BY DEF CreateLead
<1> HIDE DEF w
<1>7. /\ work' \in [Requests -> WorkRecord] /\ work'[r] = w
      /\ \A q \in Requests \ {r} : work'[q] = work[q]
  BY <1>1, <1>5, <1>6, Worked
<1>8. PICK p : p = Current(tenant) OBVIOUS
<1>9. /\ tenant \in TenantRecord /\ Len(tenant.periods) \in Nat /\ Len(tenant.periods) >= 1
      /\ tenant.cut \in Nat /\ Ceiling(tenant, addon) \in Nat
  BY <1>1, TenantTyped
<1>10. /\ tenant' \in TenantRecord /\ tenant'.model = tenant.model /\ tenant'.now = tenant.now
       /\ tenant'.periods = tenant.periods /\ Periods' = Periods
       /\ Current(tenant') = p /\ Limit(tenant', addon') = Limit(tenant, addon)
       /\ Ceiling(tenant', addon') = Ceiling(tenant, addon)
       /\ tenant'.cut = IF tenant.model = "credits" \/ Covered(res[r], p) THEN tenant.cut ELSE tenant.cut + 1
  <2>1. CASE tenant.model = "credits" \/ Covered(res[r], p)
    <3>1. tenant' = tenant BY <1>8, <2>1 DEF CreateLead
    <3> QED BY <1>1, <1>8, <1>9, <2>1, <3>1 DEF Periods
  <2>2. CASE ~(tenant.model = "credits" \/ Covered(res[r], p))
    <3> DEFINE c == tenant.cut + 1
    <3>1. tenant' = [tenant EXCEPT !.cut = c] /\ c \in Nat BY <1>8, <1>9, <2>2 DEF CreateLead
    <3> HIDE DEF c
    <3>2. \A u, a : u = [tenant EXCEPT !.cut = c] =>
            /\ u \in TenantRecord /\ u.model = tenant.model /\ u.now = tenant.now /\ u.cut = c
            /\ u.periods = tenant.periods
            /\ Current(u) = Current(tenant) /\ Limit(u, a) = Limit(tenant, a)
            /\ Ceiling(u, a) = Ceiling(tenant, a)
      BY <1>9, <3>1, CutSet
    <3> QED BY <1>1, <1>8, <2>2, <3>1, <3>2 DEF Periods, c
  <2> QED BY <2>1, <2>2
<1>11. Typed'
  <2>1. Len(leads') <= MaxLeads /\ faults' \in 0..MaxFaults
    <3>1. Len(leads) \in Nat /\ MaxLeads \in Nat BY <1>1, Shapes, LeadsFinite, BoundsAssumption
    <3> QED BY <1>1, <1>4, <3>1 DEF Typed, TypeOK
  <2> QED BY <1>1, <1>4, <1>7, <1>10, <2>1
        DEF Typed, TypeOK, TenantRecord, PeriodRecord, WorkRecord, LeadRecord
<1>12. ASSUME NEW q \in Requests PROVE Sound(q)'
  <2>1. CASE q = r
    <3>1. /\ Created(r)' <= w.tried /\ w.tried <= res[r].granted
          /\ res[r].consumed <= Created(r)' /\ res[r].consumed < Created(r)'
      <4>1. work[r].tried < res[r].granted BY <1>1
      <4> QED BY <1>2, <1>3, <1>4, <1>5, <4>1
    <3>2. /\ res[r].status = "reserved" => res[r].released = 0
          /\ ~res[r].late => res[r].released = 0
          /\ res[r].status # "reserved" /\ ~res[r].late => Outstanding(res[r]) = 0
      BY <1>1, <1>3 DEF Sound
    <3> QED BY <1>1, <1>5, <1>7, <2>1, <3>1, <3>2 DEF Sound
  <2>2. CASE q # r BY <1>1, <1>4, <1>7, <2>2, OthersSound DEF IInv
  <2> QED BY <2>1, <2>2
<1>13. FutureUntouched' BY <1>1, <1>10 DEF FutureUntouched, Untouched
<1>14. Balanced' BY <1>1, <1>10 DEF Balanced, Unreturned, Holders
<1>15. WithinAllowance'
  <2>1. CASE tenant.model = "credits"
    <3>1. p # 0 => tenant.periods[p].used <= Limit(tenant, addon) + tenant.cut
      BY <1>1, <1>8, <2>1 DEF WithinAllowance
    <3> QED BY <1>10, <2>1, <3>1 DEF WithinAllowance
  <2>2. CASE tenant.model # "credits"
    <3> DEFINE f == ToMake(p)'
               g == ToMake(p)
               T == Held(p)
    <3>1. Held(p)' = T BY <1>1 DEF Held, Reserved, Covered
    <3>2. \A q \in T : q \in Requests /\ res[q] # None BY DEF Held, Reserved
    <3>3. g \in [T -> Nat] /\ IsFiniteSet(T) /\ SumFunction(g) \in Nat BY <1>1, SumsTyped
    <3>4. f = [q \in T |-> Unused(q)'] BY <3>1 DEF ToMake
    <3>5. \A q \in T \ {r} : f[q] = g[q]
      <4> SUFFICES ASSUME NEW q \in T \ {r} PROVE Unused(q)' = Unused(q)
        BY <3>4 DEF ToMake
      <4> QED BY <1>1, <1>4, <3>2 DEF Unused
    <3>6. Cardinality(Existing) + SumFunction(g) <= Ceiling(tenant, addon) + tenant.cut
      BY <1>1, <1>8, <2>2, Reworded
    <3>7. CASE Covered(res[r], p)
      <4>1. ~res[r].late /\ res[r].released = 0 BY <1>3, <3>7 DEF Covered
      <4>2. res[r].status = "reserved"
        <5>1. res[r].status # "reserved" => Outstanding(res[r]) = 0 BY <1>1, <4>1 DEF Sound
        <5>2. Outstanding(res[r]) # 0
          <6>1. work[r].tried < res[r].granted BY <1>1
          <6> QED BY <1>2, <1>3, <4>1, <6>1 DEF Outstanding
        <5> QED BY <5>1, <5>2
      <4>3. r \in T BY <1>1, <3>7, <4>2 DEF Held, Reserved
      <4>4. g[r] = res[r].granted - Created(r) /\ f[r] = res[r].granted - Created(r) - 1
        <5>1. g[r] = Unused(r) /\ f[r] = Unused(r)' BY <3>4, <4>3 DEF ToMake
        <5>2. Unused(r) = res[r].granted - Created(r) BY <1>1, <1>2, <1>3, <4>1 DEF Unused
        <5>3. Unused(r)' = res[r].granted - Created(r) - 1
          BY <1>1, <1>2, <1>3, <1>4, <4>1 DEF Unused
        <5> QED BY <5>1, <5>2, <5>3
      <4>5. f[r] \in Nat /\ g[r] \in Nat BY <1>1, <1>2, <1>3, <4>4
      <4>6. f \in [T -> Nat]
        <5> HIDE DEF T, g
        <5>1. \A q \in T : f[q] \in Nat BY <3>3, <3>5, <4>5
        <5>2. f = [q \in T |-> f[q]] BY <3>4
        <5> HIDE DEF f
        <5> QED BY <5>1, <5>2
      <4> HIDE DEF T, g, f
      <4>7. SumFunction(f) = SumFunction(g) - g[r] + f[r] /\ g[r] <= SumFunction(g)
        BY <3>3, <3>5, <4>3, <4>6, TotalChanged
      <4>8. Cardinality(Existing') + SumFunction(f) <= Ceiling(tenant, addon)' + tenant'.cut
        <5>1. Ceiling(tenant, addon)' = Ceiling(tenant, addon) /\ tenant'.cut = tenant.cut
          BY <1>10, <3>7
        <5>2. SumFunction(f) = SumFunction(g) - 1 BY <1>2, <1>3, <3>3, <4>4, <4>7
        <5> QED BY <1>3, <1>4, <1>9, <3>3, <3>6, <5>1, <5>2
      <4>9. f = [q \in Held(Current(tenant))' |-> Unused(q)'] BY <1>10, <3>1, <3>4 DEF T
      <4> QED BY <1>10, <2>2, <4>8, <4>9 DEF WithinAllowance
    <3>8. CASE ~Covered(res[r], p)
      <4>1. r \notin T BY <3>8 DEF Held
      <4>2. f = g BY <3>3, <3>4, <3>5, <4>1
      <4> HIDE DEF T, g, f
      <4>3. Cardinality(Existing') + SumFunction(f) <= Ceiling(tenant, addon)' + tenant'.cut
        <5>1. Ceiling(tenant, addon)' = Ceiling(tenant, addon) /\ tenant'.cut = tenant.cut + 1
          BY <1>10, <2>2, <3>8
        <5> QED BY <1>3, <1>4, <1>9, <3>3, <3>6, <4>2, <5>1
      <4>4. f = [q \in Held(Current(tenant))' |-> Unused(q)'] BY <1>10, <3>1, <3>4 DEF T
      <4> QED BY <1>10, <2>2, <4>3, <4>4 DEF WithinAllowance
    <3> QED BY <3>7, <3>8
  <2> QED BY <2>1, <2>2
<1>16. LeadsArePaidFor'
  <2>1. \A q \in Requests : res'[q] # None /\ ~work'[q].returned =>
          Cardinality(OnTime(q)') <= res'[q].granted - res'[q].released
    <3> SUFFICES ASSUME NEW q \in Requests, res'[q] # None, ~work'[q].returned
                 PROVE  Cardinality(OnTime(q)') <= res'[q].granted - res'[q].released
      OBVIOUS
    <3>1. CASE q = r
      <4>1. CASE res[r].late BY <1>1, <1>4, <3>1, <4>1, StillPaid
      <4>2. CASE ~res[r].late BY <1>1, <1>2, <1>3, <1>4, <3>1, <4>2
      <4> QED BY <4>1, <4>2
    <3>2. CASE q # r BY <1>1, <1>4, <1>7, <3>2, StillPaid
    <3> QED BY <3>1, <3>2
  <2>2. \A q \in Requests : {n \in Linked(q) : ~leads[n].late}' = OnTime(q)'
    BY DEF OnTime
  <2> QED BY <2>1, <2>2 DEF LeadsArePaidFor
<1>17. LedgerBalances' BY <1>14, <1>16 DEF LedgerBalances, Balanced, Unreturned, Holders
<1> QED BY <1>11, <1>12, <1>13, <1>15, <1>17 DEF IInv

-----------------------------------------------------------------------------
(* What happens to leads that exist.                                       *)

\* Fewer leads and no new ones leave the invariant as it is.
LEMMA LeadsMove ==
  ASSUME IInv, UNCHANGED <<tenant, res, work, addon, faults>>,
         leads' \in Seq(LeadRecord), Len(leads') = Len(leads),
         \A q \in Requests : Created(q)' = Created(q),
         \A q \in Requests : OnTime(q)' \subseteq OnTime(q),
         Existing' \subseteq Existing
  PROVE  IInv'
<1>1. Typed /\ WithinAllowance /\ leads \in Seq(LeadRecord) BY Shapes DEF IInv
<1>2. Typed' BY <1>1 DEF Typed, TypeOK, LeadRecord, Periods
<1>3. \A q \in Requests : Sound(q)' BY OthersSound DEF IInv
<1>4. FutureUntouched' /\ Balanced'
  <2>1. FutureUntouched /\ Balanced BY Reworded DEF IInv
  <2>2. FutureUntouched' BY <2>1 DEF FutureUntouched, Untouched, Periods
  <2>3. Balanced' BY <2>1 DEF Balanced, Unreturned, Holders, Periods
  <2> QED BY <2>2, <2>3
<1>5. Cardinality(Existing') <= Cardinality(Existing) /\ Cardinality(Existing') \in Nat
      /\ Cardinality(Existing) \in Nat
  <2>1. IsFiniteSet(Existing) /\ Cardinality(Existing) \in Nat BY <1>1, LeadsFinite
  <2>2. IsFiniteSet(Existing') /\ Cardinality(Existing') <= Cardinality(Existing) BY <2>1, FS_Subset
  <2>3. Cardinality(Existing') \in Nat BY <2>2, FS_CardinalityType
  <2> QED BY <2>1, <2>2, <2>3
<1>6. WithinAllowance'
  <2> DEFINE f == ToMake(Current(tenant))
  <2>1. f' = f
    <3>1. Current(tenant)' = Current(tenant) BY DEF Current, Active
    <3>2. Held(Current(tenant))' = Held(Current(tenant)) BY <3>1 DEF Held, Reserved, Covered
    <3>3. \A q \in Held(Current(tenant)) : Unused(q)' = Unused(q) BY DEF Unused, Held, Reserved
    <3> QED BY <3>1, <3>2, <3>3 DEF ToMake
  <2>2. /\ Current(tenant)' = Current(tenant) /\ Limit(tenant, addon)' = Limit(tenant, addon)
        /\ Ceiling(tenant, addon)' = Ceiling(tenant, addon)
    BY DEF Current, Active, Limit, Ceiling, ReadLimit, Recurring
  <2>3. CASE tenant.model = "credits"
    BY <1>1, <2>2, <2>3 DEF WithinAllowance
  <2>4. CASE tenant.model # "credits"
    <3>1. Cardinality(Existing) + SumFunction(f) <= Ceiling(tenant, addon) + tenant.cut
      BY <1>1, <2>4, Reworded
    <3>2. SumFunction(f) \in Nat /\ Ceiling(tenant, addon) \in Nat /\ tenant.cut \in Nat
      BY <1>1, SumsTyped, TenantTyped
    <3>3. Cardinality(Existing') + SumFunction(f') <= Ceiling(tenant, addon)' + tenant'.cut
      <4> HIDE DEF f
      <4> QED BY <1>5, <2>1, <2>2, <3>1, <3>2
    <3>4. f' = [q \in Held(Current(tenant))' |-> Unused(q)'] BY DEF ToMake
    <3> HIDE DEF f
    <3> QED BY <2>4, <3>3, <3>4 DEF WithinAllowance
  <2> QED BY <2>3, <2>4
<1>7. LeadsArePaidFor'
  <2>1. \A q \in Requests : res'[q] # None /\ ~work'[q].returned =>
          Cardinality(OnTime(q)') <= res'[q].granted - res'[q].released
    <3> SUFFICES ASSUME NEW q \in Requests, res'[q] # None, ~work'[q].returned
                 PROVE  Cardinality(OnTime(q)') <= res'[q].granted - res'[q].released
      OBVIOUS
    <3>1. Cardinality(OnTime(q)) <= res[q].granted - res[q].released BY StillPaid
    <3>2. res[q].granted - res[q].released \in Nat BY <1>1, ReservationTyped
    <3>3. IsFiniteSet(OnTime(q)) /\ Cardinality(OnTime(q)) \in Nat BY <1>1, LeadsFinite
    <3>4. IsFiniteSet(OnTime(q)') /\ Cardinality(OnTime(q)') <= Cardinality(OnTime(q))
      BY <3>3, FS_Subset
    <3>5. Cardinality(OnTime(q)') \in Nat BY <3>4, FS_CardinalityType
    <3> QED BY <3>1, <3>2, <3>3, <3>4, <3>5
  <2>2. \A q \in Requests : {n \in Linked(q) : ~leads[n].late}' = OnTime(q)'
    BY DEF OnTime
  <2> QED BY <2>1, <2>2 DEF LeadsArePaidFor
<1>8. LedgerBalances' BY <1>4, <1>7 DEF LedgerBalances, Balanced, Unreturned, Holders
<1> QED BY <1>2, <1>3, <1>4, <1>6, <1>8 DEF IInv

\* Locking and opening in particular.
LEMMA MarksMove ==
  ASSUME IInv, UNCHANGED <<tenant, res, work, addon, faults>>, Kept
  PROVE  IInv'
<1>1. /\ Existing' = Existing /\ \A q : Created(q)' = Created(q) /\ OnTime(q)' = OnTime(q)
  BY KeptCounts
<1>2. leads' \in Seq(LeadRecord) /\ Len(leads') = Len(leads) BY DEF Kept
<1> QED BY <1>1, <1>2, LeadsMove

\* A lead that is deleted stays in the list, and counts no more.
LEMMA DeleteLeadStep == ASSUME IInv, NEW n \in DOMAIN leads, DeleteLead(n) PROVE IInv'
<1>1. leads \in Seq(LeadRecord) BY Shapes DEF IInv
<1>2. DOMAIN leads = 1..Len(leads) /\ Len(leads) \in Nat BY <1>1, LenProperties
<1>3. leads[n] \in LeadRecord BY <1>1, <1>2, ElementOfSeq
<1> DEFINE l == [leads[n] EXCEPT !.state = "gone"]
<1>4. l \in LeadRecord /\ l.by = leads[n].by /\ l.late = leads[n].late /\ l.state = "gone"
  BY <1>3 DEF LeadRecord
<1>5. leads' = [leads EXCEPT ![n] = l] BY DEF DeleteLead
<1> HIDE DEF l
<1>6. leads' \in Seq(LeadRecord) /\ Len(leads') = Len(leads) BY <1>1, <1>2, <1>4, <1>5, ExceptSeq
<1>7. DOMAIN leads' = DOMAIN leads /\ leads'[n] = l /\ \A i \in DOMAIN leads \ {n} : leads'[i] = leads[i]
  BY <1>1, <1>2, <1>5, <1>6, LenProperties
<1>8. \A q : Created(q)' = Created(q)
  <2> SUFFICES ASSUME NEW q
               PROVE  {i \in DOMAIN leads' : leads'[i].by = q} = {i \in DOMAIN leads : leads[i].by = q}
    BY DEF Created
  <2> QED BY <1>4, <1>7
<1>9. Existing' \subseteq Existing BY <1>4, <1>7 DEF Existing
<1>10. \A q : OnTime(q)' \subseteq OnTime(q)
  BY <1>4, <1>7, <1>9 DEF OnTime, Linked, Existing
<1>11. UNCHANGED <<tenant, res, work, addon, faults>> BY DEF DeleteLead
<1> QED BY <1>6, <1>8, <1>9, <1>10, <1>11, LeadsMove

\* Readers and the release of locks only lock and open.
LEMMA LeadSteps == ASSUME IInv, LeadStep PROVE IInv'
<1>1. leads \in Seq(LeadRecord) BY Shapes DEF IInv
<1>2. CASE \E n \in DOMAIN leads : DeleteLead(n) BY <1>2, DeleteLeadStep
<1>3. CASE ReadCounts \/ FindNewest
  <2>1. leads' = leads /\ UNCHANGED <<tenant, res, work, addon, faults>>
    BY <1>3 DEF ReadCounts, FindNewest, Reads
  <2>2. Kept BY <1>1, <2>1 DEF Kept
  <2> QED BY <2>1, <2>2, MarksMove
<1>4. CASE LockOthers
  <2> DEFINE S == Existing \ reader.ids
             state == [n \in DOMAIN leads |-> "locked"]
  <2>1. S \subseteq Existing /\ state \in [DOMAIN leads -> {"open", "locked"}] OBVIOUS
  <2>2. leads' = [n \in DOMAIN leads |-> IF n \in S THEN [leads[n] EXCEPT !.state = state[n]] ELSE leads[n]]
    BY <1>4 DEF LockOthers
  <2> HIDE DEF S, state
  <2>3. Kept BY <1>1, <2>1, <2>2, Marked
  <2>4. UNCHANGED <<tenant, res, work, addon, faults>> BY <1>4 DEF LockOthers, Reads
  <2> QED BY <2>3, <2>4, MarksMove
<1>5. CASE UnlockFound
  <2> DEFINE S == Existing \cap reader.ids
             state == [n \in DOMAIN leads |-> "open"]
  <2>1. S \subseteq Existing /\ state \in [DOMAIN leads -> {"open", "locked"}] OBVIOUS
  <2>2. leads' = [n \in DOMAIN leads |-> IF n \in S THEN [leads[n] EXCEPT !.state = state[n]] ELSE leads[n]]
    BY <1>5 DEF UnlockFound
  <2> HIDE DEF S, state
  <2>3. Kept BY <1>1, <2>1, <2>2, Marked
  <2>4. UNCHANGED <<tenant, res, work, addon, faults>> BY <1>5 DEF UnlockFound, Reads
  <2> QED BY <2>3, <2>4, MarksMove
<1>6. CASE ReleaseLocks
  <2> DEFINE S == Existing
             state == [n \in DOMAIN leads |-> "open"]
  <2>1. S \subseteq Existing /\ state \in [DOMAIN leads -> {"open", "locked"}] OBVIOUS
  <2>2. leads' = [n \in DOMAIN leads |-> IF n \in S THEN [leads[n] EXCEPT !.state = state[n]] ELSE leads[n]]
    BY <1>6 DEF ReleaseLocks
  <2> HIDE DEF S, state
  <2>3. Kept BY <1>1, <2>1, <2>2, Marked
  <2>4. UNCHANGED <<tenant, res, work, addon, faults>> BY <1>6 DEF ReleaseLocks
  <2> QED BY <2>3, <2>4, MarksMove
<1> QED BY <1>2, <1>3, <1>4, <1>5, <1>6 DEF LeadStep

-----------------------------------------------------------------------------
(* What the allowance is made of.                                          *)

\* Time only passes, and periods are only added, with nothing used of them.
Succeeds(t) ==
  /\ t \in TenantRecord /\ t.model = tenant.model /\ t.cut = tenant.cut /\ t.now >= tenant.now
  /\ Len(t.periods) \in Len(tenant.periods)..MaxPeriods
  /\ \A i \in Periods : /\ t.periods[i].slot = tenant.periods[i].slot
                        /\ t.periods[i].used = tenant.periods[i].used
  /\ \A i \in DOMAIN t.periods \ Periods : t.periods[i].used = 0

\* Then the period under way is still the same, or nobody has used it yet.
LEMMA Successor ==
  ASSUME Typed, NEW t, Succeeds(t), Current(t) # 0, Current(t) # Current(tenant)
  PROVE  Current(t) \notin Periods \/ tenant.periods[Current(t)].slot > tenant.now
<1>1. t \in TenantRecord /\ tenant \in TenantRecord BY Shapes DEF Succeeds
<1>2. Current(t) \in Active(t) BY <1>1, CurrentHolds
<1>3. t.now \in Nat /\ tenant.now \in Nat BY <1>1, BoundsAssumption DEF TenantRecord
<1>4. SUFFICES ASSUME Current(t) \in Periods, ~(tenant.periods[Current(t)].slot > tenant.now) PROVE FALSE
  OBVIOUS
<1>5. t.periods[Current(t)].slot = t.now /\ tenant.periods[Current(t)].slot = t.now
  BY <1>2, <1>4 DEF Active, Succeeds
<1>6. t.now = tenant.now BY <1>3, <1>4, <1>5 DEF Succeeds
<1>7. Current(t) \in Active(tenant) BY <1>4, <1>5, <1>6 DEF Active, Periods
<1>8. Current(tenant) \in Active(tenant) BY <1>1, <1>7, CurrentHolds
<1>9. DOMAIN t.periods = 1..Len(t.periods) /\ Len(t.periods) \in Nat
      /\ DOMAIN tenant.periods = 1..Len(tenant.periods) /\ Len(tenant.periods) \in Nat
  BY <1>1, LenProperties DEF TenantRecord
<1>10. Periods \subseteq DOMAIN t.periods
  <2>1. Len(t.periods) >= Len(tenant.periods) BY <1>9, BoundsAssumption DEF Succeeds
  <2> QED BY <1>9, <2>1 DEF Periods
<1>11. Current(tenant) \in Active(t)
  BY <1>6, <1>8, <1>10 DEF Active, Periods, Succeeds
<1>12. /\ \A k \in Active(t) : k <= Current(t)
       /\ \A k \in Active(tenant) : k <= Current(tenant)
  <2>1. ASSUME NEW s \in TenantRecord, Active(s) # {} PROVE \A k \in Active(s) : k <= Current(s)
    <3>1. DOMAIN s.periods = 1..Len(s.periods) /\ Len(s.periods) \in Nat
      BY LenProperties DEF TenantRecord
    <3>2. Active(s) \subseteq 1..Len(s.periods) BY <3>1 DEF Active
    <3>3. IsFiniteSet(Active(s))
      <4>1. IsFiniteSet(1..Len(s.periods)) BY <3>1, FS_Interval
      <4> QED BY <3>2, <4>1, FS_Subset
    <3>4. Active(s) \in SUBSET Nat BY <3>1, <3>2
    <3>5. \A k \in Active(s) : k <= Max(Active(s)) BY <2>1, <3>3, <3>4, Largest
    <3> QED BY <2>1, <3>5 DEF Current
  <2> QED BY <1>1, <1>2, <1>8, <2>1
<1>13. Current(t) <= Current(tenant) /\ Current(tenant) <= Current(t) BY <1>7, <1>11, <1>12
<1>14. Current(t) \in Nat /\ Current(tenant) \in Nat BY <1>1, CurrentHolds
<1> QED BY <1>13, <1>14

\* What the change takes from the limit is cut, so what is used or still to be made stays
\* within it; and a period that begins has been used by nobody.
LEMMA SucceedsStep ==
  ASSUME IInv, NEW t, Succeeds(t), NEW a, Becomes(t, a), Kept, UNCHANGED <<res, work, faults>>
  PROVE  IInv'
<1>1. Typed /\ FutureUntouched /\ Balanced /\ WithinAllowance BY Reworded DEF IInv
<1>2. /\ tenant.model \in {"credits", "capacity", "pipeline"}
      /\ Len(tenant.periods) \in Nat /\ Len(tenant.periods) >= 1
      /\ Periods = 1..Len(tenant.periods)
      /\ tenant.cut \in Nat /\ tenant.now \in Nat
      /\ \A p \in Periods : tenant.periods[p].used \in Nat /\ tenant.periods[p].slot \in Nat
      /\ Limit(tenant, addon) \in Nat /\ Ceiling(tenant, addon) \in Nat
      /\ Current(tenant) # 0 => Current(tenant) \in Periods
  BY <1>1, TenantTyped
<1>3. /\ t \in TenantRecord /\ t.model = tenant.model /\ t.cut = tenant.cut /\ t.now >= tenant.now
      /\ t.now \in Nat
      /\ Len(t.periods) \in 1..MaxPeriods /\ Len(t.periods) \in Nat /\ Len(t.periods) >= 1
      /\ Len(t.periods) >= Len(tenant.periods)
      /\ DOMAIN t.periods = 1..Len(t.periods)
  <2>1. t \in TenantRecord /\ t.model = tenant.model /\ t.cut = tenant.cut /\ t.now >= tenant.now
    BY DEF Succeeds
  <2>2. t.now \in Nat BY <2>1, BoundsAssumption DEF TenantRecord
  <2>3. DOMAIN t.periods = 1..Len(t.periods) /\ Len(t.periods) \in Nat
    BY <2>1, LenProperties DEF TenantRecord
  <2>4. Len(t.periods) >= Len(tenant.periods) /\ Len(t.periods) <= MaxPeriods
    BY <1>2, BoundsAssumption DEF Succeeds
  <2> QED BY <1>2, <2>1, <2>2, <2>3, <2>4, BoundsAssumption
<1>4. Limit(t, a) \in Nat /\ Ceiling(t, a) \in Nat BY <1>3, LimitTyped
<1> DEFINE lost == IF Ceiling(t, a) < Ceiling(tenant, addon) THEN Ceiling(tenant, addon) - Ceiling(t, a) ELSE 0
           afresh == t.model = "credits" /\ Current(t) # Current(tenant)
           cut == IF afresh THEN 0 ELSE t.cut + lost
<1>5. /\ tenant' = [t EXCEPT !.cut = cut] /\ addon' = a BY DEF Becomes
<1>6. lost \in Nat /\ Ceiling(t, a) + lost >= Ceiling(tenant, addon) BY <1>2, <1>4
<1> HIDE DEF lost
<1>7. cut \in Nat /\ (~afresh => cut = tenant.cut + lost) BY <1>2, <1>3, <1>6
<1> HIDE DEF cut
<1>8. /\ tenant' \in TenantRecord /\ tenant'.model = tenant.model /\ tenant'.now = t.now
      /\ tenant'.cut = cut /\ tenant'.periods = t.periods
      /\ Current(tenant') = Current(t) /\ Limit(tenant', addon') = Limit(t, a)
      /\ Ceiling(tenant', addon') = Ceiling(t, a)
  <2>1. \A u, b : u = [t EXCEPT !.cut = cut] =>
          /\ u \in TenantRecord /\ u.model = t.model /\ u.now = t.now /\ u.cut = cut
          /\ u.periods = t.periods
          /\ Current(u) = Current(t) /\ Limit(u, b) = Limit(t, b)
          /\ Ceiling(u, b) = Ceiling(t, b)
    BY <1>3, <1>7, CutSet
  <2> QED BY <1>3, <1>5, <2>1
<1>9. Periods' = DOMAIN t.periods /\ Periods \subseteq Periods' BY <1>2, <1>3, <1>8 DEF Periods
<1>10. /\ Existing' = Existing
       /\ \A q : Created(q)' = Created(q) /\ OnTime(q)' = OnTime(q)
  BY KeptCounts
<1>11. Typed'
  <2>1. leads' \in Seq(LeadRecord) /\ Len(leads') = Len(leads) BY DEF Kept
  <2>2. \A q \in Requests : res'[q] # None => res'[q].period \in Periods' BY <1>1, <1>9 DEF Typed
  <2>3. TypeOK' BY <1>1, <1>8, <2>1 DEF Typed, TypeOK, TenantRecord, PeriodRecord, LeadRecord
  <2> QED BY <1>3, <1>8, <2>2, <2>3 DEF Typed
<1>12. \A q \in Requests : Sound(q)' BY <1>10, OthersSound DEF IInv
<1>13. ASSUME NEW p \in Periods, tenant.periods[p].slot > tenant.now
       PROVE  tenant.periods[p].used = 0 /\ \A q \in Requests : res[q] # None => res[q].period # p
  BY <1>1, <1>13 DEF FutureUntouched, Untouched
<1>14. \A q \in Requests : res[q] # None => res[q].period \in Periods BY <1>1 DEF Typed
<1>15. FutureUntouched'
  <2> SUFFICES ASSUME NEW p \in Periods', tenant'.periods[p].slot > tenant'.now PROVE Untouched(p)'
    BY DEF FutureUntouched
  <2>1. t.periods[p].slot > t.now /\ t.periods[p].slot \in Nat
    BY <1>3, <1>8, <1>9, PeriodTyped
  <2>2. CASE p \in Periods
    <3>1. t.periods[p].slot = tenant.periods[p].slot /\ t.periods[p].used = tenant.periods[p].used
      BY <2>2 DEF Succeeds
    <3>2. tenant.periods[p].slot > tenant.now BY <1>2, <1>3, <2>1, <3>1
    <3> QED BY <1>8, <1>13, <2>2, <3>1, <3>2 DEF Untouched
  <2>3. CASE p \notin Periods
    <3>1. t.periods[p].used = 0 BY <1>9, <2>3 DEF Succeeds
    <3> QED BY <1>8, <1>14, <2>3, <3>1 DEF Untouched
  <2> QED BY <2>2, <2>3
<1>16. Balanced'
  <2> SUFFICES ASSUME tenant'.model = "credits", NEW p \in Periods'
               PROVE  tenant'.periods[p].used = SumFunction(Unreturned(p)')
    BY DEF Balanced
  <2>1. Unreturned(p)' = Unreturned(p) BY DEF Unreturned, Holders
  <2>2. CASE p \in Periods
    <3>1. t.periods[p].used = tenant.periods[p].used BY <2>2 DEF Succeeds
    <3> QED BY <1>1, <1>8, <2>1, <2>2, <3>1 DEF Balanced
  <2>3. CASE p \notin Periods
    <3>1. t.periods[p].used = 0 BY <1>9, <2>3 DEF Succeeds
    <3>2. Holders(p) = {} BY <1>14, <2>3 DEF Holders
    <3>3. SumFunction(Unreturned(p)) = 0
      <4>1. DOMAIN Unreturned(p) = {} BY <3>2 DEF Unreturned
      <4> QED BY <4>1, TotalEmpty
    <3> QED BY <1>8, <2>1, <3>1, <3>3
  <2> QED BY <2>2, <2>3
<1>17. WithinAllowance'
  <2>1. PICK p : p = Current(tenant) OBVIOUS
  <2>2. PICK c : c = Current(t) OBVIOUS
  <2>3. Held(c)' = Held(c) /\ \A q \in Held(c) : Unused(q)' = Unused(q)
    BY <1>10 DEF Held, Reserved, Covered, Unused
  <2>4. ToMake(c)' = ToMake(c) BY <2>3 DEF ToMake
  <2>5. c # p /\ c # 0 => c \notin Periods \/ tenant.periods[c].slot > tenant.now
    BY <1>1, <2>1, <2>2, Successor
  <2>6. CASE tenant.model = "credits"
    <3> SUFFICES ASSUME c # 0 PROVE t.periods[c].used <= Limit(t, a) + cut
      BY <1>8, <2>2, <2>6 DEF WithinAllowance
    <3>1. c \in DOMAIN t.periods BY <1>3, <2>2, CurrentHolds
    <3>2. CASE c = p
      <4>1. c \in Periods BY <1>2, <2>1, <3>2
      <4>2. tenant.periods[c].used <= Limit(tenant, addon) + tenant.cut
        BY <1>1, <2>1, <2>6, <3>2 DEF WithinAllowance
      <4>3. t.periods[c].used = tenant.periods[c].used /\ tenant.periods[c].used \in Nat
        BY <1>2, <4>1 DEF Succeeds
      <4>4. Ceiling(t, a) = Limit(t, a) /\ Ceiling(tenant, addon) = Limit(tenant, addon)
        BY <1>3, <2>6 DEF Ceiling
      <4>5. cut = tenant.cut + lost BY <1>7, <2>1, <2>2, <3>2
      <4> QED BY <1>2, <1>4, <1>6, <4>2, <4>3, <4>4, <4>5
    <3>3. CASE c # p
      <4>1. t.periods[c].used = 0
        <5>1. CASE c \in Periods BY <1>13, <2>5, <3>3, <5>1 DEF Succeeds
        <5>2. CASE c \notin Periods BY <3>1, <5>2 DEF Succeeds
        <5> QED BY <5>1, <5>2
      <4> QED BY <1>4, <1>7, <4>1
    <3> QED BY <3>2, <3>3
  <2>7. CASE tenant.model # "credits"
    <3>1. Cardinality(Existing) + SumFunction(ToMake(p)) <= Ceiling(tenant, addon) + tenant.cut
      BY <1>1, <2>1, <2>7, Reworded
    <3>2. SumFunction(ToMake(p)) \in Nat /\ Cardinality(Existing) \in Nat
      BY <1>1, SumsTyped, Shapes, LeadsFinite
    <3>3. cut = tenant.cut + lost BY <1>3, <1>7, <2>7
    <3>4. SumFunction(ToMake(c)) <= SumFunction(ToMake(p)) /\ SumFunction(ToMake(c)) \in Nat
      <4>1. CASE c = p BY <3>2, <4>1
      <4>2. CASE c # p
        <5>1. \A q \in Requests : res[q] # None => res[q].period # c
          <6>1. c = 0 => c \notin Periods BY <1>2
          <6> QED BY <1>13, <1>14, <2>5, <4>2, <6>1
        <5>2. Held(c) = {} BY <5>1 DEF Held, Reserved, Covered
        <5>3. DOMAIN ToMake(c) = {} BY <5>2 DEF ToMake
        <5>4. SumFunction(ToMake(c)) = 0 BY <5>3, TotalEmpty
        <5> QED BY <3>2, <5>4
      <4> QED BY <4>1, <4>2
    <3>5. Cardinality(Existing') + SumFunction(ToMake(c)') <= Ceiling(t, a) + cut
      BY <1>2, <1>4, <1>6, <1>10, <2>4, <3>1, <3>2, <3>3, <3>4
    <3>6. ToMake(c)' = [q \in Held(Current(tenant))' |-> Unused(q)'] BY <1>8, <2>2 DEF ToMake
    <3> QED BY <1>8, <2>7, <3>5, <3>6 DEF WithinAllowance
  <2> QED BY <2>6, <2>7
<1>18. LeadsArePaidFor'
  <2>1. \A q \in Requests : res'[q] # None /\ ~work'[q].returned =>
          Cardinality(OnTime(q)') <= res'[q].granted - res'[q].released
    BY <1>10, StillPaid
  <2>2. \A q \in Requests : {n \in Linked(q) : ~leads[n].late}' = OnTime(q)'
    BY DEF OnTime
  <2> QED BY <2>1, <2>2 DEF LeadsArePaidFor
<1>19. LedgerBalances' BY <1>16, <1>18 DEF LedgerBalances, Balanced, Unreturned, Holders
<1> QED BY <1>11, <1>12, <1>15, <1>17, <1>19 DEF IInv

\* Nothing changes.
LEMMA Same == ASSUME Typed PROVE Succeeds(tenant)
<1>1. tenant \in TenantRecord /\ Len(tenant.periods) \in 1..MaxPeriods BY Shapes
<1>2. tenant.now \in Nat /\ Len(tenant.periods) \in Nat BY <1>1, TenantTyped
<1>3. Len(tenant.periods) \in Len(tenant.periods)..MaxPeriods BY <1>1, <1>2, BoundsAssumption
<1> QED BY <1>1, <1>2, <1>3 DEF Succeeds, Periods

\* One period changes, but not its time nor what is used of it.
LEMMA Retotalled ==
  ASSUME Typed, NEW p \in Periods, NEW v \in PeriodRecord,
         v.slot = tenant.periods[p].slot, v.used = tenant.periods[p].used
  PROVE  LET ps == [tenant.periods EXCEPT ![p] = v] IN
         /\ ps \in Seq(PeriodRecord) /\ Len(ps) = Len(tenant.periods) /\ DOMAIN ps = Periods
         /\ \A i \in Periods : ps[i].slot = tenant.periods[i].slot /\ ps[i].used = tenant.periods[i].used
<1> DEFINE ps == [tenant.periods EXCEPT ![p] = v]
<1>1. tenant.periods \in Seq(PeriodRecord) BY Shapes DEF TenantRecord
<1>2. Periods = 1..Len(tenant.periods) BY TenantTyped
<1>3. ps \in Seq(PeriodRecord) /\ Len(ps) = Len(tenant.periods) BY <1>1, <1>2, ExceptSeq
<1>4. DOMAIN ps = Periods BY DEF Periods
<1>5. \A i \in Periods : ps[i] = IF i = p THEN v ELSE tenant.periods[i] BY DEF Periods
<1> QED BY <1>3, <1>4, <1>5

\* A period is added behind those that there are, whose times and uses stay.
LEMMA Extended ==
  ASSUME Typed, Len(tenant.periods) < MaxPeriods, NEW ps \in Seq(PeriodRecord),
         Len(ps) = Len(tenant.periods),
         \A i \in Periods : ps[i].slot = tenant.periods[i].slot /\ ps[i].used = tenant.periods[i].used,
         NEW v \in PeriodRecord, v.used = 0,
         NEW t, t = [tenant EXCEPT !.periods = Append(ps, v)]
  PROVE  Succeeds(t)
<1>1. /\ tenant \in TenantRecord /\ tenant.now \in Nat /\ Len(tenant.periods) \in Nat
      /\ Periods = 1..Len(tenant.periods)
  BY TenantTyped
<1> DEFINE qs == Append(ps, v)
<1>2. /\ qs \in Seq(PeriodRecord) /\ Len(qs) = Len(tenant.periods) + 1
      /\ \A i \in Periods : qs[i] = ps[i]
      /\ qs[Len(tenant.periods) + 1] = v
  BY <1>1, AppendProperties
<1> HIDE DEF qs
<1>3. DOMAIN qs = 1..(Len(tenant.periods) + 1) BY <1>2, LenProperties
<1>4. Len(qs) \in Len(tenant.periods)..MaxPeriods BY <1>1, <1>2, BoundsAssumption
<1>5. /\ t \in TenantRecord /\ t.model = tenant.model /\ t.cut = tenant.cut /\ t.now = tenant.now
      /\ t.periods = qs
  <2>1. t = [tenant EXCEPT !.periods = qs] BY DEF qs
  <2> QED BY <1>1, <1>2, <2>1 DEF TenantRecord
<1>6. \A i \in DOMAIN qs \ Periods : qs[i].used = 0
  <2>1. \A i \in DOMAIN qs \ Periods : i = Len(tenant.periods) + 1 BY <1>1, <1>3
  <2> QED BY <1>2, <2>1
<1>7. \A i \in Periods : qs[i].slot = tenant.periods[i].slot /\ qs[i].used = tenant.periods[i].used
  BY <1>2
<1> QED BY <1>1, <1>4, <1>5, <1>6, <1>7 DEF Succeeds

\* The end of a billing period.
LEMMA PeriodPassesStep == ASSUME IInv, PeriodPasses PROVE IInv'
<1>1. Typed /\ leads \in Seq(LeadRecord) BY Shapes DEF IInv
<1>2. /\ tenant \in TenantRecord /\ tenant.now \in Nat /\ Succeeds(tenant)
      /\ tenant.now \in 1..MaxSlots
  BY <1>1, TenantTyped, Same DEF TenantRecord
<1> DEFINE now == tenant.now + 1
           t == [tenant EXCEPT !.now = now]
<1>3. now \in 1..MaxSlots /\ now >= tenant.now BY <1>2, BoundsAssumption DEF PeriodPasses
<1> HIDE DEF now
<1>4. /\ t \in TenantRecord /\ t.model = tenant.model /\ t.cut = tenant.cut /\ t.now = now
      /\ t.periods = tenant.periods
  BY <1>2, <1>3 DEF TenantRecord
<1>5. Becomes(t, addon) BY DEF PeriodPasses, now
<1> HIDE DEF t
<1>6. Succeeds(t) BY <1>2, <1>3, <1>4 DEF Succeeds
<1>7. Kept BY <1>1 DEF Kept, PeriodPasses
<1> QED BY <1>5, <1>6, <1>7, SucceedsStep DEF PeriodPasses, Unmoved

\* A renewal.
LEMMA ConfirmRenewalStep == ASSUME IInv, ConfirmRenewal PROVE IInv'
<1>1. Typed /\ leads \in Seq(LeadRecord) BY Shapes DEF IInv
<1>2. PICK total \in Totals, slot \in {tenant.now, tenant.now + 1} :
        /\ slot <= MaxSlots /\ Len(tenant.periods) < MaxPeriods
        /\ Becomes([tenant EXCEPT !.periods = Append(@, Period(slot, total))], Renewed(slot))
        /\ UNCHANGED <<leads, res, work, faults>>
  BY DEF ConfirmRenewal, Unmoved
<1>3. tenant \in TenantRecord /\ tenant.now \in Nat /\ tenant.now \in 1..MaxSlots
  BY <1>1, TenantTyped DEF TenantRecord
<1>4. slot \in 1..MaxSlots BY <1>2, <1>3, BoundsAssumption
<1> DEFINE v == Period(slot, total)
           t == [tenant EXCEPT !.periods = Append(tenant.periods, v)]
<1>5. v \in PeriodRecord /\ v.used = 0 BY <1>2, <1>4 DEF Period, PeriodRecord
<1>6. Becomes(t, Renewed(slot)) BY <1>2
<1> HIDE DEF v
<1>7. Succeeds(t)
  <2>1. tenant.periods \in Seq(PeriodRecord) BY <1>3 DEF TenantRecord
  <2> QED BY <1>1, <1>2, <1>5, <2>1, Extended
<1> HIDE DEF t
<1>8. Kept BY <1>1, <1>2 DEF Kept
<1> QED BY <1>2, <1>6, <1>7, <1>8, SucceedsStep

\* An upgrade: the period before loses its top-ups to the new one.
LEMMA ConfirmUpgradeStep == ASSUME IInv, ConfirmUpgrade PROVE IInv'
<1>1. Typed /\ leads \in Seq(LeadRecord) BY Shapes DEF IInv
<1>2. PICK p : p = Current(tenant) OBVIOUS
<1>3. PICK total \in Totals :
        /\ p # 0 /\ Len(tenant.periods) < MaxPeriods
        /\ Becomes([tenant EXCEPT !.periods = Append([@ EXCEPT ![p].topup = 0],
                     [Period(tenant.now, total) EXCEPT !.topup = tenant.periods[p].topup])], addon)
        /\ UNCHANGED <<leads, res, work, faults>>
  BY <1>2 DEF ConfirmUpgrade, Paid, Unmoved
<1>4. /\ tenant \in TenantRecord /\ tenant.now \in 1..MaxSlots /\ p \in Periods
      /\ tenant.periods[p] \in PeriodRecord
  <2>1. tenant \in TenantRecord /\ p \in Periods BY <1>1, <1>2, <1>3, TenantTyped
  <2>2. tenant.periods[p] \in PeriodRecord BY <2>1, PeriodTyped DEF Periods
  <2> QED BY <2>1, <2>2 DEF TenantRecord
<1> DEFINE o == [tenant.periods[p] EXCEPT !.topup = 0]
           ps == [tenant.periods EXCEPT ![p] = o]
           v == [Period(tenant.now, total) EXCEPT !.topup = tenant.periods[p].topup]
           t == [tenant EXCEPT !.periods = Append(ps, v)]
<1>5. o \in PeriodRecord /\ o.slot = tenant.periods[p].slot /\ o.used = tenant.periods[p].used
  BY <1>4 DEF PeriodRecord
<1>6. v \in PeriodRecord /\ v.used = 0 BY <1>3, <1>4 DEF Period, PeriodRecord
<1>7. Becomes(t, addon)
  <2>1. [tenant.periods EXCEPT ![p].topup = 0] = ps BY Zenon
  <2> HIDE DEF ps, v
  <2> QED BY <1>3, <2>1 DEF v
<1> HIDE DEF o, v
<1>8. /\ ps \in Seq(PeriodRecord) /\ Len(ps) = Len(tenant.periods)
      /\ \A i \in Periods : ps[i].slot = tenant.periods[i].slot /\ ps[i].used = tenant.periods[i].used
  BY <1>1, <1>4, <1>5, Retotalled
<1> HIDE DEF ps
<1>9. Succeeds(t) BY <1>1, <1>3, <1>6, <1>8, Extended
<1> HIDE DEF t
<1>10. Kept BY <1>1, <1>3 DEF Kept
<1> QED BY <1>3, <1>7, <1>9, <1>10, SucceedsStep

\* A top-up that is approved.
LEMMA ApproveTopupStep == ASSUME IInv, ApproveTopup PROVE IInv'
<1>1. Typed /\ leads \in Seq(LeadRecord) BY Shapes DEF IInv
<1>2. PICK p : p = topup.period OBVIOUS
<1> DEFINE t == [tenant EXCEPT !.periods[p].topup = @ + TopupSize]
<1>3. /\ p # 0 /\ p = Current(tenant) /\ Becomes(t, addon)
      /\ leads' = IF tenant.model = "capacity" THEN Reconciled(ReadLimit(t, addon)) ELSE leads
      /\ UNCHANGED <<res, work, faults>>
  BY <1>2 DEF ApproveTopup, Paid, Unmoved
<1>4. tenant \in TenantRecord /\ p \in Periods /\ tenant.periods[p] \in PeriodRecord
      /\ tenant.periods[p].topup \in Nat
  <2>1. tenant \in TenantRecord /\ p \in Periods BY <1>1, <1>3, TenantTyped
  <2> QED BY <2>1, PeriodTyped DEF Periods
<1>5. PICK n : n = tenant.periods[p].topup + TopupSize OBVIOUS
<1>6. n \in Nat BY <1>4, <1>5, TotalsAssumption
<1> DEFINE o == [tenant.periods[p] EXCEPT !.topup = n]
           ps == [tenant.periods EXCEPT ![p] = o]
<1>7. o \in PeriodRecord /\ o.slot = tenant.periods[p].slot /\ o.used = tenant.periods[p].used
  BY <1>4, <1>6 DEF PeriodRecord
<1>8. t = [tenant EXCEPT !.periods = ps] BY <1>5, Zenon
<1> HIDE DEF o
<1>9. /\ ps \in Seq(PeriodRecord) /\ Len(ps) = Len(tenant.periods) /\ DOMAIN ps = Periods
      /\ \A i \in Periods : ps[i].slot = tenant.periods[i].slot /\ ps[i].used = tenant.periods[i].used
  BY <1>1, <1>4, <1>7, Retotalled
<1> HIDE DEF ps, t
<1>10. /\ t \in TenantRecord /\ t.model = tenant.model /\ t.cut = tenant.cut /\ t.now = tenant.now
       /\ t.periods = ps
  BY <1>4, <1>8, <1>9 DEF TenantRecord
<1>11. Succeeds(t) BY <1>1, <1>9, <1>10, Same DEF Succeeds
<1>12. Kept BY <1>1, <1>3, ReconciledKept
<1> QED BY <1>3, <1>11, <1>12, SucceedsStep

\* A request for an add-on changes no limit yet.
LEMMA RequestAddonStep == ASSUME IInv, RequestAddon PROVE IInv'
<1>1. Typed /\ leads \in Seq(LeadRecord) BY Shapes DEF IInv
<1>2. /\ UNCHANGED <<tenant, leads, res, work, faults>>
      /\ addon.status = "none" /\ addon'.status = "pending_payment"
  BY DEF RequestAddon, Unmoved
<1>3. PICK a : a = addon' OBVIOUS
<1>4. Recurring(tenant, a) = 0 /\ Recurring(tenant, addon) = 0
  BY <1>2, <1>3 DEF Recurring, ActiveStatuses
<1>5. Ceiling(tenant, a) = Ceiling(tenant, addon) BY <1>4 DEF Ceiling, ReadLimit, Limit
<1>6. tenant \in TenantRecord /\ tenant.cut \in Nat /\ Ceiling(tenant, addon) \in Nat
  BY <1>1, TenantTyped
<1>7. Becomes(tenant, a)
  <2>1. [tenant EXCEPT !.cut = tenant.cut + 0] = tenant BY <1>6 DEF TenantRecord
  <2> QED BY <1>2, <1>3, <1>5, <1>6, <2>1 DEF Becomes
<1>8. Kept BY <1>1, <1>2 DEF Kept
<1> QED BY <1>1, <1>2, <1>7, <1>8, Same, SucceedsStep

\* Steps that leave the allowance as it is, and those that change the add-on alone.
LEMMA AllowanceSteps == ASSUME IInv, AllowanceStep PROVE IInv'
<1>1. Typed /\ leads \in Seq(LeadRecord) BY Shapes DEF IInv
<1>2. CASE RequestTopup \/ CancelTopup \/ RejectTopup \/ ReadAddon
  <2>1. UNCHANGED <<tenant, res, work, leads, addon, faults>>
    BY <1>2 DEF RequestTopup, CancelTopup, RejectTopup, ReadAddon, Asks, Unmoved
  <2>2. Kept BY <1>1, <2>1 DEF Kept
  <2> QED BY <2>1, <2>2, MarksMove
<1>3. CASE ActivateAddon
  <2> DEFINE a == [status |-> "active", until |-> tenant.now]
  <2>1. /\ Becomes(tenant, a) /\ leads' = Reconciled(ReadLimit(tenant, a))
        /\ UNCHANGED <<res, work, faults>>
    BY <1>3 DEF ActivateAddon, Unmoved
  <2> HIDE DEF a
  <2>2. Kept BY <1>1, <2>1, ReconciledKept
  <2> QED BY <1>1, <2>1, <2>2, Same, SucceedsStep
<1>4. CASE SaveAddon
  <2> DEFINE a == [addon EXCEPT !.status = stale]
  <2>1. Becomes(tenant, a) /\ UNCHANGED <<leads, res, work, faults>>
    BY <1>4 DEF SaveAddon, Unmoved
  <2> HIDE DEF a
  <2>2. Kept BY <1>1, <2>1 DEF Kept
  <2> QED BY <1>1, <2>1, <2>2, Same, SucceedsStep
<1> QED
  BY <1>2, <1>3, <1>4, PeriodPassesStep, ConfirmRenewalStep, ConfirmUpgradeStep, ApproveTopupStep,
     RequestAddonStep DEF AllowanceStep

-----------------------------------------------------------------------------
(* The theorems.                                                           *)

\* Every step keeps the invariant.
LEMMA StepIInv == ASSUME IInv, [Next]_vars PROVE IInv'
<1>1. CASE \E r \in Requests : RequestStep(r) \/ ReservationExpires(r) \/ Cleanup(r)
  BY <1>1, ReserveStep, CreateLeadStep, CreateFailsStep, ConsumeStep, ConsumeLostStep, RowsTriedStep,
     ReleaseStep, CrashStep, ExpiresStep, CleanupStep DEF RequestStep
<1>2. CASE LeadStep BY <1>2, LeadSteps
<1>3. CASE AllowanceStep BY <1>3, AllowanceSteps
<1>4. CASE UNCHANGED vars
  <2>1. UNCHANGED <<tenant, res, work, leads, addon, faults>> BY <1>4 DEF vars
  <2>2. Kept BY <2>1, Shapes DEF Kept, IInv
  <2> QED BY <2>1, <2>2, MarksMove
<1> QED BY <1>1, <1>2, <1>3, <1>4 DEF Next

\* The inductive invariant holds in every state.
LEMMA AlwaysIInv == Spec => []IInv
<1>1. IInv /\ [Next]_vars => IInv' BY StepIInv
<1> QED BY <1>1, InitIInv, PTL DEF Spec

\* Every state has its types, and no reservation counts more units than it was granted.
THEOREM TypeCorrect == Spec => []TypeOK
<1>1. IInv => TypeOK BY DEF IInv, Typed
<1> QED BY <1>1, AlwaysIInv, PTL

\* The credits each period says are used are those of its reservations, and what a
\* reservation did not give back pays for its leads.
THEOREM LedgerAlwaysBalances == Spec => []LedgerBalances
<1>1. IInv => LedgerBalances BY DEF IInv
<1> QED BY <1>1, AlwaysIInv, PTL

\* Credits used, or leads that exist and leads still to be made, stay within the limit.
THEOREM AlwaysWithinAllowance == Spec => []WithinAllowance
<1>1. IInv => WithinAllowance BY DEF IInv
<1> QED BY <1>1, AlwaysIInv, PTL
=============================================================================
