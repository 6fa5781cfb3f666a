--------------------------- MODULE TeamSeatsProofs ---------------------------
(***************************************************************************)
(* Proofs about the team seats of a tenant: the seats in use and those     *)
(* that invitations reserve stay within the limit, whatever transactions   *)
(* and edits overlap, and a member the platform has suspended stays so.    *)
(*                                                                         *)
(* Seats and reservations are counted by the addresses they belong to      *)
(* (Using, Holding), since documents move in their sequences and addresses *)
(* do not.                                                                 *)
(***************************************************************************)
EXTENDS TeamSeats, FiniteSetTheorems, SequenceTheorems, WellFoundedInduction, TLAPS

-----------------------------------------------------------------------------
(* Facts about the data. *)

\* A set of naturals has a least element.
LEMMA Least ==
  ASSUME NEW T \in SUBSET Nat, T # {}
  PROVE  \E x \in T : \A y \in T : x <= y
<1>1. IsWellFoundedOn(OpToRel(<, Nat), Nat)
  BY NatLessThanWellFounded
<1> DEFINE R == OpToRel(<, Nat)
<1>2. \A x, y \in Nat : <<y, x>> \in R <=> y < x
  BY DEF OpToRel
<1> HIDE DEF R
<1>3. IsWellFoundedOn(R, Nat)
  BY <1>1 DEF R
<1>4. PICK x \in T : \A y \in T : ~(<<y, x>> \in R)
  BY <1>3, WFMin
<1>5. ASSUME NEW y \in T PROVE x <= y
  <2>1. x \in Nat /\ y \in Nat
    OBVIOUS
  <2>2. <<y, x>> \in R <=> y < x
    BY <2>1, <1>2, Zenon
  <2>3. ~(y < x)
    BY <2>2, <1>4, Zenon
  <2> QED
    BY <2>1, <2>3, SMT
<1> QED
  BY <1>5

\* A set of naturals up to n that has 0 and what follows any of its elements has
\* them all.
LEMMA Counting ==
  ASSUME NEW n \in Nat, NEW T, 0 \in T, \A i \in 1 .. n : i - 1 \in T => i \in T
  PROVE  0 .. n \subseteq T
<1> DEFINE Rest == (0 .. n) \ T
<1>1. SUFFICES ASSUME Rest # {} PROVE FALSE
  OBVIOUS
<1>2. Rest \in SUBSET Nat
  OBVIOUS
<1>3. PICK x \in Rest : \A y \in Rest : x <= y
  BY <1>1, <1>2, Least
<1>4. x # 0 /\ x \in 1 .. n
  BY <1>3
<1>5. x - 1 \in 0 .. n /\ ~(x <= x - 1)
  BY <1>4
<1>6. x - 1 \in T
  BY <1>3, <1>5
<1> QED
  BY <1>3, <1>4, <1>6

\* No two documents are of one address.
Distinct(docs) == \A i, j \in DOMAIN docs : docs[i].who = docs[j].who => i = j

\* One document after the other.
Taken(docs, people, rest, n) == IF docs[n].who \in people THEN rest ELSE Append(rest, docs[n])

\* What Without computes exists, and is what its equation says.
LEMMA WithoutEquation ==
  ASSUME NEW S, NEW docs \in Seq(S), NEW people
  PROVE  \E f : /\ f[0] = <<>>
                /\ \A n \in 1 .. Len(docs) : f[n] = Taken(docs, people, f[n - 1], n)
                /\ Without(docs, people) = f[Len(docs)]
<1> DEFINE Body(f, m) == [n \in 0 .. m |-> IF n = 0 THEN <<>> ELSE Taken(docs, people, f[n - 1], n)]
           Possible == {m \in Nat : \E f : f = Body(f, m)}
<1>1. Len(docs) \in Nat
  BY LenProperties
<1>2. 0 \in Possible
  <2> DEFINE g == [n \in 0 .. 0 |-> <<>>]
  <2>1. g = Body(g, 0)
    OBVIOUS
  <2> QED
    BY <2>1
<1>3. ASSUME NEW i \in 1 .. Len(docs), i - 1 \in Possible PROVE i \in Possible
  <2>1. PICK f : f = Body(f, i - 1)
    BY <1>3
  <2> DEFINE g == [n \in 0 .. i |-> IF n = i THEN Taken(docs, people, f[i - 1], i) ELSE f[n]]
  <2>2. \A n \in 0 .. i - 1 : f[n] = IF n = 0 THEN <<>> ELSE Taken(docs, people, f[n - 1], n)
    BY <2>1
  <2>3. ASSUME NEW n \in 0 .. i
        PROVE  g[n] = IF n = 0 THEN <<>> ELSE Taken(docs, people, g[n - 1], n)
    <3>1. CASE n = 0
      BY <3>1, <2>2
    <3>2. CASE n # 0
      <4>1. n - 1 \in 0 .. i /\ n - 1 # i
        BY <3>2
      <4>2. g[n - 1] = f[n - 1]
        BY <4>1
      <4> QED
        BY <2>2, <3>2, <4>2
    <3> QED
      BY <3>1, <3>2
  <2>4. g = Body(g, i)
    BY <2>3
  <2>5. \E h : h = Body(h, i)
    BY <2>4
  <2> QED
    BY <2>5, <1>1
<1>4. Len(docs) \in Possible
  <2> HIDE DEF Possible
  <2>1. \A i \in 1 .. Len(docs) : i - 1 \in Possible => i \in Possible
    BY <1>3
  <2>2. 0 .. Len(docs) \subseteq Possible
    BY <1>1, <1>2, <2>1, Counting, Zenon
  <2> QED
    BY <2>2, <1>1
<1> DEFINE g == CHOOSE f : f = Body(f, Len(docs))
<1>5. \E f : f = Body(f, Len(docs))
  BY <1>4
<1>6. Without(docs, people) = g[Len(docs)]
  BY DEF Without, Taken
<1>7. g = Body(g, Len(docs))
  <2> HIDE DEF Body
  <2> QED
    BY <1>5, Zenon
<1> HIDE DEF g
<1>8. ASSUME NEW n \in 0 .. Len(docs)
      PROVE  g[n] = IF n = 0 THEN <<>> ELSE Taken(docs, people, g[n - 1], n)
  <2>1. Body(g, Len(docs))[n] = IF n = 0 THEN <<>> ELSE Taken(docs, people, g[n - 1], n)
    OBVIOUS
  <2> QED
    BY <2>1, <1>7, Zenon
<1> HIDE DEF Body
<1>9. g[0] = <<>>
  BY <1>1, <1>8
<1>10. \A n \in 1 .. Len(docs) : g[n] = Taken(docs, people, g[n - 1], n)
  BY <1>1, <1>8
<1> QED
  BY <1>6, <1>9, <1>10

\* Without keeps the documents of everybody else.
Rest(S, docs, people, n, rest) ==
  /\ rest \in Seq(S)
  /\ \A k \in DOMAIN rest : \E i \in 1 .. n : rest[k] = docs[i] /\ docs[i].who \notin people
  /\ \A i \in 1 .. n : docs[i].who \notin people => \E k \in DOMAIN rest : rest[k] = docs[i]
  /\ Distinct(docs) => Distinct(rest)

\* By induction on the documents: what Without leaves of a part of them is as Rest says.
LEMMA WithoutRest ==
  ASSUME NEW S, NEW docs \in Seq(S), NEW people
  PROVE  Rest(S, docs, people, Len(docs), Without(docs, people))
<1>1. PICK f : /\ f[0] = <<>>
               /\ \A n \in 1 .. Len(docs) : f[n] = Taken(docs, people, f[n - 1], n)
               /\ Without(docs, people) = f[Len(docs)]
  BY WithoutEquation
<1>2. Len(docs) \in Nat /\ DOMAIN docs = 1 .. Len(docs) /\ \A i \in 1 .. Len(docs) : docs[i] \in S
  BY LenProperties, ElementOfSeq
<1>3. Rest(S, docs, people, 0, <<>>)
  BY EmptySeq DEF Rest, Distinct
<1>4. ASSUME NEW n \in 1 .. Len(docs), NEW r, Rest(S, docs, people, n - 1, r)
      PROVE  Rest(S, docs, people, n, Taken(docs, people, r, n))
  <2>1. CASE docs[n].who \in people
    BY <1>4, <2>1 DEF Rest, Taken
  <2>2. CASE docs[n].who \notin people
    <3> DEFINE new == Append(r, docs[n])
    <3>1. r \in Seq(S) /\ docs[n] \in S
      BY <1>2, <1>4 DEF Rest
    <3>2. /\ new \in Seq(S) /\ Len(r) \in Nat /\ DOMAIN r = 1 .. Len(r)
          /\ DOMAIN new = 1 .. Len(r) + 1
          /\ \A i \in 1 .. Len(r) : new[i] = r[i]
          /\ new[Len(r) + 1] = docs[n]
      BY <3>1, AppendProperties, LenProperties
    <3> HIDE DEF new
    <3>3. ASSUME NEW k \in DOMAIN new
          PROVE  \E i \in 1 .. n : new[k] = docs[i] /\ docs[i].who \notin people
      <4>1. CASE k \in 1 .. Len(r)
        <5>1. PICK i \in 1 .. n - 1 : r[k] = docs[i] /\ docs[i].who \notin people
          BY <4>1, <1>4, <3>2 DEF Rest
        <5> QED
          BY <5>1, <4>1, <3>2
      <4>2. CASE k = Len(r) + 1
        BY <4>2, <3>2, <2>2
      <4> QED
        BY <3>2, <4>1, <4>2
    <3>4. ASSUME NEW i \in 1 .. n, docs[i].who \notin people PROVE \E k \in DOMAIN new : new[k] = docs[i]
      <4>1. CASE i = n
        BY <4>1, <3>2
      <4>2. CASE i # n
        <5>1. PICK k \in DOMAIN r : r[k] = docs[i]
          BY <4>2, <3>4, <1>4 DEF Rest
        <5> QED
          BY <5>1, <3>2
      <4> QED
        BY <4>1, <4>2
    <3>5. ASSUME Distinct(docs) PROVE Distinct(new)
      <4>1. ASSUME NEW k \in 1 .. Len(r), r[k].who = docs[n].who PROVE FALSE
        <5>1. PICK i \in 1 .. n - 1 : r[k] = docs[i]
          BY <1>4, <3>2 DEF Rest
        <5>2. i \in DOMAIN docs /\ n \in DOMAIN docs /\ docs[i].who = docs[n].who
          BY <5>1, <4>1, <1>2
        <5> QED
          BY <5>1, <5>2, <3>5 DEF Distinct
      <4>2. Distinct(r)
        BY <1>4, <3>5 DEF Rest
      <4>3. \A k \in DOMAIN new : k \in 1 .. Len(r) \/ k = Len(r) + 1
        BY <3>2
      <4> QED
        BY <4>1, <4>2, <4>3, <3>2 DEF Distinct
    <3>6. Rest(S, docs, people, n, new)
      BY <3>2, <3>3, <3>4, <3>5 DEF Rest
    <3>7. Taken(docs, people, r, n) = new
      BY <2>2 DEF Taken, new
    <3> QED
      BY <3>6, <3>7, Zenon
  <2> QED
    BY <2>1, <2>2
<1> DEFINE Right == {n \in Nat : n <= Len(docs) => Rest(S, docs, people, n, f[n])}
<1>5. 0 \in Right
  BY <1>1, <1>3
<1>6. \A n \in 1 .. Len(docs) : n - 1 \in Right => n \in Right
  BY <1>1, <1>2, <1>4
<1>7. Len(docs) \in Right
  <2> HIDE DEF Right
  <2>1. 0 .. Len(docs) \subseteq Right
    BY <1>2, <1>5, <1>6, Counting, Zenon
  <2> QED
    BY <2>1, <1>2
<1> QED
  BY <1>7, <1>1, <1>2

Left(docs, people, rest) ==
  /\ \A k \in DOMAIN rest : \E i \in DOMAIN docs : rest[k] = docs[i] /\ docs[i].who \notin people
  /\ \A i \in DOMAIN docs : docs[i].who \notin people => \E k \in DOMAIN rest : rest[k] = docs[i]

\* What Without leaves are the documents of other addresses, still one for each.
LEMMA WithoutKeeps ==
  ASSUME NEW S, NEW docs \in Seq(S), NEW people, NEW rest, rest = Without(docs, people)
  PROVE  rest \in Seq(S) /\ (Distinct(docs) => Distinct(rest)) /\ Left(docs, people, rest)
<1>1. Rest(S, docs, people, Len(docs), rest) /\ DOMAIN docs = 1 .. Len(docs)
  BY WithoutRest, LenProperties
<1> QED
  BY <1>1 DEF Rest, Left

-----------------------------------------------------------------------------
(* Counting. *)

\* No more than n elements have fewer than n before them.
LEMMA FewFirst ==
  ASSUME NEW I, IsFiniteSet(I), NEW before \in [I -> SUBSET I], NEW n \in Nat,
         \A i \in I : i \notin before[i],
         \A i, j \in I : j \in before[i] => before[j] \subseteq before[i],
         \A i, j \in I : i # j => i \in before[j] \/ j \in before[i],
         NEW F, F = {i \in I : Cardinality(before[i]) < n}
  PROVE  IsFiniteSet(F) /\ Cardinality(F) <= n
<1> DEFINE r == [i \in F |-> Cardinality(before[i])]
<1>1. \A i \in I : IsFiniteSet(before[i]) /\ Cardinality(before[i]) \in Nat
  BY FS_Subset, FS_CardinalityType
<1>2. ASSUME NEW i \in I, NEW j \in before[i] PROVE Cardinality(before[j]) < Cardinality(before[i])
  <2>1. j \in I /\ before[j] \in SUBSET before[i] /\ j \notin before[j]
    OBVIOUS
  <2>2. /\ Cardinality(before[j]) <= Cardinality(before[i])
        /\ Cardinality(before[i]) = Cardinality(before[j]) => before[i] = before[j]
    BY <2>1, <1>1, FS_Subset
  <2>3. Cardinality(before[i]) # Cardinality(before[j])
    BY <2>1, <2>2
  <2> QED
    BY <2>1, <2>2, <2>3, <1>1
<1>3. r \in [F -> 1 .. n] \/ r \in [F -> 0 .. n - 1]
  BY <1>1
<1>4. \A i, j \in F : r[i] = r[j] => i = j
  <2>1. ASSUME NEW i \in F, NEW j \in F, r[i] = r[j], i # j PROVE FALSE
    <3>1. i \in I /\ j \in I /\ Cardinality(before[i]) = Cardinality(before[j])
      BY <2>1
    <3>2. i \in before[j] \/ j \in before[i]
      BY <2>1, <3>1
    <3>3. Cardinality(before[i]) \in Nat /\ Cardinality(before[j]) \in Nat
      BY <3>1, <1>1
    <3> QED
      BY <1>2, <3>1, <3>2, <3>3
  <2> QED
    BY <2>1
<1>5. r \in [F -> 0 .. n - 1]
  <2>1. \A i \in F : Cardinality(before[i]) \in 0 .. n - 1
    BY <1>1
  <2> QED
    BY <2>1
<1>6. r \in Injection(F, 0 .. n - 1)
  BY <1>4, <1>5 DEF Injection, IsInjective
<1>7. IsFiniteSet(0 .. n - 1) /\ Cardinality(0 .. n - 1) = n
  <2>1. 0 \in Int /\ n - 1 \in Int
    OBVIOUS
  <2>2. IsFiniteSet(0 .. n - 1) /\ Cardinality(0 .. n - 1) = IF 0 > n - 1 THEN 0 ELSE n - 1 - 0 + 1
    BY <2>1, FS_Interval
  <2> QED
    BY <2>2
<1> HIDE DEF r
<1> QED
  BY <1>6, <1>7, FS_Injection

\* Documents of different addresses are as many as their addresses.
LEMMA ByAddress ==
  ASSUME NEW S, NEW docs \in Seq(S), Distinct(docs), NEW I \in SUBSET DOMAIN docs,
         NEW W, \A w : w \in W <=> \E i \in I : docs[i].who = w
  PROVE  /\ IsFiniteSet(I) /\ IsFiniteSet(W) /\ Cardinality(I) \in Nat
         /\ Cardinality(W) = Cardinality(I)
<1> DEFINE f == [i \in I |-> docs[i].who]
<1>1. IsFiniteSet(DOMAIN docs)
  <2>1. Len(docs) \in Int /\ 1 \in Int /\ DOMAIN docs = 1 .. Len(docs)
    BY LenProperties
  <2> QED
    BY <2>1, FS_Interval
<1>2. IsFiniteSet(I) /\ Cardinality(I) \in Nat
  BY <1>1, FS_Subset, FS_CardinalityType
<1>3. f \in Bijection(I, W)
  <2>1. f \in [I -> W]
    OBVIOUS
  <2>2. \A i, j \in I : f[i] = f[j] => i = j
    BY DEF Distinct
  <2>3. \A w \in W : \E i \in I : f[i] = w
    OBVIOUS
  <2> HIDE DEF f
  <2> QED
    BY <2>1, <2>2, <2>3 DEF Bijection, Injection, Surjection, IsInjective
<1>4. ExistsBijection(I, W)
  BY <1>3 DEF ExistsBijection
<1> QED
  BY <1>2, <1>4, FS_Bijection

-----------------------------------------------------------------------------
(* The invariant. *)

\* The addresses that use a seat, and those that an invitation reserves one for.
Using(d) == {d.members[i].who : i \in Used(d)}
Holding(d) == {d.invites[i].who : i \in Reserved(d)}

\* Addresses are unique; seats given outside the quota are in use; the owner's address is
\* verified; an override that is there was not retired.
Sound(d) ==
  /\ d \in DbType
  /\ Distinct(d.members) /\ Distinct(d.invites)
  /\ d.granted \subseteq Using(d)
  /\ \A i \in Seats(d) : d.members[i].who = Owner => d.members[i].verified
  /\ d.override # None => ~d.swallowed

\* What the steps outside the guard may have made of d since it was s: nobody joined, and
\* who has a seat now and had none then was granted it since.
Fades(s, d) ==
  \/ d.override = s.override /\ d.swallowed = s.swallowed
  \/ s.override # None /\ d.override # None /\ d.override.late /\ d.swallowed = s.swallowed
  \/ s.override # None /\ d.override = None /\ d.swallowed

Since(s, d) ==
  /\ d.plan = s.plan /\ Fades(s, d)
  /\ Members(d) \subseteq Members(s)
  /\ Invited(d) \subseteq Invited(s) /\ Holding(d) \subseteq Holding(s)
  /\ Using(d) \ Using(s) \subseteq d.granted \ s.granted
  /\ s.granted \cap Using(d) \subseteq d.granted

Fits(d) == ~Due(d) /\ ~d.swallowed => Committed(d) <= Larger(1, Limit(d)) + Cardinality(d.granted)

IInv ==
  /\ Sound(db) /\ Fits(db)
  /\ held # None => Sound(held) /\ Since(held, db)
  /\ edit \in [read : UserType, status : Statuses] \cup {None}
  /\ edits \in 0 .. MaxEdits

-----------------------------------------------------------------------------
(* What the documents hold. *)

\* The fields of the tenant have their types.
LEMMA DbFields ==
  ASSUME NEW d \in DbType
  PROVE  /\ d.members \in Seq(UserType) /\ d.invites \in Seq(InviteType) /\ d.plan \in Limits
         /\ d.override \in [grant : Grants, late : BOOLEAN] \cup {None}
         /\ d.suspended \in BOOLEAN /\ d.granted \in SUBSET People /\ d.swallowed \in BOOLEAN
         /\ d = [members |-> d.members, invites |-> d.invites, plan |-> d.plan,
                 override |-> d.override, suspended |-> d.suspended, granted |-> d.granted,
                 swallowed |-> d.swallowed]
BY DEF DbType

\* A member is what its document says.
LEMMA MemberIs ==
  ASSUME NEW d, Distinct(d.members), NEW i \in Seats(d), NEW w, d.members[i].who = w
  PROVE  Member(d, w) = d.members[i]
<1>1. \A j \in Seats(d) : d.members[j].who = w => j = i
  BY DEF Distinct, Seats
<1> DEFINE c == CHOOSE j \in Seats(d) : d.members[j].who = w
<1>2. c \in Seats(d) /\ d.members[c].who = w
  BY Zenon
<1> HIDE DEF c
<1>3. c = i
  BY <1>1, <1>2
<1>4. Member(d, w) = d.members[c]
  BY DEF Member, c
<1> QED
  BY <1>3, <1>4

\* Seats and reservations are counted by address.
LEMMA CountedSeats ==
  ASSUME NEW d, d.members \in Seq(UserType), Distinct(d.members)
  PROVE  IsFiniteSet(Using(d)) /\ Cardinality(Using(d)) = Cardinality(Used(d))
<1>1. Used(d) \in SUBSET DOMAIN d.members
  BY DEF Used, Seats
<1>2. \A w : w \in Using(d) <=> \E i \in Used(d) : d.members[i].who = w
  BY DEF Using
<1>3. PICK docs, I, W : docs = d.members /\ I = Used(d) /\ W = Using(d)
  OBVIOUS
<1>4. docs \in Seq(UserType) /\ Distinct(docs) /\ I \in SUBSET DOMAIN docs
  BY <1>1, <1>3
<1>5. \A w : w \in W <=> \E i \in I : docs[i].who = w
  BY <1>2, <1>3
<1>6. IsFiniteSet(W) /\ Cardinality(W) = Cardinality(I)
  BY <1>4, <1>5, ByAddress
<1> QED
  BY <1>3, <1>6

\* Reservations are counted by the addresses that hold them.
LEMMA CountedInvites ==
  ASSUME NEW d, d.invites \in Seq(InviteType), Distinct(d.invites)
  PROVE  IsFiniteSet(Holding(d)) /\ Cardinality(Holding(d)) = Cardinality(Reserved(d))
<1>1. Reserved(d) \in SUBSET DOMAIN d.invites
  BY DEF Reserved
<1>2. \A w : w \in Holding(d) <=> \E i \in Reserved(d) : d.invites[i].who = w
  BY DEF Holding
<1> QED
  BY <1>1, <1>2, ByAddress

\* The seats committed are the addresses that use one and those that hold one.
LEMMA Counted ==
  ASSUME NEW d, Sound(d)
  PROVE  /\ IsFiniteSet(Using(d)) /\ IsFiniteSet(Holding(d)) /\ IsFiniteSet(d.granted)
         /\ Committed(d) = Cardinality(Using(d)) + Cardinality(Holding(d))
<1>1. /\ d.members \in Seq(UserType) /\ Distinct(d.members)
      /\ d.invites \in Seq(InviteType) /\ Distinct(d.invites)
  BY DbFields DEF Sound
<1>2. IsFiniteSet(Using(d)) /\ Cardinality(Using(d)) = Cardinality(Used(d))
  BY <1>1, CountedSeats
<1>3. IsFiniteSet(Holding(d)) /\ Cardinality(Holding(d)) = Cardinality(Reserved(d))
  BY <1>1, CountedInvites
<1>4. IsFiniteSet(d.granted)
  BY <1>2, FS_Subset DEF Sound
<1> QED
  BY <1>2, <1>3, <1>4 DEF Committed

-----------------------------------------------------------------------------
(* Transactions. *)

Apart(a, b) == \A i \in DOMAIN a, j \in DOMAIN b : a[i].who # b[j].who

Joins(a, b, c) ==
  /\ \A i \in DOMAIN a : i \in DOMAIN c /\ c[i] = a[i]
  /\ \A k \in DOMAIN c : k \in DOMAIN a \/ \E j \in DOMAIN b : c[k] = b[j]
  /\ \A j \in DOMAIN b : \E k \in DOMAIN c : c[k] = b[j]

\* Documents of other addresses are added.
LEMMA Joined ==
  ASSUME NEW S, NEW a \in Seq(S), NEW b \in Seq(S), Distinct(a), Distinct(b), Apart(a, b),
         NEW c, c = a \o b
  PROVE  c \in Seq(S) /\ Distinct(c) /\ Joins(a, b, c)
<1>1. /\ Len(a) \in Nat /\ Len(b) \in Nat /\ DOMAIN a = 1 .. Len(a) /\ DOMAIN b = 1 .. Len(b)
      /\ c \in Seq(S) /\ Len(c) = Len(a) + Len(b) /\ DOMAIN c = 1 .. Len(a) + Len(b)
      /\ \A k \in 1 .. Len(a) + Len(b) : c[k] = IF k <= Len(a) THEN a[k] ELSE b[k - Len(a)]
  BY ConcatProperties, LenProperties
<1>2. \A k \in DOMAIN c : k \notin DOMAIN a => k - Len(a) \in DOMAIN b /\ c[k] = b[k - Len(a)]
  BY <1>1
<1>3. \A j \in DOMAIN b : j + Len(a) \in DOMAIN c /\ c[j + Len(a)] = b[j]
  BY <1>1
<1>4. \A i \in DOMAIN a : i \in DOMAIN c /\ c[i] = a[i]
  BY <1>1
<1>5. ASSUME NEW k \in DOMAIN c, NEW m \in DOMAIN c, c[k].who = c[m].who PROVE k = m
  <2>1. CASE k \in DOMAIN a /\ m \in DOMAIN a
    BY <2>1, <1>4, <1>5 DEF Distinct
  <2>2. CASE k \notin DOMAIN a /\ m \notin DOMAIN a
    <3>1. k - Len(a) = m - Len(a)
      BY <2>2, <1>2, <1>5 DEF Distinct
    <3> QED
      BY <3>1, <1>1
  <2>3. CASE k \in DOMAIN a /\ m \notin DOMAIN a
    BY <2>3, <1>2, <1>4, <1>5 DEF Apart
  <2>4. CASE k \notin DOMAIN a /\ m \in DOMAIN a
    BY <2>4, <1>2, <1>4, <1>5 DEF Apart
  <2> QED
    BY <2>1, <2>2, <2>3, <2>4
<1>6. Distinct(c)
  BY <1>5 DEF Distinct
<1>7. Joins(a, b, c)
  BY <1>2, <1>3, <1>4 DEF Joins
<1> QED
  BY <1>1, <1>6, <1>7

\* What a transaction that patches and adds members makes of a sequence of them.
IsPatched(m, patch, r) ==
  /\ DOMAIN r = DOMAIN m
  /\ \A i \in DOMAIN m : /\ r[i].who = m[i].who
                         /\ m[i].who \in DOMAIN patch => r[i] = patch[m[i].who]
                         /\ m[i].who \notin DOMAIN patch => r[i] = m[i]

Patched(m, patch) == [i \in DOMAIN m |-> IF m[i].who \in DOMAIN patch THEN patch[m[i].who] ELSE m[i]]

OwnPatches(patch) == \A w \in DOMAIN patch : patch[w] \in UserType /\ patch[w].who = w

\* Members whose documents are replaced by others of the same addresses.
LEMMA PatchedMembers ==
  ASSUME NEW m \in Seq(UserType), Distinct(m), NEW patch, OwnPatches(patch),
         NEW r, r = Patched(m, patch)
  PROVE  r \in Seq(UserType) /\ Distinct(r) /\ IsPatched(m, patch, r)
<1>1. Len(m) \in Nat /\ DOMAIN m = 1 .. Len(m) /\ \A i \in DOMAIN m : m[i] \in UserType
  BY LenProperties, ElementOfSeq
<1>2. /\ DOMAIN r = DOMAIN m
      /\ \A i \in DOMAIN m : r[i] = IF m[i].who \in DOMAIN patch THEN patch[m[i].who] ELSE m[i]
  BY DEF Patched
<1>3. \A i \in DOMAIN m : r[i] \in UserType /\ r[i].who = m[i].who
  BY <1>1, <1>2 DEF OwnPatches
<1>4. r \in [1 .. Len(m) -> UserType]
  <2>1. r = [i \in DOMAIN r |-> r[i]]
    BY DEF Patched
  <2> QED
    BY <2>1, <1>1, <1>2, <1>3
<1>5. r \in Seq(UserType)
  BY <1>1, <1>4, SeqDef
<1>6. Distinct(r)
  BY <1>2, <1>3 DEF Distinct
<1>7. IsPatched(m, patch, r)
  BY <1>2, <1>3 DEF IsPatched
<1> QED
  BY <1>5, <1>6, <1>7

\* The members and invitations of the people that are in use and reserved.
LEMMA UsingIs ==
  ASSUME NEW d, NEW w
  PROVE  w \in Using(d) <=>
           \E i \in DOMAIN d.members : /\ d.members[i].who = w
                                       /\ d.members[i].status # "blocked" \/ w = Owner
BY DEF Using, Used, Seats

\* The same of the invitations: one that has not lapsed.
LEMMA HoldingIs ==
  ASSUME NEW d, NEW w
  PROVE  w \in Holding(d) <=> \E i \in DOMAIN d.invites : d.invites[i].who = w /\ ~d.invites[i].late
BY DEF Holding, Reserved

\* A transaction on a snapshot: the members and the invitations that it leaves.
MembersAfter(m, patch, hired, mm) ==
  /\ \A i \in DOMAIN m : /\ i \in DOMAIN mm /\ mm[i].who = m[i].who
                         /\ m[i].who \in DOMAIN patch => mm[i] = patch[m[i].who]
                         /\ m[i].who \notin DOMAIN patch => mm[i] = m[i]
  /\ \A k \in DOMAIN mm : k \in DOMAIN m \/ \E j \in DOMAIN hired : mm[k] = hired[j]
  /\ \A j \in DOMAIN hired : \E k \in DOMAIN mm : mm[k] = hired[j]

\* The members that a transaction leaves.
LEMMA JoinedMembers ==
  ASSUME NEW m \in Seq(UserType), NEW patch, Distinct(m), OwnPatches(patch),
         NEW hired \in Seq(UserType), Distinct(hired), Apart(m, hired),
         NEW mm, mm = Patched(m, patch) \o hired
  PROVE  mm \in Seq(UserType) /\ Distinct(mm) /\ MembersAfter(m, patch, hired, mm)
<1>1. PICK r : r = Patched(m, patch)
  OBVIOUS
<1>2. r \in Seq(UserType) /\ Distinct(r) /\ IsPatched(m, patch, r)
  BY <1>1, PatchedMembers
<1>3. Apart(r, hired)
  BY <1>2 DEF IsPatched, Apart
<1>4. mm \in Seq(UserType) /\ Distinct(mm) /\ Joins(r, hired, mm)
  BY <1>1, <1>2, <1>3, Joined
<1>5. MembersAfter(m, patch, hired, mm)
  BY <1>2, <1>4 DEF MembersAfter, IsPatched, Joins
<1> QED
  BY <1>4, <1>5

InvitesAfter(v, dropped, sent, vv) ==
  /\ \A i \in DOMAIN v : v[i].who \notin dropped => \E k \in DOMAIN vv : vv[k] = v[i]
  /\ \A k \in DOMAIN vv : \/ \E i \in DOMAIN v : vv[k] = v[i] /\ v[i].who \notin dropped
                          \/ \E j \in DOMAIN sent : vv[k] = sent[j]
  /\ \A j \in DOMAIN sent : \E k \in DOMAIN vv : vv[k] = sent[j]

\* The invitations that a transaction leaves.
LEMMA JoinedInvites ==
  ASSUME NEW v \in Seq(InviteType), NEW dropped, Distinct(v), NEW sent \in Seq(InviteType), Distinct(sent),
         \A i \in DOMAIN v, j \in DOMAIN sent : v[i].who \notin dropped => v[i].who # sent[j].who,
         NEW vv, vv = Without(v, dropped) \o sent
  PROVE  vv \in Seq(InviteType) /\ Distinct(vv) /\ InvitesAfter(v, dropped, sent, vv)
<1>1. PICK r : r = Without(v, dropped)
  OBVIOUS
<1>2. r \in Seq(InviteType) /\ (Distinct(v) => Distinct(r)) /\ Left(v, dropped, r)
  BY <1>1, WithoutKeeps
<1>3. Apart(r, sent)
  BY <1>2 DEF Left, Apart
<1>4. vv \in Seq(InviteType) /\ Distinct(vv) /\ Joins(r, sent, vv)
  BY <1>1, <1>2, <1>3, Joined
<1>5. ASSUME NEW k \in DOMAIN vv
      PROVE  \/ \E i \in DOMAIN v : vv[k] = v[i] /\ v[i].who \notin dropped
             \/ \E j \in DOMAIN sent : vv[k] = sent[j]
  <2>1. CASE k \in DOMAIN r
    <3>1. PICK i \in DOMAIN v : r[k] = v[i] /\ v[i].who \notin dropped
      BY <2>1, <1>2 DEF Left
    <3>2. vv[k] = r[k]
      BY <2>1, <1>4 DEF Joins
    <3> QED
      BY <3>1, <3>2
  <2>2. CASE k \notin DOMAIN r
    BY <2>2, <1>4 DEF Joins
  <2> QED
    BY <2>1, <2>2
<1>6. ASSUME NEW i \in DOMAIN v, v[i].who \notin dropped PROVE \E k \in DOMAIN vv : vv[k] = v[i]
  <2>1. PICK k \in DOMAIN r : r[k] = v[i]
    BY <1>2, <1>6 DEF Left
  <2> QED
    BY <2>1, <1>4 DEF Joins
<1>7. \A j \in DOMAIN sent : \E k \in DOMAIN vv : vv[k] = sent[j]
  BY <1>4 DEF Joins
<1>8. InvitesAfter(v, dropped, sent, vv)
  BY <1>5, <1>6, <1>7 DEF InvitesAfter
<1> QED
  BY <1>4, <1>8

\* A transaction on a snapshot.
LEMMA CommitStep ==
  ASSUME Sound(db), NEW s, Sound(s), Since(s, db),
         NEW patch, \A w \in DOMAIN patch : patch[w] \in UserType /\ patch[w].who = w /\ w \in People,
         NEW hired \in Seq(UserType), Distinct(hired),
         \A j \in DOMAIN hired : hired[j].who \in People \ Members(s),
         NEW dropped, NEW sent \in Seq(InviteType), Distinct(sent),
         \A j \in DOMAIN sent : sent[j].who \notin Invited(s) \ dropped,
         NEW org \in DbType, Commit(s, patch, hired, dropped, sent, org)
  PROVE  /\ db' \in DbType /\ Distinct(db'.members) /\ Distinct(db'.invites)
         /\ \A i \in Seats(db') : db'.members[i].who = Owner => db'.members[i].verified
         /\ \A w \in DOMAIN patch : w \in Members(db) /\ Member(db, w) = Member(s, w)
         /\ Using(db') = (Using(db) \ DOMAIN patch)
                          \cup {w \in DOMAIN patch : patch[w].status # "blocked"}
                          \cup {hired[j].who : j \in {i \in DOMAIN hired : hired[i].status # "blocked"}}
         /\ Holding(db') = (Holding(db) \ dropped)
                            \cup {sent[j].who : j \in {i \in DOMAIN sent : ~sent[i].late}}
         /\ db'.plan = org.plan /\ db'.override = org.override /\ db'.suspended = org.suspended
         /\ db'.granted = org.granted /\ db'.swallowed = org.swallowed
         /\ \A w : Suspended(db, w) /\ w \notin DOMAIN patch => Suspended(db', w)
         /\ held' = None /\ UNCHANGED <<edit, edits>>
<1>1. /\ db.members \in Seq(UserType) /\ Distinct(db.members)
      /\ db.invites \in Seq(InviteType) /\ Distinct(db.invites)
  BY DbFields DEF Sound
<1> DEFINE mm == Patched(db.members, patch) \o hired
           vv == Without(db.invites, dropped) \o sent
<1>2. NoConflict(s, patch, dropped) /\ Serialized /\ UNCHANGED <<edit, edits>>
      /\ db' = [org EXCEPT !.members = mm, !.invites = vv]
  <2>1. Patched(db.members, patch) =
          [i \in Seats(db) |-> IF db.members[i].who \in DOMAIN patch
                               THEN patch[db.members[i].who] ELSE db.members[i]]
    BY DEF Patched, Seats
  <2> QED
    BY <2>1, Zenon DEF Commit
<1>3. PICK m, v : m = db.members /\ v = db.invites
  OBVIOUS
<1>4. mm = Patched(m, patch) \o hired /\ vv = Without(v, dropped) \o sent
  BY <1>3
<1> HIDE DEF mm, vv
<1>5. mm \in Seq(UserType) /\ Distinct(mm) /\ MembersAfter(m, patch, hired, mm)
  <2>1. Apart(m, hired)
    <3>1. \A i \in DOMAIN m : m[i].who \in Members(db)
      BY <1>3 DEF Members, Seats
    <3>2. Members(db) \subseteq Members(s)
      BY DEF Since
    <3> QED
      BY <3>1, <3>2 DEF Apart
  <2>2. m \in Seq(UserType) /\ Distinct(m) /\ OwnPatches(patch)
    BY <1>1, <1>3 DEF OwnPatches
  <2> QED
    BY <2>1, <2>2, <1>4, JoinedMembers
<1>6. vv \in Seq(InviteType) /\ Distinct(vv) /\ InvitesAfter(v, dropped, sent, vv)
  <2>1. \A i \in DOMAIN v, j \in DOMAIN sent : v[i].who \notin dropped => v[i].who # sent[j].who
    <3>1. \A i \in DOMAIN v : v[i].who \in Invited(db)
      BY <1>3 DEF Invited
    <3>2. Invited(db) \subseteq Invited(s)
      BY DEF Since
    <3> QED
      BY <3>1, <3>2
  <2>2. v \in Seq(InviteType) /\ Distinct(v)
    BY <1>1, <1>3
  <2> QED
    BY <2>1, <2>2, <1>4, JoinedInvites
<1>7. /\ db'.members = mm /\ db'.invites = vv /\ db'.plan = org.plan /\ db'.override = org.override
      /\ db'.suspended = org.suspended /\ db'.granted = org.granted /\ db'.swallowed = org.swallowed
      /\ db' \in DbType
  <2>1. PICK me, iv, pl, ov, su, gr, sw :
          /\ org = [members |-> me, invites |-> iv, plan |-> pl, override |-> ov, suspended |-> su,
                    granted |-> gr, swallowed |-> sw]
          /\ pl \in Limits /\ ov \in [grant : Grants, late : BOOLEAN] \cup {None} /\ su \in BOOLEAN
          /\ gr \in SUBSET People /\ sw \in BOOLEAN
    BY DEF DbType
  <2>2. db' = [members |-> mm, invites |-> vv, plan |-> pl, override |-> ov, suspended |-> su,
               granted |-> gr, swallowed |-> sw]
    BY <1>2, <2>1
  <2> QED
    BY <2>1, <2>2, <1>5, <1>6 DEF DbType
<1>8. \A w \in DOMAIN patch : w \in Members(db) /\ Member(db, w) = Member(s, w)
  BY <1>2 DEF NoConflict
<1>9. Using(db') = (Using(db) \ DOMAIN patch)
                     \cup {w \in DOMAIN patch : patch[w].status # "blocked"}
                     \cup {hired[j].who : j \in {i \in DOMAIN hired : hired[i].status # "blocked"}}
  <2> DEFINE H == {hired[j].who : j \in {i \in DOMAIN hired : hired[i].status # "blocked"}}
             Q == {w \in DOMAIN patch : patch[w].status # "blocked"}
  <2>0. Owner \notin People
    BY PeopleAssumption
  <2>1. ASSUME NEW w, w \in Using(db') PROVE w \in (Using(db) \ DOMAIN patch) \cup Q \cup H
    <3>1. PICK k \in DOMAIN mm : mm[k].who = w /\ (mm[k].status # "blocked" \/ w = Owner)
      BY <2>1, <1>7, UsingIs
    <3>2. CASE k \in DOMAIN m
      <4>1. k \in DOMAIN db.members /\ m[k].who = w
        BY <3>1, <3>2, <1>3, <1>5 DEF MembersAfter
      <4>2. CASE w \in DOMAIN patch
        BY <4>1, <4>2, <3>1, <3>2, <1>5, <2>0 DEF MembersAfter
      <4>3. CASE w \notin DOMAIN patch
        <5>1. w \in Using(db)
          BY <4>1, <4>3, <3>1, <3>2, <1>3, <1>5, UsingIs DEF MembersAfter
        <5> QED
          BY <5>1, <4>3
      <4> QED
        BY <4>2, <4>3
    <3>3. ASSUME NEW j \in DOMAIN hired, mm[k] = hired[j] PROVE w \in H
      <4>1. hired[j].status # "blocked" /\ hired[j].who = w
        BY <3>1, <3>3, <2>0
      <4> QED
        BY <4>1
    <3> QED
      BY <3>2, <3>3, <1>5 DEF MembersAfter
  <2>2. ASSUME NEW w \in Using(db) \ DOMAIN patch PROVE w \in Using(db')
    <3>1. PICK i \in DOMAIN db.members :
            db.members[i].who = w /\ (db.members[i].status # "blocked" \/ w = Owner)
      BY <2>2, UsingIs
    <3>2. i \in DOMAIN mm /\ mm[i] = db.members[i]
      BY <3>1, <2>2, <1>3, <1>5 DEF MembersAfter
    <3> QED
      BY <3>1, <3>2, <1>7, UsingIs
  <2>3. ASSUME NEW w \in Q PROVE w \in Using(db')
    <3>1. PICK i \in DOMAIN db.members : db.members[i].who = w
      BY <1>8 DEF Members, Seats
    <3>2. i \in DOMAIN mm /\ mm[i] = patch[w] /\ mm[i].who = w
      BY <3>1, <1>3, <1>5 DEF MembersAfter
    <3> QED
      BY <3>2, <1>7, UsingIs
  <2>4. ASSUME NEW j \in DOMAIN hired, hired[j].status # "blocked" PROVE hired[j].who \in Using(db')
    <3>1. PICK k \in DOMAIN mm : mm[k] = hired[j]
      BY <1>5 DEF MembersAfter
    <3> QED
      BY <3>1, <2>4, <1>7, UsingIs
  <2> QED
    BY <2>1, <2>2, <2>3, <2>4
<1>10. Holding(db') = (Holding(db) \ dropped)
                        \cup {sent[j].who : j \in {i \in DOMAIN sent : ~sent[i].late}}
  <2> DEFINE H == {sent[j].who : j \in {i \in DOMAIN sent : ~sent[i].late}}
  <2>1. ASSUME NEW w, w \in Holding(db') PROVE w \in (Holding(db) \ dropped) \cup H
    <3>1. PICK k \in DOMAIN vv : vv[k].who = w /\ ~vv[k].late
      BY <2>1, <1>7, HoldingIs
    <3>2. ASSUME NEW i \in DOMAIN v, vv[k] = v[i], v[i].who \notin dropped
          PROVE  w \in Holding(db) \ dropped
      <4>1. w \in Holding(db)
        BY <3>1, <3>2, <1>3, HoldingIs
      <4> QED
        BY <4>1, <3>1, <3>2
    <3>3. ASSUME NEW j \in DOMAIN sent, vv[k] = sent[j] PROVE w \in H
      BY <3>1, <3>3
    <3> QED
      BY <3>2, <3>3, <1>6 DEF InvitesAfter
  <2>2. ASSUME NEW w \in Holding(db) \ dropped PROVE w \in Holding(db')
    <3>1. PICK i \in DOMAIN db.invites : db.invites[i].who = w /\ ~db.invites[i].late
      BY <2>2, HoldingIs
    <3>2. PICK k \in DOMAIN vv : vv[k] = db.invites[i]
      BY <3>1, <2>2, <1>3, <1>6 DEF InvitesAfter
    <3> QED
      BY <3>1, <3>2, <1>7, HoldingIs
  <2>3. ASSUME NEW j \in DOMAIN sent, ~sent[j].late PROVE sent[j].who \in Holding(db')
    <3>1. PICK k \in DOMAIN vv : vv[k] = sent[j]
      BY <1>6 DEF InvitesAfter
    <3> QED
      BY <3>1, <2>3, <1>7, HoldingIs
  <2> QED
    BY <2>1, <2>2, <2>3
<1>11. ASSUME NEW i \in Seats(db'), db'.members[i].who = Owner PROVE db'.members[i].verified
  <2>1. i \in DOMAIN mm /\ mm[i].who = Owner /\ Owner \notin People
    BY <1>7, <1>11, PeopleAssumption DEF Seats
  <2>2. i \in DOMAIN m
    BY <2>1, <1>5 DEF MembersAfter
  <2>3. mm[i] = db.members[i] /\ db.members[i].who = Owner /\ i \in Seats(db)
    BY <2>1, <2>2, <1>3, <1>5 DEF Seats, MembersAfter
  <2> QED
    BY <2>3, <1>7 DEF Sound
<1>12. ASSUME NEW w, Suspended(db, w), w \notin DOMAIN patch PROVE Suspended(db', w)
  <2>1. PICK i \in DOMAIN db.members : db.members[i].who = w
    BY <1>12 DEF Suspended, Members, Seats
  <2>2. Member(db, w) = db.members[i]
    BY <2>1, <1>1, MemberIs DEF Seats
  <2>3. i \in DOMAIN db'.members /\ db'.members[i] = db.members[i]
    BY <2>1, <1>12, <1>3, <1>5, <1>7 DEF MembersAfter
  <2>4. Member(db', w) = db.members[i]
    BY <2>1, <2>3, <1>5, <1>7, MemberIs DEF Seats, MembersAfter
  <2>5. w \in Members(db')
    BY <2>1, <2>3 DEF Members, Seats
  <2> QED
    BY <2>2, <2>4, <2>5, <1>12 DEF Suspended
<1> QED
  BY <1>2, <1>5, <1>6, <1>7, <1>8, <1>9, <1>10, <1>11, <1>12 DEF Serialized

-----------------------------------------------------------------------------
(* What fits the limit. *)

\* A limit is a number, and never below the one seat of the owner.
LEMMA LimitIsNat ==
  ASSUME NEW d \in DbType
  PROVE  Limit(d) \in Nat /\ Larger(1, Limit(d)) \in Nat \ {0} /\ Limit(d) <= Larger(1, Limit(d))
<1>1. d.plan \in Nat
  BY DbFields, LimitsAssumption
<1>2. d.override # None => d.override.grant.value \in Nat
  BY DbFields, GrantsAssumption
<1>3. Limit(d) \in Nat
  BY <1>1, <1>2 DEF Limit, Applied
<1> QED
  BY <1>3 DEF Larger

\* Seats that were granted do not count.
LEMMA FitsIs ==
  ASSUME NEW d, Sound(d)
  PROVE  /\ IsFiniteSet(Using(d) \ d.granted) /\ IsFiniteSet(Holding(d))
         /\ Cardinality(Using(d) \ d.granted) \in Nat /\ Cardinality(Holding(d)) \in Nat
         /\ Cardinality(Using(d) \ d.granted) <= Cardinality(Using(d))
         /\ Fits(d) <=> (~Due(d) /\ ~d.swallowed =>
              Cardinality(Using(d) \ d.granted) + Cardinality(Holding(d)) <= Larger(1, Limit(d)))
<1> DEFINE U == Using(d)
           G == d.granted
<1>1. IsFiniteSet(U) /\ IsFiniteSet(Holding(d)) /\ IsFiniteSet(G)
  BY Counted
<1>2. Committed(d) = Cardinality(U) + Cardinality(Holding(d))
  BY Counted
<1>3. Cardinality(U) \in Nat /\ Cardinality(Holding(d)) \in Nat /\ Cardinality(G) \in Nat
  BY <1>1, FS_CardinalityType
<1>4. U \cap G = G
  BY DEF Sound
<1>5. IsFiniteSet(U \ G) /\ Cardinality(U \ G) = Cardinality(U) - Cardinality(G)
  BY <1>1, <1>4, FS_Difference
<1>6. Cardinality(U \ G) \in Nat
  BY <1>5, FS_CardinalityType
<1>7. Larger(1, Limit(d)) \in Nat
  BY LimitIsNat DEF Sound
<1> HIDE DEF U, G
<1>8. Fits(d) <=> (~Due(d) /\ ~d.swallowed =>
        Cardinality(U) + Cardinality(Holding(d)) <= Larger(1, Limit(d)) + Cardinality(G))
  BY <1>2 DEF Fits, G
<1> QED
  BY <1>1, <1>3, <1>5, <1>6, <1>7, <1>8 DEF U, G

\* What bounds the seats that count and the reservations bounds the commitment.
LEMMA FitsIf ==
  ASSUME NEW d, Sound(d), NEW A, NEW B, IsFiniteSet(A), IsFiniteSet(B),
         Using(d) \ d.granted \subseteq A, Holding(d) \subseteq B,
         ~Due(d) /\ ~d.swallowed => Cardinality(A) + Cardinality(B) <= Larger(1, Limit(d))
  PROVE  Fits(d)
<1>1. /\ Cardinality(Using(d) \ d.granted) <= Cardinality(A)
      /\ Cardinality(Holding(d)) <= Cardinality(B)
      /\ Cardinality(A) \in Nat /\ Cardinality(B) \in Nat
  BY FS_Subset, FS_CardinalityType
<1>2. Larger(1, Limit(d)) \in Nat
  BY LimitIsNat DEF Sound
<1> QED
  BY <1>1, <1>2, FitsIs

\* While nothing has lapsed or been retired, the limit is that of the snapshot.
LEMMA SameLimit ==
  ASSUME NEW s, NEW d, Since(s, d), ~Due(d), ~d.swallowed
  PROVE  ~Due(s) /\ ~s.swallowed /\ Limit(d) = Limit(s)
BY DEF Since, Fades, Due, Limit

\* Nothing has happened to a tenant since it was itself.
LEMMA SinceItself ==
  ASSUME NEW d, Sound(d) PROVE Since(d, d)
BY DEF Since, Fades

\* What happened since a snapshot, step after step.
LEMMA SinceThen ==
  ASSUME NEW s, NEW d, NEW e, Sound(s), Since(s, d), Since(d, e)
  PROVE  Since(s, e)
<1>1. Fades(s, e)
  BY DEF Since, Fades
<1>2. /\ e.plan = s.plan /\ Members(e) \subseteq Members(s)
      /\ Invited(e) \subseteq Invited(s) /\ Holding(e) \subseteq Holding(s)
  BY DEF Since
<1>3. ASSUME NEW w \in Using(e) \ Using(s) PROVE w \in e.granted \ s.granted
  <2>1. w \notin s.granted
    BY DEF Sound
  <2>2. CASE w \in Using(d)
    BY <2>1, <2>2 DEF Since
  <2>3. CASE w \notin Using(d)
    BY <2>1, <2>3 DEF Since
  <2> QED
    BY <2>2, <2>3
<1>4. s.granted \cap Using(e) \subseteq e.granted
  <2>1. ASSUME NEW w \in s.granted \cap Using(e) PROVE w \in e.granted
    <3>1. CASE w \in Using(d)
      BY <3>1 DEF Since
    <3>2. CASE w \notin Using(d)
      BY <3>2 DEF Since
    <3> QED
      BY <3>1, <3>2
  <2> QED
    BY <2>1
<1> QED
  BY <1>1, <1>2, <1>3, <1>4 DEF Since

\* Every snapshot that a handler works on is sound, and only faded since it was taken.
LEMMA SnapshotIs ==
  ASSUME IInv, NEW s \in Snapshots
  PROVE  Sound(s) /\ Since(s, db)
BY SinceItself DEF IInv, Snapshots

\* A suspension is kept, unless the member is gone.
Stays == \A w \in People : Suspended(db, w) => Suspended(db', w) \/ w \notin Members(db')

\* A handler of the tenant commits when there is room by its snapshot.
LEMMA RoomLeft ==
  ASSUME NEW s, Sound(s), Since(s, db), Sound(db'), UNCHANGED edits, UNCHANGED edit, held' = None, IInv,
         db'.plan = db.plan, db'.override = db.override, db'.swallowed = db.swallowed,
         NEW A, NEW B, IsFiniteSet(A), IsFiniteSet(B), Using(db') \ db'.granted \subseteq A,
         Holding(db') \subseteq B, Cardinality(A) + Cardinality(B) <= Limit(s)
  PROVE  IInv'
<1>1. Cardinality(A) \in Nat /\ Cardinality(B) \in Nat
  BY FS_CardinalityType
<1>2. ~Due(db') /\ ~db'.swallowed => Limit(db') = Limit(s)
  <2>1. ASSUME ~Due(db'), ~db'.swallowed PROVE Limit(db') = Limit(s)
    <3>1. ~Due(db) /\ ~db.swallowed /\ Limit(db') = Limit(db)
      BY <2>1 DEF Due, Limit
    <3> QED
      BY <3>1, SameLimit
  <2> QED
    BY <2>1
<1>3. Limit(db') <= Larger(1, Limit(db')) /\ Limit(db') \in Nat /\ Larger(1, Limit(db')) \in Nat
  BY LimitIsNat DEF Sound
<1>4. Fits(db')
  <2>1. ~Due(db') /\ ~db'.swallowed => Cardinality(A) + Cardinality(B) <= Larger(1, Limit(db'))
    BY <1>1, <1>2, <1>3
  <2> QED
    BY <2>1, FitsIf
<1> QED
  BY <1>4 DEF IInv

-----------------------------------------------------------------------------
(* The tenant's handlers. *)

\* A set with one more element.
LEMMA OneMore ==
  ASSUME NEW W, IsFiniteSet(W), NEW w
  PROVE  /\ IsFiniteSet(W \cup {w}) /\ Cardinality(W \cup {w}) <= Cardinality(W) + 1
         /\ Cardinality(W) \in Nat /\ Cardinality(W \cup {w}) \in Nat
<1>1. /\ IsFiniteSet(W \cup {w})
      /\ Cardinality(W \cup {w}) = IF w \in W THEN Cardinality(W) ELSE Cardinality(W) + 1
  BY FS_AddElement
<1>2. Cardinality(W) \in Nat /\ Cardinality(W \cup {w}) \in Nat
  BY <1>1, FS_CardinalityType
<1> QED
  BY <1>1, <1>2

\* The empty sequence of documents.
LEMMA NoDocuments ==
  DOMAIN <<>> = {} /\ Distinct(<<>>) /\ \A S : <<>> \in Seq(S)
BY DEF Distinct

\* The sequence of one document.
LEMMA OneDocument ==
  ASSUME NEW S, NEW u \in S
  PROVE  <<u>> \in Seq(S) /\ Distinct(<<u>>) /\ DOMAIN <<u>> = {1} /\ <<u>>[1] = u
BY DEF Distinct

Unlimited(org) ==
  org.plan = db.plan /\ org.override = db.override /\ org.swallowed = db.swallowed

\* The writes of a transaction on s are of its own documents and of people it did not know.
Fine(s, patch, hired, dropped, sent) ==
  /\ \A w \in DOMAIN patch : patch[w] \in UserType /\ patch[w].who = w /\ w \in People
  /\ hired \in Seq(UserType) /\ Distinct(hired)
  /\ \A j \in DOMAIN hired : hired[j].who \in People \ Members(s)
  /\ sent \in Seq(InviteType) /\ Distinct(sent)
  /\ \A j \in DOMAIN sent : sent[j].who \notin Invited(s) \ dropped

\* What they make of the seats and the reservations.
Made(s, patch, hired, dropped, sent) ==
  /\ Using(db') = (Using(db) \ DOMAIN patch)
                   \cup {w \in DOMAIN patch : patch[w].status # "blocked"}
                   \cup {hired[j].who : j \in {i \in DOMAIN hired : hired[i].status # "blocked"}}
  /\ Holding(db') = (Holding(db) \ dropped)
                     \cup {sent[j].who : j \in {i \in DOMAIN sent : ~sent[i].late}}
  /\ \A w : Suspended(db, w) /\ w \notin DOMAIN patch => Suspended(db', w)
  /\ \A w \in DOMAIN patch : w \in Members(db) /\ Member(db, w) = Member(s, w)

\* What it makes of the documents.
Kempt(d) ==
  /\ d \in DbType /\ Distinct(d.members) /\ Distinct(d.invites)
  /\ \A i \in Seats(d) : d.members[i].who = Owner => d.members[i].verified

\* What a transaction on a snapshot makes, in the terms of the two definitions above.
LEMMA CommitMakes ==
  ASSUME Sound(db), NEW s, Sound(s), Since(s, db), NEW patch, NEW hired, NEW dropped, NEW sent,
         Fine(s, patch, hired, dropped, sent),
         NEW org \in DbType, Commit(s, patch, hired, dropped, sent, org)
  PROVE  /\ Kempt(db') /\ Made(s, patch, hired, dropped, sent)
         /\ db'.plan = org.plan /\ db'.override = org.override
         /\ db'.granted = org.granted /\ db'.swallowed = org.swallowed
         /\ held' = None /\ UNCHANGED edit /\ UNCHANGED edits
<1>1. /\ \A w \in DOMAIN patch : patch[w] \in UserType /\ patch[w].who = w /\ w \in People
      /\ hired \in Seq(UserType) /\ Distinct(hired)
      /\ \A j \in DOMAIN hired : hired[j].who \in People \ Members(s)
      /\ sent \in Seq(InviteType) /\ Distinct(sent)
      /\ \A j \in DOMAIN sent : sent[j].who \notin Invited(s) \ dropped
  BY DEF Fine
<1>2. /\ db' \in DbType /\ Distinct(db'.members) /\ Distinct(db'.invites)
      /\ \A i \in Seats(db') : db'.members[i].who = Owner => db'.members[i].verified
      /\ \A w \in DOMAIN patch : w \in Members(db) /\ Member(db, w) = Member(s, w)
      /\ Using(db') = (Using(db) \ DOMAIN patch)
                       \cup {w \in DOMAIN patch : patch[w].status # "blocked"}
                       \cup {hired[j].who : j \in {i \in DOMAIN hired : hired[i].status # "blocked"}}
      /\ Holding(db') = (Holding(db) \ dropped)
                         \cup {sent[j].who : j \in {i \in DOMAIN sent : ~sent[i].late}}
      /\ db'.plan = org.plan /\ db'.override = org.override /\ db'.suspended = org.suspended
      /\ db'.granted = org.granted /\ db'.swallowed = org.swallowed
      /\ \A w : Suspended(db, w) /\ w \notin DOMAIN patch => Suspended(db', w)
      /\ held' = None /\ UNCHANGED <<edit, edits>>
  BY <1>1, CommitStep
<1> QED
  BY <1>2 DEF Made, Kempt

\* A transaction that leaves the limit alone, and no seat that was granted blocked.
LEMMA TenantCommit ==
  ASSUME IInv, NEW s \in Snapshots, NEW patch, NEW hired, NEW dropped, NEW sent,
         Fine(s, patch, hired, dropped, sent),
         NEW org \in DbType, Commit(s, patch, hired, dropped, sent, org), Unlimited(org),
         org.granted \subseteq db.granted,
         \A w \in DOMAIN patch : patch[w].status = "blocked" => w \notin org.granted
  PROVE  /\ Sound(db') /\ db'.granted = org.granted
         /\ db'.plan = db.plan /\ db'.override = db.override /\ db'.swallowed = db.swallowed
         /\ Made(s, patch, hired, dropped, sent)
         /\ held' = None /\ UNCHANGED edit /\ UNCHANGED edits
<1>1. Sound(db) /\ Sound(s) /\ Since(s, db)
  BY SnapshotIs DEF IInv
<1>2. /\ Kempt(db') /\ Made(s, patch, hired, dropped, sent)
      /\ db'.plan = org.plan /\ db'.override = org.override
      /\ db'.granted = org.granted /\ db'.swallowed = org.swallowed
      /\ held' = None /\ UNCHANGED edit /\ UNCHANGED edits
  BY <1>1, CommitMakes
<1>3. org.granted \subseteq Using(db')
  BY <1>1, <1>2 DEF Sound, Made
<1>4. Sound(db')
  BY <1>1, <1>2, <1>3 DEF Sound, Unlimited, Kempt
<1> QED
  BY <1>2, <1>4 DEF Unlimited

\* What nothing but an invitation changes.
LEMMA KeptInvites ==
  ASSUME NEW s, Sound(s), NEW ended, NEW kept, kept = [s EXCEPT !.invites = Without(s.invites, ended)]
  PROVE  /\ Committed(kept) = Cardinality(Using(s)) + Cardinality(Holding(s) \ ended)
         /\ Limit(kept) = Limit(s)
<1>1. PICK me, iv, pl, ov, su, gr, sw :
          s = [members |-> me, invites |-> iv, plan |-> pl, override |-> ov, suspended |-> su,
               granted |-> gr, swallowed |-> sw]
  BY DEF Sound, DbType
<1>2. PICK v : v = Without(s.invites, ended)
  OBVIOUS
<1>3. kept = [members |-> me, invites |-> v, plan |-> pl, override |-> ov, suspended |-> su,
              granted |-> gr, swallowed |-> sw]
  BY <1>1, <1>2
<1>4. /\ kept.members = s.members /\ kept.invites = v /\ kept.plan = s.plan
      /\ kept.override = s.override
  BY <1>1, <1>3
<1>5. s.invites \in Seq(InviteType) /\ Distinct(s.invites)
  BY DbFields DEF Sound
<1>6. v \in Seq(InviteType) /\ Distinct(v) /\ Left(s.invites, ended, v)
  BY <1>2, <1>5, WithoutKeeps
<1>7. IsFiniteSet(Holding(kept)) /\ Cardinality(Holding(kept)) = Cardinality(Reserved(kept))
  BY <1>4, <1>6, CountedInvites
<1>8. Used(kept) = Used(s)
  BY <1>4 DEF Used, Seats
<1>9. Cardinality(Used(s)) = Cardinality(Using(s))
  BY DbFields, CountedSeats DEF Sound
<1>10. Holding(kept) = Holding(s) \ ended
  <2>1. ASSUME NEW w \in Holding(kept) PROVE w \in Holding(s) \ ended
    <3>1. PICK k \in DOMAIN v : v[k].who = w /\ ~v[k].late
      BY <1>4, HoldingIs
    <3>2. PICK i \in DOMAIN s.invites : v[k] = s.invites[i] /\ s.invites[i].who \notin ended
      BY <1>6 DEF Left
    <3>3. w \in Holding(s)
      BY <3>1, <3>2, HoldingIs
    <3> QED
      BY <3>1, <3>2, <3>3
  <2>2. ASSUME NEW w \in Holding(s) \ ended PROVE w \in Holding(kept)
    <3>1. PICK i \in DOMAIN s.invites : s.invites[i].who = w /\ ~s.invites[i].late
      BY HoldingIs
    <3>2. PICK k \in DOMAIN v : v[k] = s.invites[i]
      BY <3>1, <1>6 DEF Left
    <3> QED
      BY <3>1, <3>2, <1>4, HoldingIs
  <2> QED
    BY <2>1, <2>2
<1>11. Committed(kept) = Cardinality(Using(s)) + Cardinality(Holding(s) \ ended)
  BY <1>7, <1>8, <1>9, <1>10 DEF Committed
<1>12. Limit(kept) = Limit(s)
  BY <1>4 DEF Limit, Due
<1> QED
  BY <1>11, <1>12

\* createInvitation reserves a seat within the limit of its snapshot.
LEMMA CreateInvitationKeeps ==
  ASSUME IInv, NEW s \in Snapshots, CreateInvitation(s)
  PROVE  IInv' /\ Stays
<1>1. PICK w \in People, r \in {"agency_admin", "agent"} :
        LET ended == Superseded(s, w)
            kept == [s EXCEPT !.invites = Without(s.invites, ended)]
        IN  /\ HasCapacity(kept, 1)
            /\ Commit(s, Unpatched, <<>>, ended, <<[who |-> w, role |-> r, late |-> FALSE]>>, db)
  BY DEF CreateInvitation
<1> DEFINE v == [who |-> w, role |-> r, late |-> FALSE]
<1>2. PICK ended : ended = Superseded(s, w)
  OBVIOUS
<1>3. Commit(s, Unpatched, <<>>, ended, <<v>>, db)
  BY <1>1, <1>2
<1>4. HasCapacity([s EXCEPT !.invites = Without(s.invites, ended)], 1)
  BY <1>1, <1>2
<1>5. v \in InviteType /\ v.who = w /\ ~v.late
  BY DEF InviteType, Roles
<1> HIDE DEF v
<1>6. PICK sent : sent = <<v>>
  OBVIOUS
<1>7. sent \in Seq(InviteType) /\ Distinct(sent) /\ DOMAIN sent = {1} /\ sent[1] = v
  BY <1>5, <1>6, OneDocument
<1>8. DOMAIN Unpatched = {}
  BY DEF Unpatched
<1>9. \A j \in DOMAIN sent : sent[j].who \notin Invited(s) \ ended
  BY <1>2, <1>5, <1>7 DEF Superseded
<1>10. PICK hired : hired = <<>>
  OBVIOUS
<1>11. hired \in Seq(UserType) /\ Distinct(hired) /\ DOMAIN hired = {}
  BY <1>10, NoDocuments
<1>12. Sound(s) /\ Since(s, db) /\ Sound(db) /\ db \in DbType /\ Unlimited(db)
  BY SnapshotIs DEF IInv, Sound, Unlimited
<1>13. PICK patch : patch = Unpatched
  OBVIOUS
<1>14. Commit(s, patch, hired, ended, sent, db) /\ Fine(s, patch, hired, ended, sent)
  BY <1>3, <1>6, <1>7, <1>8, <1>9, <1>10, <1>11, <1>13 DEF Fine
<1>15. /\ Sound(db') /\ db'.granted = db.granted
       /\ db'.plan = db.plan /\ db'.override = db.override /\ db'.swallowed = db.swallowed
       /\ Made(s, patch, hired, ended, sent)
       /\ held' = None /\ UNCHANGED edit /\ UNCHANGED edits
  BY <1>8, <1>12, <1>13, <1>14, TenantCommit
<1>16. Using(db') = Using(db) /\ Holding(db') \subseteq (Holding(s) \ ended) \cup {w}
  BY <1>5, <1>7, <1>8, <1>11, <1>12, <1>13, <1>15 DEF Since, Made
<1>17. Using(db') \ db'.granted \subseteq Using(s)
  BY <1>12, <1>15, <1>16 DEF Since
<1> DEFINE H == Holding(s) \ ended
<1>18. Cardinality(Using(s)) + Cardinality(H) + 1 <= Limit(s)
  <2>1. PICK kept : kept = [s EXCEPT !.invites = Without(s.invites, ended)]
    OBVIOUS
  <2>2. Committed(kept) = Cardinality(Using(s)) + Cardinality(H) /\ Limit(kept) = Limit(s)
    BY <1>12, <2>1, KeptInvites
  <2>3. Committed(kept) + 1 <= Limit(kept)
    BY <1>4, <2>1 DEF HasCapacity
  <2> QED
    BY <2>2, <2>3
<1>19. IsFiniteSet(Using(s)) /\ IsFiniteSet(H)
  BY <1>12, Counted, FS_Subset
<1> HIDE DEF H
<1>20. /\ IsFiniteSet(H \cup {w}) /\ Cardinality(H \cup {w}) <= Cardinality(H) + 1
       /\ Cardinality(H) \in Nat /\ Cardinality(H \cup {w}) \in Nat /\ Cardinality(Using(s)) \in Nat
  BY <1>19, OneMore, FS_CardinalityType
<1>21. Cardinality(Using(s)) + Cardinality(H \cup {w}) <= Limit(s)
  BY <1>18, <1>20, <1>12, LimitIsNat DEF Sound
<1>22. Holding(db') \subseteq H \cup {w}
  BY <1>16 DEF H
<1>23. IInv'
  BY <1>12, <1>15, <1>17, <1>19, <1>20, <1>21, <1>22, RoomLeft
<1>24. Stays
  BY <1>8, <1>13, <1>15 DEF Stays, Made
<1> QED
  BY <1>23, <1>24

\* A new member takes a seat that the snapshot has room for.
LEMMA Hiring ==
  ASSUME IInv, NEW s \in Snapshots, NEW u \in UserType, u.who \in People \ Members(s),
         u.status # "blocked", NEW dropped, Commit(s, Unpatched, <<u>>, dropped, <<>>, db),
         Cardinality(Using(s)) + Cardinality(Holding(s) \ dropped) + 1 <= Limit(s)
  PROVE  IInv' /\ Stays
<1>1. PICK hired : hired = <<u>>
  OBVIOUS
<1>2. hired \in Seq(UserType) /\ Distinct(hired) /\ DOMAIN hired = {1} /\ hired[1] = u
  BY <1>1, OneDocument
<1>3. PICK patch : patch = Unpatched
  OBVIOUS
<1>4. DOMAIN patch = {}
  BY <1>3 DEF Unpatched
<1>5. PICK sent : sent = <<>>
  OBVIOUS
<1>6. sent \in Seq(InviteType) /\ Distinct(sent) /\ DOMAIN sent = {}
  BY <1>5, NoDocuments
<1>7. Sound(s) /\ Since(s, db) /\ Sound(db) /\ db \in DbType /\ Unlimited(db)
  BY SnapshotIs DEF IInv, Sound, Unlimited
<1>8. Commit(s, patch, hired, dropped, sent, db) /\ Fine(s, patch, hired, dropped, sent)
  BY <1>1, <1>2, <1>3, <1>4, <1>5, <1>6 DEF Fine
<1>9. /\ Sound(db') /\ db'.granted = db.granted
      /\ db'.plan = db.plan /\ db'.override = db.override /\ db'.swallowed = db.swallowed
      /\ Made(s, patch, hired, dropped, sent)
      /\ held' = None /\ UNCHANGED edit /\ UNCHANGED edits
  BY <1>4, <1>7, <1>8, TenantCommit
<1> DEFINE w == u.who
           U == Using(s)
           H == Holding(s) \ dropped
<1>10. Using(db') = Using(db) \cup {w} /\ Holding(db') = Holding(db) \ dropped
  BY <1>2, <1>4, <1>6, <1>9 DEF Made
<1>11. Using(db') \ db'.granted \subseteq U \cup {w} /\ Holding(db') \subseteq H
  BY <1>7, <1>9, <1>10 DEF Since
<1>12. IsFiniteSet(U) /\ IsFiniteSet(H)
  BY <1>7, Counted, FS_Subset
<1>13. Cardinality(U) + Cardinality(H) + 1 <= Limit(s)
  OBVIOUS
<1> HIDE DEF U, H, w
<1>14. /\ IsFiniteSet(U \cup {w}) /\ Cardinality(U \cup {w}) <= Cardinality(U) + 1
       /\ Cardinality(U) \in Nat /\ Cardinality(U \cup {w}) \in Nat /\ Cardinality(H) \in Nat
  BY <1>12, OneMore, FS_CardinalityType
<1>15. Cardinality(U \cup {w}) + Cardinality(H) <= Limit(s)
  BY <1>7, <1>13, <1>14, LimitIsNat DEF Sound
<1>16. IInv'
  BY <1>7, <1>9, <1>11, <1>12, <1>14, <1>15, RoomLeft
<1>17. Stays
  BY <1>4, <1>9 DEF Stays, Made
<1> QED
  BY <1>16, <1>17

\* acceptInvitation turns a reservation into a seat.
LEMMA AcceptInvitationKeeps ==
  ASSUME IInv, NEW s \in Snapshots, AcceptInvitation(s)
  PROVE  IInv' /\ Stays
<1>1. PICK i \in Reserved(s) :
        /\ HasCapacity(s, 0) /\ s.invites[i].who \notin Members(s)
        /\ Commit(s, Unpatched, <<User(s.invites[i].who, s.invites[i].role, "active", TRUE)>>,
                  {s.invites[i].who}, <<>>, db)
  BY DEF AcceptInvitation
<1> DEFINE w == s.invites[i].who
           u == User(w, s.invites[i].role, "active", TRUE)
           H == Holding(s)
<1>2. Sound(s)
  BY SnapshotIs
<1>3. s.invites[i] \in InviteType
  BY <1>1, <1>2, DbFields, ElementOfSeq, LenProperties DEF Sound, Reserved
<1>4. w \in People /\ s.invites[i].role \in Roles
  BY <1>3 DEF InviteType
<1>5. u \in UserType /\ u.who = w /\ u.status # "blocked"
  BY <1>4 DEF User, UserType, Statuses, Sources
<1>6. Commit(s, Unpatched, <<u>>, {w}, <<>>, db)
  BY <1>1
<1>7. w \in H
  BY <1>1 DEF Holding
<1> HIDE DEF u, w, H
<1>8. /\ IsFiniteSet(H) /\ IsFiniteSet(Using(s))
      /\ Committed(s) = Cardinality(Using(s)) + Cardinality(H)
  BY <1>2, Counted DEF H
<1>9. /\ Cardinality(H \ {w}) = Cardinality(H) - 1 /\ Cardinality(H) \in Nat
      /\ Cardinality(Using(s)) \in Nat
  BY <1>7, <1>8, FS_RemoveElement, FS_CardinalityType
<1>10. Cardinality(Using(s)) + Cardinality(H) <= Limit(s)
  BY <1>1, <1>8, <1>9 DEF HasCapacity
<1>11. Cardinality(Using(s)) + Cardinality(H \ {w}) + 1 <= Limit(s)
  BY <1>2, <1>9, <1>10, LimitIsNat DEF Sound
<1> QED
  BY <1>1, <1>4, <1>5, <1>6, <1>11, Hiring DEF w, H

\* A user is created within the limit of the snapshot.
LEMMA CreateUserKeeps ==
  ASSUME IInv, NEW s \in Snapshots, CreateUser(s)
  PROVE  IInv' /\ Stays
<1>1. PICK w \in People, r \in {"agency_admin", "agent"} :
        /\ w \notin Members(s) /\ HasCapacity(s, 1)
        /\ Commit(s, Unpatched, <<User(w, r, NewStatus, FALSE)>>, {}, <<>>, db)
  BY DEF CreateUser
<1> DEFINE u == User(w, r, NewStatus, FALSE)
<1>2. u \in UserType /\ u.who = w /\ u.status # "blocked"
  BY DEF User, UserType, Statuses, Sources, Roles, NewStatus
<1>3. Commit(s, Unpatched, <<u>>, {}, <<>>, db)
  BY <1>1
<1> HIDE DEF u
<1>4. Committed(s) = Cardinality(Using(s)) + Cardinality(Holding(s))
  BY SnapshotIs, Counted
<1>5. Holding(s) \ {} = Holding(s)
  OBVIOUS
<1>6. Cardinality(Using(s)) + Cardinality(Holding(s) \ {}) + 1 <= Limit(s)
  BY <1>1, <1>4, <1>5 DEF HasCapacity
<1> QED
  BY <1>1, <1>2, <1>3, <1>6, Hiring

\* The document of a member is of that member.
LEMMA MemberOf ==
  ASSUME NEW d, Sound(d), NEW w \in Members(d)
  PROVE  Member(d, w) \in UserType /\ Member(d, w).who = w /\ w \in People \cup {Owner}
<1>1. PICK i \in Seats(d) : d.members[i].who = w
  BY DEF Members
<1>2. Member(d, w) = d.members[i]
  BY <1>1, MemberIs DEF Sound
<1>3. d.members[i] \in UserType
  BY DbFields, ElementOfSeq, LenProperties DEF Sound, Seats
<1> QED
  BY <1>1, <1>2, <1>3 DEF UserType

\* A member restored is not blocked: the status before was active or pending.
LEMMA RestoredIs ==
  ASSUME NEW u \in UserType
  PROVE  Restored(u) \in UserType /\ Restored(u).who = u.who /\ Restored(u).status # "blocked"
<1>1. PICK wh, ro, st, so, wa, ve :
        /\ u = [who |-> wh, role |-> ro, status |-> st, source |-> so, was |-> wa, verified |-> ve]
        /\ wh \in People \cup {Owner} /\ ro \in Roles /\ wa \in {"pending", "active"} /\ ve \in BOOLEAN
  BY DEF UserType
<1>2. Restored(u) = [who |-> wh, role |-> ro, status |-> wa, source |-> "none", was |-> "active",
                     verified |-> ve]
  <2>1. PICK a : a = [u EXCEPT !.status = u.was]
    OBVIOUS
  <2>2. PICK b : b = [a EXCEPT !.source = "none"]
    OBVIOUS
  <2>3. Restored(u) = [b EXCEPT !.was = "active"]
    BY <2>1, <2>2, Zenon DEF Restored
  <2>4. a = [who |-> wh, role |-> ro, status |-> wa, source |-> so, was |-> wa, verified |-> ve]
    BY <1>1, <2>1
  <2>5. b = [who |-> wh, role |-> ro, status |-> wa, source |-> "none", was |-> wa, verified |-> ve]
    BY <2>2, <2>4
  <2> QED
    BY <2>3, <2>5
<1> QED
  BY <1>1, <1>2 DEF UserType, Statuses, Sources

\* A member blocked is the same member, blocked.
LEMMA BlockedIs ==
  ASSUME NEW u \in UserType, NEW source \in Sources
  PROVE  /\ Blocked(u, source) \in UserType /\ Blocked(u, source).who = u.who
         /\ Blocked(u, source).status = "blocked"
<1>1. PICK wh, ro, st, so, wa, ve :
        /\ u = [who |-> wh, role |-> ro, status |-> st, source |-> so, was |-> wa, verified |-> ve]
        /\ wh \in People \cup {Owner} /\ ro \in Roles /\ wa \in {"pending", "active"} /\ ve \in BOOLEAN
  BY DEF UserType
<1>2. PICK was \in {"pending", "active"} : was = IF u.status = "pending" THEN "pending" ELSE "active"
  OBVIOUS
<1>3. Blocked(u, source) = [who |-> wh, role |-> ro, status |-> "blocked", source |-> source,
                            was |-> was, verified |-> ve]
  <2>1. PICK a : a = [u EXCEPT !.status = "blocked"]
    OBVIOUS
  <2>2. PICK b : b = [a EXCEPT !.source = source]
    OBVIOUS
  <2>3. Blocked(u, source) = [b EXCEPT !.was = was]
    BY <1>2, <2>1, <2>2, Zenon DEF Blocked
  <2>4. a = [who |-> wh, role |-> ro, status |-> "blocked", source |-> so, was |-> wa, verified |-> ve]
    BY <1>1, <2>1
  <2>5. b = [who |-> wh, role |-> ro, status |-> "blocked", source |-> source, was |-> wa,
             verified |-> ve]
    BY <2>2, <2>4
  <2> QED
    BY <2>3, <2>5
<1> QED
  BY <1>1, <1>3 DEF UserType, Statuses

\* A transaction that changes one member.
LEMMA Changing ==
  ASSUME IInv, NEW s \in Snapshots, NEW w \in Members(s) \ {Owner}, NEW u \in UserType, u.who = w,
         NEW org \in DbType, Commit(s, Patch(w, u), <<>>, {}, <<>>, org), Unlimited(org),
         org.granted \subseteq db.granted, u.status = "blocked" => w \notin org.granted,
         ~Suspended(db, w)
  PROVE  /\ Sound(db') /\ db'.granted = org.granted
         /\ db'.plan = db.plan /\ db'.override = db.override /\ db'.swallowed = db.swallowed
         /\ Using(db') = (Using(db) \ {w}) \cup (IF u.status # "blocked" THEN {w} ELSE {})
         /\ Holding(db') = Holding(db)
         /\ held' = None /\ UNCHANGED edit /\ UNCHANGED edits
         /\ Stays
<1>1. PICK hired : hired = <<>>
  OBVIOUS
<1>2. hired \in Seq(UserType) /\ Distinct(hired) /\ DOMAIN hired = {}
  BY <1>1, NoDocuments
<1>3. PICK sent : sent = <<>>
  OBVIOUS
<1>4. sent \in Seq(InviteType) /\ Distinct(sent) /\ DOMAIN sent = {}
  BY <1>3, NoDocuments
<1>5. PICK patch : patch = Patch(w, u)
  OBVIOUS
<1>6. DOMAIN patch = {w} /\ patch[w] = u
  BY <1>5 DEF Patch
<1>7. w \in People
  BY SnapshotIs, MemberOf
<1>8. PICK dropped : dropped = {}
  OBVIOUS
<1>9. Commit(s, patch, hired, dropped, sent, org) /\ Fine(s, patch, hired, dropped, sent)
  BY <1>1, <1>2, <1>3, <1>4, <1>5, <1>6, <1>7, <1>8 DEF Fine
<1>10. /\ Sound(db') /\ db'.granted = org.granted
       /\ db'.plan = db.plan /\ db'.override = db.override /\ db'.swallowed = db.swallowed
       /\ Made(s, patch, hired, dropped, sent)
       /\ held' = None /\ UNCHANGED edit /\ UNCHANGED edits
  BY <1>6, <1>9, TenantCommit
<1>11. /\ Using(db') = (Using(db) \ {w}) \cup (IF u.status # "blocked" THEN {w} ELSE {})
       /\ Holding(db') = Holding(db)
  BY <1>2, <1>4, <1>6, <1>8, <1>10 DEF Made
<1>12. Stays
  BY <1>6, <1>10 DEF Stays, Made
<1> QED
  BY <1>10, <1>11, <1>12

\* The document that a transaction changes is the one it read.
LEMMA NotSuspended ==
  ASSUME NEW s, NEW patch, NEW hired, NEW dropped, NEW sent, NEW org,
         Commit(s, patch, hired, dropped, sent, org), NEW w \in DOMAIN patch,
         Suspended(db, w)
  PROVE  Member(s, w).status = "blocked" /\ Member(s, w).source = "platform_admin"
BY DEF Commit, NoConflict, Suspended

\* A manager unblocks a member within the limit, and never one the platform has suspended.
LEMMA UnblockMemberKeeps ==
  ASSUME IInv, NEW s \in Snapshots, UnblockMember(s)
  PROVE  IInv' /\ Stays
<1>1. PICK w \in Members(s) \ {Owner} :
        /\ Member(s, w).status = "blocked" /\ ByTheTenant(Member(s, w))
        /\ HasCapacity(s, 1)
        /\ Commit(s, Patch(w, Restored(Member(s, w))), <<>>, {}, <<>>, db)
  BY DEF UnblockMember
<1>2. Sound(s) /\ Since(s, db) /\ Sound(db) /\ db \in DbType /\ Unlimited(db)
  BY SnapshotIs DEF IInv, Sound, Unlimited
<1>3. Member(s, w) \in UserType /\ Member(s, w).who = w
  BY <1>2, MemberOf
<1>4. PICK u : u = Restored(Member(s, w))
  OBVIOUS
<1>5. u \in UserType /\ u.who = w /\ u.status # "blocked"
  BY <1>3, <1>4, RestoredIs
<1>6. Commit(s, Patch(w, u), <<>>, {}, <<>>, db)
  BY <1>1, <1>4
<1>7. ~Suspended(db, w)
  <2>1. w \in DOMAIN Patch(w, u)
    BY DEF Patch
  <2> QED
    BY <1>1, <1>6, <2>1, NotSuspended DEF ByTheTenant
<1>8. /\ Sound(db') /\ db'.granted = db.granted
      /\ db'.plan = db.plan /\ db'.override = db.override /\ db'.swallowed = db.swallowed
      /\ Using(db') = (Using(db) \ {w}) \cup {w} /\ Holding(db') = Holding(db)
      /\ held' = None /\ UNCHANGED edit /\ UNCHANGED edits /\ Stays
  BY <1>2, <1>5, <1>6, <1>7, Changing
<1> DEFINE U == Using(s)
           H == Holding(s)
<1>9. Using(db') \ db'.granted \subseteq U \cup {w} /\ Holding(db') \subseteq H
  BY <1>2, <1>8 DEF Since
<1>10. IsFiniteSet(U) /\ IsFiniteSet(H) /\ Committed(s) = Cardinality(U) + Cardinality(H)
  BY <1>2, Counted
<1> HIDE DEF U, H
<1>11. /\ IsFiniteSet(U \cup {w}) /\ Cardinality(U \cup {w}) <= Cardinality(U) + 1
       /\ Cardinality(U) \in Nat /\ Cardinality(U \cup {w}) \in Nat /\ Cardinality(H) \in Nat
  BY <1>10, OneMore, FS_CardinalityType
<1>12. Cardinality(U) + Cardinality(H) + 1 <= Limit(s)
  BY <1>1, <1>10 DEF HasCapacity
<1>13. Cardinality(U \cup {w}) + Cardinality(H) <= Limit(s)
  BY <1>2, <1>11, <1>12, LimitIsNat DEF Sound
<1>14. IInv'
  BY <1>2, <1>8, <1>9, <1>10, <1>11, <1>13, RoomLeft
<1> QED
  BY <1>8, <1>14

\* A manager blocks a member, and never one the platform has suspended.
LEMMA BlockMemberKeeps ==
  ASSUME IInv, NEW s \in Snapshots, BlockMember(s)
  PROVE  IInv' /\ Stays
<1> DEFINE Org(w) == [db EXCEPT !.granted = @ \ {w}]
<1>1. PICK w \in Members(s) \ {Owner} :
        /\ Member(s, w).status = "blocked" => Member(s, w).source = "subscription_quota"
        /\ Commit(s, Patch(w, Blocked(Member(s, w), "tenant_admin")), <<>>, {}, <<>>, Org(w))
  BY DEF BlockMember
<1>2. Sound(s) /\ Since(s, db) /\ Sound(db) /\ db \in DbType
  BY SnapshotIs DEF IInv, Sound
<1>3. PICK org : org = Org(w)
  OBVIOUS
<1>4. org \in DbType /\ Unlimited(org) /\ org.granted = db.granted \ {w}
  <2>1. PICK me, iv, pl, ov, su, gr, sw :
          /\ db = [members |-> me, invites |-> iv, plan |-> pl, override |-> ov, suspended |-> su,
                   granted |-> gr, swallowed |-> sw]
          /\ me \in Seq(UserType) /\ iv \in Seq(InviteType)
          /\ pl \in Limits /\ ov \in [grant : Grants, late : BOOLEAN] \cup {None} /\ su \in BOOLEAN
          /\ gr \in SUBSET People /\ sw \in BOOLEAN
    BY <1>2 DEF DbType
  <2>2. org = [members |-> me, invites |-> iv, plan |-> pl, override |-> ov, suspended |-> su,
               granted |-> gr \ {w}, swallowed |-> sw]
    BY <1>3, <2>1
  <2> QED
    BY <2>1, <2>2 DEF Unlimited, DbType
<1>5. Member(s, w) \in UserType /\ Member(s, w).who = w
  BY <1>2, MemberOf
<1>6. PICK u : u = Blocked(Member(s, w), "tenant_admin")
  OBVIOUS
<1>7. u \in UserType /\ u.who = w /\ u.status = "blocked"
  BY <1>5, <1>6, BlockedIs DEF Sources
<1>8. Commit(s, Patch(w, u), <<>>, {}, <<>>, org)
  BY <1>1, <1>3, <1>6
<1>9. ~Suspended(db, w)
  <2>1. w \in DOMAIN Patch(w, u)
    BY DEF Patch
  <2> QED
    BY <1>1, <1>8, <2>1, NotSuspended
<1>10. /\ Sound(db') /\ db'.granted = db.granted \ {w}
       /\ db'.plan = db.plan /\ db'.override = db.override /\ db'.swallowed = db.swallowed
       /\ Using(db') = Using(db) \ {w} /\ Holding(db') = Holding(db)
       /\ held' = None /\ UNCHANGED edit /\ UNCHANGED edits /\ Stays
  BY <1>4, <1>7, <1>8, <1>9, Changing
<1>11. Using(db') \ db'.granted \subseteq Using(db) \ db.granted
  BY <1>10
<1>12. Due(db') = Due(db) /\ Limit(db') = Limit(db)
  BY <1>10 DEF Due, Limit
<1>13. Fits(db')
  BY <1>2, <1>10, <1>11, <1>12, FitsIs, FitsIf DEF IInv
<1> QED
  BY <1>10, <1>13 DEF IInv

-----------------------------------------------------------------------------
(* The reconciliation. *)

\* The seats are numbered, and roles ranked.
LEMMA RankIs ==
  ASSUME NEW s, Sound(s), NEW i \in Seats(s)
  PROVE  i \in Nat /\ s.members[i] \in UserType /\ Rank(s.members[i].role) \in Nat
<1>1. s.members \in Seq(UserType)
  BY DbFields DEF Sound
<1>2. i \in 1 .. Len(s.members) /\ Len(s.members) \in Nat
  BY <1>1, LenProperties DEF Seats
<1>3. i \in Nat /\ s.members[i] \in UserType
  BY <1>1, <1>2, ElementOfSeq
<1>4. s.members[i].role \in {"agency_owner", "agency_admin", "agent"}
  BY <1>3 DEF UserType, Roles
<1>5. Rank("agency_owner") = 0 /\ Rank("agency_admin") = 1 /\ Rank("agent") = 2
  BY DEF Rank
<1> QED
  BY <1>3, <1>4, <1>5

\* The first n of some members are n at most.
LEMMA FirstFew ==
  ASSUME NEW s, Sound(s), NEW I \in SUBSET Seats(s), NEW n \in Nat
  PROVE  /\ First(s, I, n) \subseteq I /\ IsFiniteSet(First(s, I, n)) /\ IsFiniteSet(I)
         /\ Cardinality(First(s, I, n)) \in Nat /\ Cardinality(First(s, I, n)) <= n
<1>1. IsFiniteSet(I)
  <2>1. Len(s.members) \in Int /\ 1 \in Int /\ DOMAIN s.members = 1 .. Len(s.members)
    BY DbFields, LenProperties DEF Sound
  <2> QED
    BY <2>1, FS_Interval, FS_Subset DEF Seats
<1> DEFINE k == [i \in I |-> Rank(s.members[i].role)]
<1>2. \A i \in I : i \in Nat /\ k[i] \in Nat
  BY RankIs
<1>3. PICK before : before = [i \in I |-> {j \in I : Before(s, j, i)}]
  OBVIOUS
<1>4. \A i, j \in I : Before(s, j, i) <=> k[j] < k[i] \/ (k[j] = k[i] /\ j < i)
  <2>1. ASSUME NEW i \in I, NEW j \in I
        PROVE  Before(s, j, i) <=> k[j] < k[i] \/ (k[j] = k[i] /\ j < i)
    <3>1. k[i] = Rank(s.members[i].role) /\ k[j] = Rank(s.members[j].role)
      OBVIOUS
    <3> HIDE DEF k
    <3> QED
      BY <3>1, Zenon DEF Before
  <2> QED
    BY <2>1
<1> HIDE DEF k
<1>5. before \in [I -> SUBSET I] /\ \A i, j \in I : j \in before[i] <=> k[j] < k[i] \/ (k[j] = k[i] /\ j < i)
  BY <1>3, <1>4
<1>6. \A i \in I : i \notin before[i]
  BY <1>2, <1>5
<1>7. \A i, j \in I : j \in before[i] => before[j] \subseteq before[i]
  <2>1. ASSUME NEW i \in I, NEW j \in I, j \in before[i], NEW h \in before[j] PROVE h \in before[i]
    <3>1. h \in I
      BY <1>5
    <3> QED
      BY <2>1, <3>1, <1>2, <1>5
  <2> QED
    BY <2>1
<1>8. \A i, j \in I : i # j => i \in before[j] \/ j \in before[i]
  <2>1. ASSUME NEW i \in I, NEW j \in I, i # j PROVE i \in before[j] \/ j \in before[i]
    <3>1. i \in Nat /\ j \in Nat /\ k[i] \in Nat /\ k[j] \in Nat
      BY <1>2
    <3>2. k[i] < k[j] \/ (k[i] = k[j] /\ i < j) \/ k[j] < k[i] \/ (k[j] = k[i] /\ j < i)
      BY <2>1, <3>1
    <3> QED
      BY <3>2, <1>5
  <2> QED
    BY <2>1
<1>9. PICK F : F = {i \in I : Cardinality(before[i]) < n}
  OBVIOUS
<1>10. IsFiniteSet(F) /\ Cardinality(F) <= n
  BY <1>1, <1>5, <1>6, <1>7, <1>8, <1>9, FewFirst
<1>11. First(s, I, n) = F
  BY <1>3, <1>9 DEF First
<1> QED
  BY <1>1, <1>9, <1>10, <1>11, FS_CardinalityType

\* The invitations that fit the room are no more than the room.
LEMMA InvitesThatFit ==
  ASSUME NEW s, Sound(s), NEW n \in Nat, NEW F,
         F = Reserved(s) \ {i \in Reserved(s) : Cardinality({j \in Reserved(s) : j < i}) >= n}
  PROVE  IsFiniteSet(F) /\ Cardinality(F) \in Nat /\ Cardinality(F) <= n
<1>1. PICK I : I = Reserved(s)
  OBVIOUS
<1>2. IsFiniteSet(I) /\ \A i \in I : i \in Nat
  <2>1. Len(s.invites) \in Nat /\ DOMAIN s.invites = 1 .. Len(s.invites)
    BY DbFields, LenProperties DEF Sound
  <2>2. IsFiniteSet(1 .. Len(s.invites))
    BY <2>1, FS_Interval
  <2> QED
    BY <1>1, <2>1, <2>2, FS_Subset DEF Reserved
<1>3. PICK before : before = [i \in I |-> {j \in I : j < i}]
  OBVIOUS
<1>4. before \in [I -> SUBSET I] /\ \A i, j \in I : j \in before[i] <=> j < i
  BY <1>3
<1>5. \A i \in I : i \notin before[i]
  BY <1>2, <1>4
<1>6. \A i, j \in I : j \in before[i] => before[j] \subseteq before[i]
  <2>1. ASSUME NEW i \in I, NEW j \in I, j \in before[i], NEW h \in before[j] PROVE h \in before[i]
    <3>1. h \in I
      BY <1>4
    <3> QED
      BY <2>1, <3>1, <1>2, <1>4
  <2> QED
    BY <2>1
<1>7. \A i, j \in I : i # j => i \in before[j] \/ j \in before[i]
  BY <1>2, <1>4
<1>8. PICK G : G = {i \in I : Cardinality(before[i]) < n}
  OBVIOUS
<1>9. IsFiniteSet(G) /\ Cardinality(G) <= n
  BY <1>2, <1>4, <1>5, <1>6, <1>7, <1>8, FewFirst
<1>10. F = G
  <2>1. \A i \in I : Cardinality(before[i]) \in Nat
    BY <1>2, <1>4, FS_Subset, FS_CardinalityType
  <2>2. \A i \in I : ~(Cardinality(before[i]) >= n) <=> Cardinality(before[i]) < n
    BY <2>1
  <2> QED
    BY <1>1, <1>3, <1>8, <2>2
<1> QED
  BY <1>9, <1>10, FS_CardinalityType

Active(s) == {i \in NormalSeats(s) : s.members[i].status # "blocked"}
Waiting(s) == {i \in NormalSeats(s) : Restorable(s.members[i])}
Kept(s, limit) == Active(s) \ ToBlock(s, limit)

\* The members that are kept and those that are restored leave the owner a seat.
LEMMA SeatsThatFit ==
  ASSUME NEW s, Sound(s), NEW limit \in Nat \ {0}, NEW previous,
         NEW K, K = Kept(s, limit), NEW R, R = ToRestore(s, limit, previous)
  PROVE  /\ IsFiniteSet(K) /\ IsFiniteSet(R) /\ K \subseteq Active(s) /\ R \subseteq Waiting(s)
         /\ Cardinality(K) \in Nat /\ Cardinality(R) \in Nat
         /\ limit - 1 - Cardinality(K) - Cardinality(R) \in Nat
<1>1. Active(s) \in SUBSET Seats(s) /\ Waiting(s) \in SUBSET Seats(s)
  BY DEF Active, Waiting, NormalSeats
<1>2. limit - 1 \in Nat
  OBVIOUS
<1>3. ToBlock(s, limit) = Active(s) \ First(s, Active(s), limit - 1)
  BY DEF ToBlock, Active
<1>4. PICK n : n = limit - 1
  OBVIOUS
<1>5. PICK G : G = First(s, Active(s), n)
  OBVIOUS
<1>6. G \subseteq Active(s) /\ IsFiniteSet(G) /\ Cardinality(G) \in Nat /\ Cardinality(G) <= n
  BY <1>1, <1>2, <1>4, <1>5, FirstFew
<1>7. K = G
  BY <1>3, <1>4, <1>5, <1>6 DEF Kept
<1>8. PICK m : m = n - Cardinality(G)
  OBVIOUS
<1>9. m \in Nat
  BY <1>2, <1>4, <1>6, <1>8
<1>10. R = IF limit > Larger(1, previous) THEN First(s, Waiting(s), m) ELSE {}
  BY <1>4, <1>7, <1>8 DEF ToRestore, Kept, Active, Waiting
<1>11. CASE limit > Larger(1, previous)
  <2>1. R = First(s, Waiting(s), m)
    BY <1>10, <1>11
  <2>2. R \subseteq Waiting(s) /\ IsFiniteSet(R) /\ Cardinality(R) \in Nat /\ Cardinality(R) <= m
    BY <1>1, <1>9, <2>1, FirstFew
  <2> QED
    BY <1>4, <1>6, <1>7, <1>8, <1>9, <2>2
<1>12. CASE ~(limit > Larger(1, previous))
  <2>1. R = {} /\ IsFiniteSet(R) /\ Cardinality(R) = 0
    BY <1>10, <1>12, FS_EmptySet
  <2> QED
    BY <1>4, <1>6, <1>7, <1>8, <1>9, <2>1
<1> QED
  BY <1>11, <1>12

\* A set that is named by the elements of another has no more elements.
LEMMA NamedBy ==
  ASSUME NEW I, IsFiniteSet(I), NEW f, NEW W, \A w \in W : \E i \in I : f[i] = w
  PROVE  IsFiniteSet(W) /\ Cardinality(W) \in Nat /\ Cardinality(W) <= Cardinality(I)
<1> DEFINE g == [w \in W |-> CHOOSE i \in I : f[i] = w]
<1>1. \A w \in W : g[w] \in I /\ f[g[w]] = w
  <2>1. ASSUME NEW w \in W PROVE g[w] \in I /\ f[g[w]] = w
    <3>1. \E i \in I : f[i] = w
      OBVIOUS
    <3>2. g[w] = CHOOSE i \in I : f[i] = w
      OBVIOUS
    <3> HIDE DEF g
    <3> QED
      BY <3>1, <3>2
  <2> QED
    BY <2>1
<1>2. g \in [W -> I]
  BY <1>1
<1> HIDE DEF g
<1>3. g \in Injection(W, I)
  BY <1>1, <1>2 DEF Injection, IsInjective
<1> QED
  BY <1>3, FS_Injection, FS_CardinalityType

Change(u) == IF Restorable(u) THEN Restored(u) ELSE Blocked(u, "subscription_quota")
Patches(s, limit, previous) ==
  {s.members[i].who : i \in ToBlock(s, limit) \cup ToRestore(s, limit, previous)}
Revoked(s, limit, previous) == {s.invites[i].who : i \in ToRevoke(s, limit, previous)}

\* What a reconciliation writes.
Writes(s, org, previous, limit, patch, dropped, written) ==
  /\ patch = [w \in Patches(s, limit, previous) |-> Change(Member(s, w))]
  /\ dropped = Revoked(s, limit, previous)
  /\ written = [org EXCEPT !.granted = db.granted \ (s.granted \cup Patches(s, limit, previous)),
                           !.swallowed = @ /\ ~s.swallowed]
  /\ Commit(s, patch, <<>>, dropped, <<>>, written)

\* A reconciliation writes what Writes says.
LEMMA ReconcilingIs ==
  ASSUME NEW s, NEW org, NEW previous, NEW current, Reconciling(s, org, previous, current)
  PROVE  \E patch, dropped, written :
           Writes(s, org, previous, Larger(1, current), patch, dropped, written)
BY Zenon DEF Reconciling, Change, Patches, Revoked, Writes

\* Who is patched is a member whose seat changes; nobody suspended is.
LEMMA PatchIs ==
  ASSUME NEW s, Sound(s), NEW limit \in Nat \ {0}, NEW previous, NEW w \in Patches(s, limit, previous)
  PROVE  /\ w \in People
         /\ Change(Member(s, w)) \in UserType /\ Change(Member(s, w)).who = w
         /\ Change(Member(s, w)).status # "blocked" =>
              \E i \in ToRestore(s, limit, previous) : s.members[i].who = w
         /\ ~(Member(s, w).status = "blocked" /\ Member(s, w).source = "platform_admin")
<1>1. PICK i \in ToBlock(s, limit) \cup ToRestore(s, limit, previous) : s.members[i].who = w
  BY DEF Patches
<1>2. ToRestore(s, limit, previous) \subseteq Waiting(s)
  BY SeatsThatFit
<1>3. ToBlock(s, limit) \subseteq Active(s)
  BY DEF ToBlock, Active
<1>4. i \in Seats(s) /\ w # Owner
  BY <1>1, <1>2, <1>3 DEF Active, Waiting, NormalSeats
<1>5. Member(s, w) = s.members[i]
  BY <1>1, <1>4, MemberIs DEF Sound
<1>6. w \in Members(s)
  BY <1>1, <1>4 DEF Members
<1>7. Member(s, w) \in UserType /\ Member(s, w).who = w /\ w \in People
  BY <1>4, <1>6, MemberOf
<1>8. CASE i \in ToRestore(s, limit, previous)
  <2>1. Restorable(Member(s, w))
    BY <1>2, <1>5, <1>8 DEF Waiting
  <2>2. Change(Member(s, w)) = Restored(Member(s, w))
    BY <2>1 DEF Change
  <2> QED
    BY <1>1, <1>7, <1>8, <2>1, <2>2, RestoredIs DEF Restorable
<1>9. CASE i \in ToBlock(s, limit)
  <2>1. Member(s, w).status # "blocked"
    BY <1>3, <1>5, <1>9 DEF Active
  <2>2. Change(Member(s, w)) = Blocked(Member(s, w), "subscription_quota")
    BY <2>1 DEF Change, Restorable
  <2> QED
    BY <1>7, <2>1, <2>2, BlockedIs DEF Sources
<1> QED
  BY <1>1, <1>8, <1>9

\* The invitations that are not revoked fit the room that the members leave.
LEMMA RevokedHold ==
  ASSUME NEW s, Sound(s), NEW limit \in Nat \ {0}, NEW previous, NEW H,
         H = Holding(s) \ Revoked(s, limit, previous)
  PROVE  /\ IsFiniteSet(H) /\ Cardinality(H) \in Nat
         /\ Cardinality(H) <= limit - 1 - Cardinality(Kept(s, limit))
                                - Cardinality(ToRestore(s, limit, previous))
<1>1. PICK n : n = limit - 1 - Cardinality(Kept(s, limit)) - Cardinality(ToRestore(s, limit, previous))
  OBVIOUS
<1>2. n \in Nat
  BY <1>1, SeatsThatFit
<1>3. ToRevoke(s, limit, previous) =
        {i \in Reserved(s) : Cardinality({j \in Reserved(s) : j < i}) >= n}
  BY <1>1, Zenon DEF ToRevoke, Kept, Active
<1>4. PICK F : F = Reserved(s) \ ToRevoke(s, limit, previous)
  OBVIOUS
<1>5. IsFiniteSet(F) /\ Cardinality(F) \in Nat /\ Cardinality(F) <= n
  BY <1>2, <1>3, <1>4, InvitesThatFit
<1>6. PICK f : f = [i \in F |-> s.invites[i].who]
  OBVIOUS
<1>7. ASSUME NEW w \in H PROVE \E i \in F : f[i] = w
  <2>1. PICK i \in Reserved(s) : s.invites[i].who = w
    BY DEF Holding
  <2>2. i \notin ToRevoke(s, limit, previous)
    BY <2>1 DEF Revoked
  <2> QED
    BY <1>4, <1>6, <2>1, <2>2
<1>8. IsFiniteSet(H) /\ Cardinality(H) \in Nat /\ Cardinality(H) <= Cardinality(F)
  BY <1>5, <1>7, NamedBy
<1> QED
  BY <1>1, <1>2, <1>5, <1>8

\* Who uses a seat when all that is to be blocked is, and all that is to be restored too.
LEMMA ReconciledUse ==
  ASSUME NEW s, Sound(s), NEW limit \in Nat \ {0}, NEW previous, NEW W,
         \A w \in W : \/ w = Owner
                      \/ \E i \in Kept(s, limit) \cup ToRestore(s, limit, previous) :
                           s.members[i].who = w
  PROVE  /\ IsFiniteSet(W) /\ Cardinality(W) \in Nat
         /\ Cardinality(W) <= 1 + Cardinality(Kept(s, limit))
                                + Cardinality(ToRestore(s, limit, previous))
<1>1. PICK K, R : K = Kept(s, limit) /\ R = ToRestore(s, limit, previous)
  OBVIOUS
<1>2. IsFiniteSet(K) /\ IsFiniteSet(R) /\ Cardinality(K) \in Nat /\ Cardinality(R) \in Nat
  BY <1>1, SeatsThatFit
<1>3. /\ IsFiniteSet(K \cup R) /\ IsFiniteSet(K \cap R)
      /\ Cardinality(K \cup R) = Cardinality(K) + Cardinality(R) - Cardinality(K \cap R)
  BY <1>2, FS_Union, FS_Intersection
<1>4. Cardinality(K \cup R) <= Cardinality(K) + Cardinality(R) /\ Cardinality(K \cup R) \in Nat
  BY <1>2, <1>3, FS_CardinalityType
<1>5. PICK f : f = [i \in K \cup R |-> s.members[i].who]
  OBVIOUS
<1>6. PICK V : V = W \ {Owner}
  OBVIOUS
<1>7. \A w \in V : \E i \in K \cup R : f[i] = w
  BY <1>1, <1>5, <1>6
<1>8. PICK I : I = K \cup R
  OBVIOUS
<1>9. IsFiniteSet(V) /\ Cardinality(V) \in Nat /\ Cardinality(V) <= Cardinality(I)
  BY <1>3, <1>7, <1>8, NamedBy
<1>10. IsFiniteSet(V \cup {Owner}) /\ Cardinality(V \cup {Owner}) <= Cardinality(V) + 1
       /\ Cardinality(V \cup {Owner}) \in Nat
  BY <1>9, OneMore
<1>11. W \subseteq V \cup {Owner}
  BY <1>6
<1>12. IsFiniteSet(W) /\ Cardinality(W) <= Cardinality(V \cup {Owner}) /\ Cardinality(W) \in Nat
  BY <1>10, <1>11, FS_Subset, FS_CardinalityType
<1> QED
  BY <1>1, <1>2, <1>4, <1>8, <1>9, <1>10, <1>12

\* A reconciliation to the limit that is in force afterwards.
LEMMA Reconciled ==
  ASSUME IInv, NEW s \in Snapshots, NEW org \in DbType,
         org.granted = db.granted, org.swallowed = db.swallowed,
         NEW previous, NEW current \in Nat, Reconciling(s, org, previous, current),
         org.override # None => s.swallowed \/ ~db.swallowed,
         ~Due(org) /\ (db.swallowed => s.swallowed) => Limit(org) = current
  PROVE  IInv' /\ Stays
<1>1. Sound(s) /\ Since(s, db) /\ Sound(db) /\ db \in DbType
  BY SnapshotIs DEF IInv, Sound
<1>2. PICK limit : limit = Larger(1, current)
  OBVIOUS
<1>3. limit \in Nat \ {0}
  BY <1>2 DEF Larger
<1>4. PICK P, K, R : /\ P = Patches(s, limit, previous)
                     /\ K = Kept(s, limit) /\ R = ToRestore(s, limit, previous)
  OBVIOUS
<1>5. PICK patch, dropped, written : Writes(s, org, previous, limit, patch, dropped, written)
  BY <1>2, ReconcilingIs
<1>6. /\ patch = [w \in Patches(s, limit, previous) |-> Change(Member(s, w))]
       /\ dropped = Revoked(s, limit, previous)
       /\ written = [org EXCEPT
                       !.granted = db.granted \ (s.granted \cup Patches(s, limit, previous)),
                       !.swallowed = @ /\ ~s.swallowed]
       /\ Commit(s, patch, <<>>, dropped, <<>>, written)
  BY <1>5 DEF Writes
<1>7. PICK gone : gone = db.granted \ (s.granted \cup P)
  OBVIOUS
<1>8. PICK lost \in BOOLEAN : lost = (db.swallowed /\ ~s.swallowed)
  OBVIOUS
<1>9. /\ written \in DbType /\ written.granted = gone /\ written.swallowed = lost
      /\ written.plan = org.plan /\ written.override = org.override
  <2>1. PICK me, iv, pl, ov, su, gr, sw :
          /\ org = [members |-> me, invites |-> iv, plan |-> pl, override |-> ov, suspended |-> su,
                    granted |-> gr, swallowed |-> sw]
          /\ me \in Seq(UserType) /\ iv \in Seq(InviteType)
          /\ pl \in Limits /\ ov \in [grant : Grants, late : BOOLEAN] \cup {None} /\ su \in BOOLEAN
          /\ gr \in SUBSET People /\ sw \in BOOLEAN
    BY DEF DbType
  <2>2. PICK first : first = [org EXCEPT !.granted = gone]
    OBVIOUS
  <2>3. first = [members |-> me, invites |-> iv, plan |-> pl, override |-> ov, suspended |-> su,
                 granted |-> gone, swallowed |-> sw]
    BY <2>1, <2>2
  <2>4. written = [first EXCEPT !.swallowed = @ /\ ~s.swallowed]
    BY <1>4, <1>6, <1>7, <2>2, Zenon
  <2>5. first.swallowed = db.swallowed
    BY <2>1, <2>3
  <2>6. written = [members |-> me, invites |-> iv, plan |-> pl, override |-> ov, suspended |-> su,
                   granted |-> gone, swallowed |-> lost]
    BY <1>8, <2>3, <2>4, <2>5
  <2>7. gone \in SUBSET People
    BY <1>1, <1>7, DbFields
  <2> QED
    BY <2>1, <2>6, <2>7 DEF DbType
<1>10. PICK hired, sent : hired = <<>> /\ sent = <<>>
  OBVIOUS
<1>11. /\ hired \in Seq(UserType) /\ Distinct(hired) /\ DOMAIN hired = {}
       /\ sent \in Seq(InviteType) /\ Distinct(sent) /\ DOMAIN sent = {}
  BY <1>10, NoDocuments
<1>12. DOMAIN patch = P /\ \A w \in P : patch[w] = Change(Member(s, w))
  BY <1>4, <1>6
<1>13. \A w \in P : /\ patch[w] \in UserType /\ patch[w].who = w /\ w \in People
                    /\ patch[w].status # "blocked" => \E i \in R : s.members[i].who = w
                    /\ ~(Member(s, w).status = "blocked" /\ Member(s, w).source = "platform_admin")
  BY <1>1, <1>3, <1>4, <1>12, PatchIs
<1>14. Commit(s, patch, hired, dropped, sent, written)
  BY <1>6, <1>10
<1>15. /\ Kempt(db') /\ Made(s, patch, hired, dropped, sent)
       /\ db'.plan = written.plan /\ db'.override = written.override
       /\ db'.granted = written.granted /\ db'.swallowed = written.swallowed
       /\ held' = None /\ UNCHANGED edit /\ UNCHANGED edits
  <2>1. Fine(s, patch, hired, dropped, sent)
    BY <1>11, <1>12, <1>13 DEF Fine
  <2> QED
    BY <1>1, <1>9, <1>14, <2>1, CommitMakes
<1>16. /\ Using(db') = (Using(db) \ P) \cup {w \in P : patch[w].status # "blocked"}
       /\ Holding(db') = Holding(db) \ dropped
  BY <1>11, <1>12, <1>15 DEF Made
<1>17. /\ db'.granted = gone /\ db'.swallowed = lost
       /\ db'.plan = org.plan /\ db'.override = org.override
  BY <1>9, <1>15
<1>18. Sound(db')
  <2>1. gone \subseteq Using(db')
    BY <1>1, <1>7, <1>16 DEF Sound
  <2>2. org.override # None => ~lost
    BY <1>8
  <2> QED
    BY <1>15, <1>17, <2>1, <2>2 DEF Sound, Kempt
<1>19. PICK W, H : W = Using(db') \ gone /\ H = Holding(s) \ dropped
  OBVIOUS
<1>20. ASSUME NEW w \in W
       PROVE  w = Owner \/ \E i \in K \cup R : s.members[i].who = w
  <2>1. CASE w \in P /\ patch[w].status # "blocked"
    BY <2>1, <1>13
  <2>2. CASE w \in Using(db) \ P
    <3>1. w \in Using(s)
      <4>1. CASE w \in db.granted
        BY <4>1, <2>2, <1>1, <1>7, <1>19 DEF Sound
      <4>2. CASE w \notin db.granted
        BY <4>2, <2>2, <1>1 DEF Since
      <4> QED
        BY <4>1, <4>2
    <3>2. PICK i \in DOMAIN s.members :
            s.members[i].who = w /\ (s.members[i].status # "blocked" \/ w = Owner)
      BY <3>1, UsingIs
    <3>3. i \notin ToBlock(s, limit)
      BY <3>2, <2>2, <1>4 DEF Patches
    <3>4. CASE w # Owner
      <4>1. i \in Kept(s, limit)
        BY <3>2, <3>3, <3>4 DEF Kept, Active, NormalSeats, Seats
      <4> QED
        BY <4>1, <3>2, <1>4
    <3> QED
      BY <3>4
  <2> QED
    BY <2>1, <2>2, <1>16, <1>19
<1>21. /\ IsFiniteSet(W) /\ Cardinality(W) \in Nat
       /\ Cardinality(W) <= 1 + Cardinality(K) + Cardinality(R)
  <2>1. \A w \in W : \/ w = Owner
                     \/ \E i \in Kept(s, limit) \cup ToRestore(s, limit, previous) :
                          s.members[i].who = w
    BY <1>4, <1>20
  <2>2. /\ IsFiniteSet(W) /\ Cardinality(W) \in Nat
        /\ Cardinality(W) <= 1 + Cardinality(Kept(s, limit)) + Cardinality(ToRestore(s, limit, previous))
    BY <2>1, <1>1, <1>3, ReconciledUse
  <2> QED
    BY <2>2, <1>4
<1>22. /\ IsFiniteSet(H) /\ Cardinality(H) \in Nat
       /\ Cardinality(H) <= limit - 1 - Cardinality(K) - Cardinality(R)
  <2>1. H = Holding(s) \ Revoked(s, limit, previous)
    BY <1>6, <1>19
  <2> QED
    BY <2>1, <1>1, <1>3, <1>4, RevokedHold
<1>23. Cardinality(K) \in Nat /\ Cardinality(R) \in Nat
  BY <1>1, <1>3, <1>4, SeatsThatFit
<1>24. Cardinality(W) + Cardinality(H) <= limit
  BY <1>3, <1>21, <1>22, <1>23
<1>25. ASSUME ~Due(db'), ~db'.swallowed PROVE Cardinality(W) + Cardinality(H) <= Larger(1, Limit(db'))
  <2>1. ~Due(org) /\ Limit(db') = Limit(org)
    BY <1>17, <1>25 DEF Due, Limit
  <2>2. db.swallowed => s.swallowed
    BY <1>8, <1>17, <1>25
  <2> QED
    BY <1>2, <1>24, <2>1, <2>2
<1>26. Fits(db')
  <2>1. Using(db') \ db'.granted \subseteq W /\ Holding(db') \subseteq H
    BY <1>1, <1>16, <1>17, <1>19 DEF Since
  <2> QED
    BY <1>18, <1>21, <1>22, <1>25, <2>1, FitsIf
<1>27. IInv'
  BY <1>15, <1>18, <1>26 DEF IInv
<1>28. Stays
  <2>1. ASSUME NEW w \in People, Suspended(db, w) PROVE Suspended(db', w)
    <3>1. w \notin P
      BY <2>1, <1>12, <1>13, <1>14, NotSuspended
    <3> QED
      BY <2>1, <3>1, <1>12, <1>15 DEF Made
  <2> QED
    BY <2>1 DEF Stays
<1> QED
  BY <1>27, <1>28

\* The organization with another plan or override.
LEMMA OrgIs ==
  ASSUME NEW d \in DbType, NEW b \in Limits, NEW o \in [grant : Grants, late : BOOLEAN] \cup {None},
         NEW e, e = [d EXCEPT !.plan = b] \/ e = [d EXCEPT !.override = o]
  PROVE  /\ e \in DbType /\ e.granted = d.granted /\ e.swallowed = d.swallowed
         /\ e = [d EXCEPT !.plan = b] => e.plan = b /\ e.override = d.override
         /\ e = [d EXCEPT !.override = o] => e.plan = d.plan /\ e.override = o
<1>1. PICK me, iv, pl, ov, su, gr, sw :
        /\ d = [members |-> me, invites |-> iv, plan |-> pl, override |-> ov, suspended |-> su,
                granted |-> gr, swallowed |-> sw]
        /\ me \in Seq(UserType) /\ iv \in Seq(InviteType)
        /\ pl \in Limits /\ ov \in [grant : Grants, late : BOOLEAN] \cup {None} /\ su \in BOOLEAN
        /\ gr \in SUBSET People /\ sw \in BOOLEAN
  BY DEF DbType
<1>2. [d EXCEPT !.plan = b] = [members |-> me, invites |-> iv, plan |-> b, override |-> ov,
                               suspended |-> su, granted |-> gr, swallowed |-> sw]
  BY <1>1
<1>3. [d EXCEPT !.override = o] = [members |-> me, invites |-> iv, plan |-> pl, override |-> o,
                                   suspended |-> su, granted |-> gr, swallowed |-> sw]
  BY <1>1
<1>4. CASE e = [d EXCEPT !.plan = b]
  <2>1. e = [members |-> me, invites |-> iv, plan |-> b, override |-> ov,
             suspended |-> su, granted |-> gr, swallowed |-> sw]
    BY <1>2, <1>4
  <2>2. e = [d EXCEPT !.override = o] => b = pl /\ ov = o
    BY <1>3, <2>1
  <2> QED
    BY <1>1, <2>1, <2>2 DEF DbType
<1>5. CASE e = [d EXCEPT !.override = o]
  <2>1. e = [members |-> me, invites |-> iv, plan |-> pl, override |-> o,
             suspended |-> su, granted |-> gr, swallowed |-> sw]
    BY <1>3, <1>5
  <2>2. e = [d EXCEPT !.plan = b] => b = pl /\ ov = o
    BY <1>2, <2>1
  <2> QED
    BY <1>1, <2>1, <2>2 DEF DbType
<1> QED
  BY <1>4, <1>5

\* A change of plan reconciles to the limit of the new plan.
LEMMA ChangePlanKeeps ==
  ASSUME IInv, NEW s \in Snapshots, ChangePlan(s)
  PROVE  IInv' /\ Stays
<1>1. PICK b \in Limits :
        Reconciling(s, [db EXCEPT !.plan = b], Limit(s), Limit([s EXCEPT !.plan = b]))
  BY DEF ChangePlan
<1>2. /\ Sound(s) /\ Since(s, db) /\ Sound(db) /\ db \in DbType /\ s \in DbType
  BY SnapshotIs DEF IInv, Sound
<1>3. PICK org, then : org = [db EXCEPT !.plan = b] /\ then = [s EXCEPT !.plan = b]
  OBVIOUS
<1>4. org \in DbType /\ org.granted = db.granted /\ org.swallowed = db.swallowed
      /\ org.plan = b /\ org.override = db.override
  BY <1>2, <1>3, OrgIs
<1>5. then \in DbType /\ then.plan = b /\ then.override = s.override
  BY <1>2, <1>3, OrgIs
<1>6. PICK current \in Nat : current = Limit(then)
  BY <1>5, LimitIsNat
<1>7. Reconciling(s, org, Limit(s), current)
  BY <1>1, <1>3, <1>6
<1>8. org.override # None => s.swallowed \/ ~db.swallowed
  BY <1>2, <1>4 DEF Sound
<1>9. ASSUME ~Due(org), db.swallowed => s.swallowed PROVE Limit(org) = current
  <2>1. db.override = s.override
    BY <1>2, <1>4, <1>9 DEF Since, Fades, Due, Sound
  <2> QED
    BY <2>1, <1>4, <1>5, <1>6 DEF Limit, Due
<1> QED
  BY <1>4, <1>7, <1>8, <1>9, Reconciled

\* An override reconciles to the limit that it gives.
LEMMA CreateOrReplaceKeeps ==
  ASSUME IInv, NEW s \in Snapshots, CreateOrReplace(s)
  PROVE  IInv' /\ Stays
<1>1. PICK g \in Grants :
        LET o == [grant |-> g, late |-> FALSE]
        IN  /\ OverrideUnwritten(s)
            /\ Reconciling(s, [db EXCEPT !.override = o], Limit(s), Limit([s EXCEPT !.override = o]))
  BY DEF CreateOrReplace
<1>2. PICK o : o = [grant |-> g, late |-> FALSE]
  OBVIOUS
<1>3. o \in [grant : Grants, late : BOOLEAN] \cup {None}
  BY <1>2
<1>4. /\ OverrideUnwritten(s)
      /\ Reconciling(s, [db EXCEPT !.override = o], Limit(s), Limit([s EXCEPT !.override = o]))
  BY <1>1, <1>2
<1>5. Sound(s) /\ Since(s, db) /\ Sound(db) /\ db \in DbType /\ s \in DbType /\ db.plan \in Limits
  BY SnapshotIs, DbFields DEF IInv, Sound
<1>6. PICK org, then : org = [db EXCEPT !.override = o] /\ then = [s EXCEPT !.override = o]
  OBVIOUS
<1>7. org \in DbType /\ org.granted = db.granted /\ org.swallowed = db.swallowed
      /\ org.plan = db.plan /\ org.override = o
  BY <1>3, <1>5, <1>6, OrgIs
<1>8. then \in DbType /\ then.plan = s.plan /\ then.override = o
  BY <1>3, <1>5, <1>6, OrgIs
<1>9. PICK current \in Nat : current = Limit(then)
  BY <1>8, LimitIsNat
<1>10. Reconciling(s, org, Limit(s), current)
  BY <1>4, <1>6, <1>9
<1>11. s.swallowed \/ ~db.swallowed
  BY <1>4, <1>5 DEF OverrideUnwritten, Since, Fades
<1>12. Limit(org) = current
  BY <1>5, <1>7, <1>8, <1>9 DEF Limit, Due, Since
<1> QED
  BY <1>7, <1>10, <1>11, <1>12, Reconciled

\* The override goes: the plan alone counts.
LEMMA OverrideGoes ==
  ASSUME IInv, NEW s \in Snapshots, NEW previous,
         Reconciling(s, [db EXCEPT !.override = None], previous, s.plan)
  PROVE  IInv' /\ Stays
<1>1. Sound(s) /\ Since(s, db) /\ Sound(db) /\ db \in DbType /\ s \in DbType /\ db.plan \in Limits
  BY SnapshotIs, DbFields DEF IInv, Sound
<1>2. PICK org : org = [db EXCEPT !.override = None]
  OBVIOUS
<1>3. org \in DbType /\ org.granted = db.granted /\ org.swallowed = db.swallowed
      /\ org.plan = db.plan /\ org.override = None
  BY <1>1, <1>2, OrgIs
<1>4. PICK current \in Nat : current = s.plan
  BY <1>1, DbFields, LimitsAssumption
<1>5. Reconciling(s, org, previous, current)
  BY <1>2, <1>4
<1>6. Limit(org) = current
  BY <1>1, <1>3, <1>4 DEF Limit, Since
<1> QED
  BY <1>3, <1>5, <1>6, Reconciled

\* Whatever changes the limit reconciles the seats in the same transaction.
LEMMA LimitStepKeeps ==
  ASSUME IInv, NEW s \in Snapshots, LimitStep(s)
  PROVE  IInv' /\ Stays
<1>1. CASE ChangePlan(s)
  BY <1>1, ChangePlanKeeps
<1>2. CASE CreateOrReplace(s)
  BY <1>2, CreateOrReplaceKeeps
<1>3. CASE Revoke(s)
  BY <1>3, OverrideGoes DEF Revoke
<1>4. CASE ApplyDueExpiration(s)
  BY <1>4, OverrideGoes DEF ApplyDueExpiration
<1> QED
  BY <1>1, <1>2, <1>3, <1>4 DEF LimitStep

\* The tenant's handlers, one after the other.
LEMMA TenantStepKeeps ==
  ASSUME IInv, NEW s \in Snapshots, TenantStep(s)
  PROVE  IInv' /\ Stays
<1>1. CASE CreateInvitation(s)
  BY <1>1, CreateInvitationKeeps
<1>2. CASE AcceptInvitation(s)
  BY <1>2, AcceptInvitationKeeps
<1>3. CASE CreateUser(s)
  BY <1>3, CreateUserKeeps
<1>4. CASE UnblockMember(s)
  BY <1>4, UnblockMemberKeeps
<1>5. CASE BlockMember(s)
  BY <1>5, BlockMemberKeeps
<1> QED
  BY <1>1, <1>2, <1>3, <1>4, <1>5 DEF TenantStep

-----------------------------------------------------------------------------
(* Outside the guard. *)

Edits == [read : UserType, status : Statuses] \cup {None}

\* A step outside the guard: a transaction under way may still commit after it.
LEMMA OutsideStep ==
  ASSUME IInv, Sound(db'), Fits(db'), Since(db, db'), UNCHANGED held,
         edit' \in Edits, edits' \in 0 .. MaxEdits
  PROVE  IInv'
<1>1. held # None => Since(held, db')
  BY SinceThen DEF IInv
<1> QED
  BY <1>1 DEF IInv, Edits

\* The steps outside the guard are counted up to the bound.
LEMMA EditedIs ==
  ASSUME IInv, Edited
  PROVE  edits' \in 0 .. MaxEdits
BY LimitsAssumption DEF IInv, Edited

\* One user document written, in a tenant whose limit stays as it was.
WrittenDb(mm, suspended, granted) ==
  [members |-> mm, invites |-> db.invites, plan |-> db.plan, override |-> db.override,
   suspended |-> suspended, granted |-> granted, swallowed |-> db.swallowed]

\* What the write of one user document makes of the tenant.
LEMMA Written ==
  ASSUME Sound(db), NEW w \in Members(db), NEW u \in UserType, u.who = w,
         w = Owner => u.verified,
         NEW mm, mm = [i \in Seats(db) |-> IF db.members[i].who = w THEN u ELSE db.members[i]],
         NEW suspended \in BOOLEAN, NEW granted \in SUBSET People,
         db' = WrittenDb(mm, suspended, granted)
  PROVE  /\ Kempt(db') /\ Members(db') = Members(db)
         /\ Invited(db') = Invited(db) /\ Holding(db') = Holding(db)
         /\ Using(db') = (Using(db) \ {w}) \cup (IF u.status # "blocked" \/ w = Owner THEN {w} ELSE {})
         /\ \A x : x # w /\ Suspended(db, x) => Suspended(db', x)
         /\ Member(db', w) = u
         /\ db'.plan = db.plan /\ db'.override = db.override
         /\ db'.granted = granted /\ db'.swallowed = db.swallowed
<1>1. db.members \in Seq(UserType) /\ Distinct(db.members) /\ db \in DbType
  BY DbFields DEF Sound
<1>2. PICK patch : patch = [x \in {w} |-> u]
  OBVIOUS
<1>3. PICK m : m = db.members
  OBVIOUS
<1>4. DOMAIN patch = {w} /\ patch[w] = u
  BY <1>2
<1>5. mm = Patched(m, patch)
  <2>1. \A i \in DOMAIN m : (IF m[i].who \in DOMAIN patch THEN patch[m[i].who] ELSE m[i]) =
                            (IF m[i].who = w THEN u ELSE m[i])
    BY <1>4
  <2> QED
    BY <1>3, <2>1 DEF Patched, Seats
<1>6. OwnPatches(patch)
  BY <1>4 DEF OwnPatches
<1>7. mm \in Seq(UserType) /\ Distinct(mm) /\ IsPatched(m, patch, mm)
  BY <1>1, <1>3, <1>5, <1>6, PatchedMembers
<1>8. /\ DOMAIN mm = DOMAIN m
      /\ \A i \in DOMAIN m : /\ mm[i].who = m[i].who
                             /\ m[i].who = w => mm[i] = u
                             /\ m[i].who # w => mm[i] = m[i]
  BY <1>4, <1>7 DEF IsPatched
<1>9. /\ db'.members = mm /\ db'.invites = db.invites /\ db'.plan = db.plan
      /\ db'.override = db.override /\ db'.granted = granted /\ db'.swallowed = db.swallowed
      /\ db' \in DbType
  BY <1>1, <1>7, DbFields DEF WrittenDb, DbType
<1>10. Members(db') = Members(db)
  BY <1>3, <1>8, <1>9 DEF Members, Seats
<1>11. Invited(db') = Invited(db) /\ Holding(db') = Holding(db)
  BY <1>9 DEF Invited, Holding, Reserved
<1>12. PICK k \in DOMAIN m : m[k].who = w
  BY <1>3 DEF Members, Seats
<1>13. Member(db', w) = u
  <2>1. k \in Seats(db') /\ db'.members[k] = u /\ db'.members[k].who = w
    BY <1>8, <1>9, <1>12 DEF Seats
  <2>2. Distinct(db'.members)
    BY <1>7, <1>9
  <2> QED
    BY <2>1, <2>2, MemberIs
<1>14. \A x : x # w => (x \in Using(db') <=> x \in Using(db))
  BY <1>3, <1>8, <1>9, UsingIs
<1>15. w \in Using(db') <=> u.status # "blocked" \/ w = Owner
  BY <1>8, <1>9, <1>12, UsingIs
<1>16. Using(db') = (Using(db) \ {w}) \cup (IF u.status # "blocked" \/ w = Owner THEN {w} ELSE {})
  BY <1>14, <1>15
<1>17. ASSUME NEW x, x # w, Suspended(db, x) PROVE Suspended(db', x)
  <2>1. PICK i \in DOMAIN m : m[i].who = x
    BY <1>3, <1>17 DEF Suspended, Members, Seats
  <2>2. Member(db, x) = m[i]
    BY <1>1, <1>3, <2>1, MemberIs DEF Seats
  <2>3. i \in Seats(db') /\ db'.members[i] = m[i] /\ db'.members[i].who = x
    BY <1>8, <1>9, <1>17, <2>1 DEF Seats
  <2>4. Distinct(db'.members)
    BY <1>7, <1>9
  <2>5. Member(db', x) = m[i]
    BY <2>3, <2>4, MemberIs
  <2> QED
    BY <1>10, <1>17, <2>2, <2>5 DEF Suspended
<1>18. ASSUME NEW i \in Seats(db'), db'.members[i].who = Owner PROVE db'.members[i].verified
  BY <1>3, <1>8, <1>9, <1>18 DEF Sound, Seats
<1>19. Kempt(db')
  BY <1>1, <1>7, <1>9, <1>18 DEF Kempt, Sound
<1> QED
  BY <1>9, <1>10, <1>11, <1>13, <1>16, <1>17, <1>19

\* Who uses a seat.
LEMMA UsingMember ==
  ASSUME NEW d, Sound(d), NEW w \in Members(d)
  PROVE  w \in Using(d) <=> Member(d, w).status # "blocked" \/ w = Owner
<1>1. PICK i \in Seats(d) : d.members[i].who = w
  BY DEF Members
<1>2. Member(d, w) = d.members[i]
  BY <1>1, MemberIs DEF Sound
<1>3. \A j \in Seats(d) : d.members[j].who = w => j = i
  BY <1>1 DEF Sound, Distinct, Seats
<1> QED
  BY <1>1, <1>2, <1>3, UsingIs DEF Seats

\* Such a write keeps the invariant when a seat that is taken is granted.
LEMMA WrittenKeeps ==
  ASSUME IInv, NEW w \in Members(db), NEW u \in UserType, u.who = w,
         w = Owner => u.verified,
         NEW mm, mm = [i \in Seats(db) |-> IF db.members[i].who = w THEN u ELSE db.members[i]],
         NEW suspended \in BOOLEAN, NEW granted \in SUBSET People,
         db' = WrittenDb(mm, suspended, granted),
         granted \subseteq db.granted \cup {w}, db.granted \ {w} \subseteq granted,
         u.status # "blocked" /\ w # Owner /\ Member(db, w).status = "blocked" => w \in granted,
         w \in granted => u.status # "blocked",
         w \in db.granted /\ u.status # "blocked" => w \in granted,
         UNCHANGED held, edit' \in Edits, edits' \in 0 .. MaxEdits
  PROVE  /\ IInv' /\ Members(db') = Members(db) /\ Member(db', w) = u
         /\ \A x : x # w /\ Suspended(db, x) => Suspended(db', x)
<1>1. Sound(db) /\ Fits(db) /\ Owner \notin People
  BY PeopleAssumption DEF IInv
<1>2. /\ Kempt(db') /\ Members(db') = Members(db)
      /\ Invited(db') = Invited(db) /\ Holding(db') = Holding(db)
      /\ Using(db') = (Using(db) \ {w}) \cup (IF u.status # "blocked" \/ w = Owner THEN {w} ELSE {})
      /\ \A x : x # w /\ Suspended(db, x) => Suspended(db', x)
      /\ Member(db', w) = u
      /\ db'.plan = db.plan /\ db'.override = db.override
      /\ db'.granted = granted /\ db'.swallowed = db.swallowed
  BY <1>1, Written
<1>3. w \in Using(db) <=> Member(db, w).status # "blocked" \/ w = Owner
  BY <1>1, UsingMember
<1>4. db.granted \subseteq Using(db) /\ db.granted \subseteq People
  BY <1>1, DbFields DEF Sound
<1>5. Sound(db')
  <2>1. granted \subseteq Using(db')
    BY <1>2, <1>4
  <2> QED
    BY <1>1, <1>2, <2>1 DEF Sound, Kempt
<1>6. Since(db, db')
  <2>1. Fades(db, db')
    BY <1>2 DEF Fades
  <2>2. Using(db') \ Using(db) \subseteq db'.granted \ db.granted
    BY <1>2, <1>3, <1>4
  <2>3. db.granted \cap Using(db') \subseteq db'.granted
    BY <1>1, <1>2, <1>4
  <2> QED
    BY <1>2, <2>1, <2>2, <2>3 DEF Since
<1>7. Fits(db')
  <2>1. Using(db') \ db'.granted \subseteq Using(db) \ db.granted
    BY <1>1, <1>2, <1>3, <1>4
  <2>2. Due(db') = Due(db) /\ Limit(db') = Limit(db)
    BY <1>2 DEF Due, Limit
  <2> QED
    BY <1>1, <1>2, <1>5, <2>1, <2>2, FitsIs, FitsIf
<1>8. IInv'
  BY <1>5, <1>6, <1>7, OutsideStep
<1> QED
  BY <1>2, <1>8

\* The updates of the actions, as records.
LEMMA WrittenIs ==
  ASSUME db \in DbType, NEW mm, NEW g, NEW su
  PROVE  /\ [db EXCEPT !.members = mm] = WrittenDb(mm, db.suspended, db.granted)
         /\ [db EXCEPT !.members = mm, !.granted = g] = WrittenDb(mm, db.suspended, g)
         /\ [db EXCEPT !.members = mm, !.granted = g, !.suspended = su] = WrittenDb(mm, su, g)
<1>1. PICK me, iv, pl, ov, s, gr, sw :
        db = [members |-> me, invites |-> iv, plan |-> pl, override |-> ov, suspended |-> s,
              granted |-> gr, swallowed |-> sw]
  BY DEF DbType
<1>2. PICK a : a = [db EXCEPT !.members = mm]
  OBVIOUS
<1>3. PICK b : b = [a EXCEPT !.granted = g]
  OBVIOUS
<1>4. a = [members |-> mm, invites |-> iv, plan |-> pl, override |-> ov, suspended |-> s,
           granted |-> gr, swallowed |-> sw]
  BY <1>1, <1>2
<1>5. b = [members |-> mm, invites |-> iv, plan |-> pl, override |-> ov, suspended |-> s,
           granted |-> g, swallowed |-> sw]
  BY <1>3, <1>4
<1>6. [b EXCEPT !.suspended = su] =
        [members |-> mm, invites |-> iv, plan |-> pl, override |-> ov, suspended |-> su,
         granted |-> g, swallowed |-> sw]
  BY <1>5
<1>7. [db EXCEPT !.members = mm, !.granted = g] = b
  BY <1>2, <1>3, Zenon
<1>8. [db EXCEPT !.members = mm, !.granted = g, !.suspended = su] = [b EXCEPT !.suspended = su]
  BY <1>2, <1>3, Zenon
<1>9. /\ WrittenDb(mm, db.suspended, db.granted) = a
      /\ WrittenDb(mm, db.suspended, g) = b
      /\ WrittenDb(mm, su, g) = [b EXCEPT !.suspended = su]
  BY <1>1, <1>4, <1>5, <1>6 DEF WrittenDb
<1> QED
  BY <1>2, <1>7, <1>8, <1>9

\* A write of a member's document that leaves the status as it is.
LEMMA SameStatus ==
  ASSUME IInv, NEW w \in Members(db), NEW u \in UserType, u.who = w, w = Owner => u.verified,
         u.status = "blocked" <=> Member(db, w).status = "blocked",
         u.status = "blocked" => u.source = Member(db, w).source,
         Write(w, u), UNCHANGED <<held, edit>>, edits' \in 0 .. MaxEdits
  PROVE  IInv' /\ Stays
<1>1. Sound(db) /\ db \in DbType /\ edit' \in Edits
  BY DEF IInv, Sound, Edits
<1>2. PICK mm : mm = [i \in Seats(db) |-> IF db.members[i].who = w THEN u ELSE db.members[i]]
  OBVIOUS
<1>3. db' = [db EXCEPT !.members = mm]
  BY <1>2, Zenon DEF Write
<1>4. PICK su \in BOOLEAN, gr \in SUBSET People : su = db.suspended /\ gr = db.granted
  BY <1>1, DbFields
<1>5. db' = WrittenDb(mm, su, gr)
  BY <1>1, <1>3, <1>4, WrittenIs
<1>6. w \in gr => u.status # "blocked"
  <2>1. w \in gr => w \in Using(db) /\ w # Owner
    BY <1>1, <1>4, PeopleAssumption DEF Sound
  <2> QED
    BY <1>1, <2>1, UsingMember
<1>7. /\ gr \subseteq db.granted \cup {w} /\ db.granted \ {w} \subseteq gr
      /\ u.status # "blocked" /\ w # Owner /\ Member(db, w).status = "blocked" => w \in gr
      /\ w \in db.granted /\ u.status # "blocked" => w \in gr
      /\ UNCHANGED held
  BY <1>4
<1>8. /\ IInv' /\ Members(db') = Members(db) /\ Member(db', w) = u
      /\ \A x : x # w /\ Suspended(db, x) => Suspended(db', x)
  BY <1>1, <1>2, <1>5, <1>6, <1>7, WrittenKeeps
<1>9. Suspended(db, w) => Suspended(db', w)
  BY <1>8 DEF Suspended
<1> QED
  BY <1>8, <1>9 DEF Stays

\* The owner is verified from the beginning, so no code brings the owner back.
LEMMA OwnerVerified ==
  ASSUME NEW d, Sound(d), Owner \in Members(d)
  PROVE  Member(d, Owner).verified
<1>1. PICK i \in Seats(d) : d.members[i].who = Owner
  BY DEF Members
<1>2. Member(d, Owner) = d.members[i]
  BY <1>1, MemberIs DEF Sound
<1> QED
  BY <1>1, <1>2 DEF Sound

\* updateMemberAccess changes the role alone.
LEMMA UpdateMemberAccessKeeps ==
  ASSUME IInv, UpdateMemberAccess
  PROVE  IInv' /\ Stays
<1>1. PICK w \in Members(db) \ {Owner}, r \in {"agency_admin", "agent"} :
        Write(w, [Member(db, w) EXCEPT !.role = r])
  BY DEF UpdateMemberAccess
<1>2. PICK m : m = Member(db, w)
  OBVIOUS
<1>3. m \in UserType /\ m.who = w
  BY <1>2, MemberOf DEF IInv
<1>4. PICK u : u = [m EXCEPT !.role = r]
  OBVIOUS
<1>5. u \in UserType /\ u.who = w /\ u.status = m.status /\ u.source = m.source
  BY <1>3, <1>4 DEF UserType, Roles
<1>6. Write(w, u)
  BY <1>1, <1>2, <1>4
<1>7. edits' \in 0 .. MaxEdits /\ UNCHANGED <<held, edit>>
  BY EditedIs DEF UpdateMemberAccess
<1> QED
  BY <1>1, <1>2, <1>5, <1>6, <1>7, SameStatus

\* verifyUserSuperAdmin turns a pending member, who has a seat, into an active one.
LEMMA VerifyUserSuperAdminKeeps ==
  ASSUME IInv, VerifyUserSuperAdmin
  PROVE  IInv' /\ Stays
<1>1. PICK w \in Members(db) :
        /\ Member(db, w).status = "pending" /\ ~Member(db, w).verified
        /\ Write(w, [Member(db, w) EXCEPT !.status = "active", !.verified = TRUE])
  BY DEF VerifyUserSuperAdmin
<1>2. PICK m : m = Member(db, w)
  OBVIOUS
<1>3. m \in UserType /\ m.who = w
  BY <1>2, MemberOf DEF IInv
<1>4. w # Owner
  BY <1>1, OwnerVerified DEF IInv
<1>5. PICK a, u : a = [m EXCEPT !.status = "active"] /\ u = [a EXCEPT !.verified = TRUE]
  OBVIOUS
<1>6. a \in UserType /\ a.who = w /\ a.status = "active"
  BY <1>3, <1>5 DEF UserType, Statuses
<1>7. u \in UserType /\ u.who = w /\ u.status = "active"
  BY <1>5, <1>6 DEF UserType
<1>8. Write(w, u)
  <2>1. u = [Member(db, w) EXCEPT !.status = "active", !.verified = TRUE]
    BY <1>2, <1>5, Zenon
  <2> QED
    BY <1>1, <2>1
<1>9. edits' \in 0 .. MaxEdits /\ UNCHANGED <<held, edit>>
  BY EditedIs DEF VerifyUserSuperAdmin
<1>10. u.status # "blocked" /\ Member(db, w).status # "blocked"
  BY <1>1, <1>7
<1> QED
  BY <1>4, <1>7, <1>8, <1>9, <1>10, SameStatus

\* The document an administrator saves is the same member's.
LEMMA SavedIs ==
  ASSUME edit \in [read : UserType, status : Statuses], NEW u \in UserType
  PROVE  Saved(u) \in UserType /\ Saved(u).who = u.who /\ Saved(u).verified = u.verified
<1>1. PICK r \in UserType, es \in Statuses : edit.read = r /\ edit.status = es
  OBVIOUS
<1>2. PICK st : st = IF es = r.status THEN u.status ELSE es
  OBVIOUS
<1>3. st \in Statuses
  BY <1>2 DEF UserType
<1>4. PICK a : a = [u EXCEPT !.status = st]
  OBVIOUS
<1>5. a \in UserType /\ a.who = u.who /\ a.verified = u.verified
  BY <1>3, <1>4 DEF UserType
<1>6. ASSUME NEW source \in Sources, NEW was \in {"pending", "active"},
             NEW b, b = [a EXCEPT !.source = source], NEW c, c = [b EXCEPT !.was = was]
      PROVE  c \in UserType /\ c.who = u.who /\ c.verified = u.verified
  <2>1. b \in UserType /\ b.who = u.who /\ b.verified = u.verified
    BY <1>5, <1>6 DEF UserType
  <2> QED
    BY <2>1, <1>6 DEF UserType
<1>7. PICK was \in {"pending", "active"} :
        was = IF "pending" \in {r.status, r.was} THEN "pending" ELSE "active"
  OBVIOUS
<1>8. "platform_admin" \in Sources /\ "none" \in Sources
  BY DEF Sources
<1>9. PICK b1, b2 : b1 = [a EXCEPT !.source = "platform_admin"] /\ b2 = [a EXCEPT !.source = "none"]
  OBVIOUS
<1>10. PICK c1, c2 : c1 = [b1 EXCEPT !.was = was] /\ c2 = [b2 EXCEPT !.was = "active"]
  OBVIOUS
<1>11. c1 \in UserType /\ c1.who = u.who /\ c1.verified = u.verified
  BY <1>6, <1>8, <1>9, <1>10
<1>12. c2 \in UserType /\ c2.who = u.who /\ c2.verified = u.verified
  BY <1>6, <1>8, <1>9, <1>10
<1>13. /\ c1 = [u EXCEPT !.status = st, !.source = "platform_admin", !.was = was]
       /\ c2 = [u EXCEPT !.status = st, !.source = "none", !.was = "active"]
  BY <1>4, <1>9, <1>10, Zenon
<1>14. Saved(u) = IF es = "blocked" THEN c1
                  ELSE IF es = "active" /\ r.status = "blocked" THEN c2 ELSE a
  BY <1>1, <1>2, <1>4, <1>7, <1>13, Zenon DEF Saved
<1> QED
  BY <1>5, <1>11, <1>12, <1>14

\* An administrator's save gives a seat only as one granted outside the quota.
LEMMA SaveUserKeeps ==
  ASSUME IInv, SaveUser
  PROVE  IInv'
<1>1. /\ Sound(db) /\ db \in DbType /\ edit \in [read : UserType, status : Statuses]
      /\ edit' = None /\ UNCHANGED <<held, edits>> /\ edit' \in Edits /\ edits' \in 0 .. MaxEdits
  BY DEF IInv, SaveUser, Sound, Edits
<1>2. PICK w, u : w = edit.read.who /\ u = Saved(Member(db, w))
  OBVIOUS
<1>3. CASE w \notin Members(db)
  <2>1. UNCHANGED db
    BY <1>2, <1>3, Zenon DEF SaveUser
  <2>2. UNCHANGED Fits(db) /\ UNCHANGED Sound(db)
    BY <2>1 DEF Fits, Sound, Due, Limit, Committed, Used, Reserved, Seats, Using
  <2> QED
    BY <1>1, <2>1, <2>2, SinceItself, OutsideStep DEF IInv
<1>4. CASE w \in Members(db)
  <2>1. PICK m : m = Member(db, w)
    OBVIOUS
  <2>2. m \in UserType /\ m.who = w
    BY <1>1, <1>4, <2>1, MemberOf
  <2>3. u \in UserType /\ u.who = w /\ u.verified = m.verified
    BY <1>1, <1>2, <2>1, <2>2, SavedIs
  <2>4. PICK mm : mm = [i \in Seats(db) |-> IF db.members[i].who = w THEN u ELSE db.members[i]]
    OBVIOUS
  <2>5. PICK taken \in BOOLEAN :
          taken = (w # Owner /\ Member(db, w).status = "blocked" /\ u.status # "blocked")
    OBVIOUS
  <2>6. PICK gr : gr = IF taken THEN db.granted \cup {w}
                       ELSE IF u.status = "blocked" THEN db.granted \ {w} ELSE db.granted
    OBVIOUS
  <2>7. PICK su : su = IF w # Owner THEN db.suspended
                       ELSE IF edit.status = "blocked" THEN TRUE
                       ELSE IF edit.status = "active" THEN FALSE ELSE db.suspended
    OBVIOUS
  <2>8. db' = [db EXCEPT !.members = mm, !.granted = gr, !.suspended = su]
    BY <1>2, <1>4, <2>1, <2>4, <2>5, <2>6, <2>7, Zenon DEF SaveUser
  <2>9. db' = WrittenDb(mm, su, gr)
    BY <1>1, <2>8, WrittenIs
  <2>10. w \in People \/ w = Owner
    BY <2>2 DEF UserType
  <2>11. gr \in SUBSET People /\ su \in BOOLEAN
    BY <1>1, <2>5, <2>6, <2>7, <2>10, DbFields
  <2>12. w = Owner => u.verified
    BY <1>1, <1>4, <2>1, <2>3, OwnerVerified
  <2>13. /\ gr \subseteq db.granted \cup {w} /\ db.granted \ {w} \subseteq gr
         /\ u.status # "blocked" /\ w # Owner /\ Member(db, w).status = "blocked" => w \in gr
         /\ w \in gr => u.status # "blocked"
         /\ w \in db.granted /\ u.status # "blocked" => w \in gr
    BY <2>5, <2>6
  <2> QED
    BY <1>1, <1>4, <2>3, <2>4, <2>9, <2>11, <2>12, <2>13, WrittenKeeps
<1> QED
  BY <1>3, <1>4

\* A code gives a blocked member a seat only as one granted outside the quota.
LEMMA VerifyOtpKeeps ==
  ASSUME IInv, VerifyOtp
  PROVE  IInv'
<1>1. PICK w \in Members(db) :
        /\ ~Member(db, w).verified
        /\ db' = [db EXCEPT
             !.members = [i \in Seats(db) |-> IF db.members[i].who = w
                            THEN [Member(db, w) EXCEPT !.status = "active", !.verified = TRUE]
                            ELSE db.members[i]],
             !.granted = IF Member(db, w).status = "blocked" THEN @ \cup {w} ELSE @]
  BY DEF VerifyOtp
<1>2. /\ Sound(db) /\ db \in DbType /\ UNCHANGED <<held, edit>> /\ edit' \in Edits
      /\ edits' \in 0 .. MaxEdits
  BY EditedIs DEF IInv, VerifyOtp, Sound, Edits
<1>3. PICK m : m = Member(db, w)
  OBVIOUS
<1>4. m \in UserType /\ m.who = w /\ w # Owner
  BY <1>1, <1>2, <1>3, MemberOf, OwnerVerified
<1>5. PICK a, u : a = [m EXCEPT !.status = "active"] /\ u = [a EXCEPT !.verified = TRUE]
  OBVIOUS
<1>6. a \in UserType /\ a.who = w /\ a.status = "active"
  BY <1>4, <1>5 DEF UserType, Statuses
<1>7. u \in UserType /\ u.who = w /\ u.status = "active"
  BY <1>5, <1>6 DEF UserType
<1>8. PICK mm : mm = [i \in Seats(db) |-> IF db.members[i].who = w THEN u ELSE db.members[i]]
  OBVIOUS
<1>9. PICK gr : gr = IF Member(db, w).status = "blocked" THEN db.granted \cup {w} ELSE db.granted
  OBVIOUS
<1>10. db' = [db EXCEPT !.members = mm, !.granted = gr]
  BY <1>1, <1>3, <1>5, <1>8, <1>9, Zenon
<1>11. PICK su \in BOOLEAN : su = db.suspended
  BY <1>2, DbFields
<1>12. db' = WrittenDb(mm, su, gr)
  BY <1>2, <1>10, <1>11, WrittenIs
<1>13. gr \in SUBSET People
  BY <1>2, <1>4, <1>9, DbFields DEF UserType
<1>14. /\ gr \subseteq db.granted \cup {w} /\ db.granted \ {w} \subseteq gr
       /\ u.status # "blocked" /\ w # Owner /\ Member(db, w).status = "blocked" => w \in gr
       /\ w \in gr => u.status # "blocked"
       /\ w \in db.granted /\ u.status # "blocked" => w \in gr
  BY <1>7, <1>9
<1> QED
  BY <1>2, <1>4, <1>7, <1>8, <1>12, <1>13, <1>14, WrittenKeeps

\* Invitations end or lapse.
LEMMA FewerInvites ==
  ASSUME IInv, NEW vv \in Seq(InviteType), Distinct(vv),
         db' = [db EXCEPT !.invites = vv], Invited(db') \subseteq Invited(db),
         Holding(db') \subseteq Holding(db),
         UNCHANGED <<held, edit>>, edits' \in 0 .. MaxEdits
  PROVE  IInv' /\ Stays
<1>1. Sound(db) /\ Fits(db) /\ edit' \in Edits
  BY DEF IInv, Edits
<1>2. /\ db' \in DbType /\ db'.invites = vv /\ db'.members = db.members /\ db'.plan = db.plan
      /\ db'.override = db.override /\ db'.granted = db.granted /\ db'.swallowed = db.swallowed
  BY <1>1 DEF Sound, DbType
<1>3. /\ Using(db') = Using(db) /\ Members(db') = Members(db) /\ Due(db') = Due(db)
      /\ Limit(db') = Limit(db) /\ \A w : Member(db', w) = Member(db, w)
  BY <1>2 DEF Using, Used, Members, Seats, Due, Limit, Member
<1>4. Sound(db')
  BY <1>1, <1>2, <1>3 DEF Sound, Seats
<1>5. Since(db, db')
  BY <1>2, <1>3 DEF Since, Fades
<1>6. Fits(db')
  BY <1>1, <1>2, <1>3, <1>4, FitsIs, FitsIf
<1>7. IInv'
  BY <1>1, <1>4, <1>5, <1>6, OutsideStep
<1>8. Stays
  BY <1>3 DEF Stays, Suspended
<1> QED
  BY <1>7, <1>8

\* revokePending ends one invitation.
LEMMA RevokePendingKeeps ==
  ASSUME IInv, RevokePending
  PROVE  IInv' /\ Stays
<1>1. PICK w \in Invited(db) : db' = [db EXCEPT !.invites = Without(@, {w})]
  BY DEF RevokePending
<1>2. PICK vv : vv = Without(db.invites, {w})
  OBVIOUS
<1>3. db.invites \in Seq(InviteType) /\ Distinct(db.invites) /\ db \in DbType
  BY DbFields DEF IInv, Sound
<1>4. vv \in Seq(InviteType) /\ Distinct(vv) /\ Left(db.invites, {w}, vv)
  BY <1>2, <1>3, WithoutKeeps
<1>5. db' = [db EXCEPT !.invites = vv]
  BY <1>1, <1>2, Zenon
<1>6. db'.invites = vv
  BY <1>3, <1>5 DEF DbType
<1>7. Invited(db') \subseteq Invited(db) /\ Holding(db') \subseteq Holding(db)
  <2>1. ASSUME NEW k \in DOMAIN vv PROVE \E i \in DOMAIN db.invites : vv[k] = db.invites[i]
    BY <1>4 DEF Left
  <2> QED
    BY <1>6, <2>1, HoldingIs DEF Invited
<1>8. edits' \in 0 .. MaxEdits /\ UNCHANGED <<held, edit>>
  BY EditedIs DEF RevokePending
<1> QED
  BY <1>4, <1>5, <1>7, <1>8, FewerInvites

\* An invitation that lapses reserves nothing any more.
LEMMA InvitationLapsesKeeps ==
  ASSUME IInv, InvitationLapses
  PROVE  IInv' /\ Stays
<1>1. PICK i \in Reserved(db) : db' = [db EXCEPT !.invites[i].late = TRUE]
  BY DEF InvitationLapses
<1>2. PICK v : v = db.invites
  OBVIOUS
<1>3. v \in Seq(InviteType) /\ Distinct(v) /\ db \in DbType /\ i \in DOMAIN v
  BY <1>2, DbFields DEF IInv, Sound, Reserved
<1>4. PICK u : u = [v[i] EXCEPT !.late = TRUE]
  OBVIOUS
<1>5. v[i] \in InviteType
  BY <1>3, ElementOfSeq, LenProperties
<1>6. u \in InviteType /\ u.who = v[i].who /\ u.late
  BY <1>4, <1>5 DEF InviteType
<1>7. PICK vv : vv = [v EXCEPT ![i] = u]
  OBVIOUS
<1>8. /\ vv \in Seq(InviteType) /\ DOMAIN vv = DOMAIN v /\ vv[i] = u
      /\ \A j \in DOMAIN v : j # i => vv[j] = v[j]
  <2>1. Len(v) \in Nat /\ DOMAIN v = 1 .. Len(v) /\ v \in [1 .. Len(v) -> InviteType]
    BY <1>3, LenProperties
  <2>2. vv \in [1 .. Len(v) -> InviteType]
    BY <1>6, <1>7, <2>1
  <2> QED
    BY <1>3, <1>7, <2>1, <2>2, SeqDef
<1>9. Distinct(vv)
  BY <1>3, <1>6, <1>8 DEF Distinct
<1>10. db' = [db EXCEPT !.invites = vv]
  BY <1>1, <1>2, <1>4, <1>7, Zenon
<1>11. db'.invites = vv
  BY <1>3, <1>10 DEF DbType
<1>12. Invited(db') \subseteq Invited(db) /\ Holding(db') \subseteq Holding(db)
  <2>1. Invited(db') \subseteq Invited(db)
    BY <1>2, <1>6, <1>8, <1>11 DEF Invited
  <2>2. Holding(db') \subseteq Holding(db)
    BY <1>2, <1>6, <1>8, <1>11, HoldingIs
  <2> QED
    BY <2>1, <2>2
<1>13. edits' \in 0 .. MaxEdits /\ UNCHANGED <<held, edit>>
  BY DEF IInv, InvitationLapses
<1> QED
  BY <1>8, <1>9, <1>10, <1>12, <1>13, FewerInvites

\* The override lapses, or is retired when it has.
LEMMA OverrideFades ==
  ASSUME IInv, db' \in DbType, db'.members = db.members, db'.invites = db.invites,
         db'.plan = db.plan, db'.granted = db.granted, Fades(db, db'),
         Due(db') \/ db'.swallowed, db'.override # None => ~db'.swallowed,
         UNCHANGED <<held, edit>>, edits' \in 0 .. MaxEdits
  PROVE  IInv' /\ Stays
<1>1. Sound(db) /\ Fits(db) /\ edit' \in Edits
  BY DEF IInv, Edits
<1>2. /\ Using(db') = Using(db) /\ Members(db') = Members(db)
      /\ Invited(db') = Invited(db) /\ Holding(db') = Holding(db)
      /\ \A w : Member(db', w) = Member(db, w)
  BY DEF Using, Used, Members, Seats, Member, Invited, Holding, Reserved
<1>3. Sound(db')
  BY <1>1, <1>2 DEF Sound, Seats
<1>4. Since(db, db')
  BY <1>2 DEF Since
<1>5. Fits(db')
  BY DEF Fits
<1>6. IInv'
  BY <1>1, <1>3, <1>4, <1>5, OutsideStep
<1>7. Stays
  BY <1>2 DEF Stays, Suspended
<1> QED
  BY <1>6, <1>7

\* getHistory retires what has lapsed.
LEMMA GetHistoryKeeps ==
  ASSUME IInv, GetHistory
  PROVE  IInv' /\ Stays
<1>1. Due(db) /\ db' = [db EXCEPT !.override = None, !.swallowed = TRUE] /\ UNCHANGED <<held, edit>>
  BY DEF GetHistory
<1>2. PICK me, iv, pl, ov, su, gr, sw :
        /\ db = [members |-> me, invites |-> iv, plan |-> pl, override |-> ov, suspended |-> su,
                 granted |-> gr, swallowed |-> sw]
        /\ me \in Seq(UserType) /\ iv \in Seq(InviteType)
        /\ pl \in Limits /\ ov \in [grant : Grants, late : BOOLEAN] \cup {None} /\ su \in BOOLEAN
        /\ gr \in SUBSET People /\ sw \in BOOLEAN
  BY DEF IInv, Sound, DbType
<1>3. db' = [members |-> me, invites |-> iv, plan |-> pl, override |-> None, suspended |-> su,
             granted |-> gr, swallowed |-> TRUE]
  BY <1>1, <1>2
<1>4. /\ db' \in DbType /\ db'.members = db.members /\ db'.invites = db.invites
      /\ db'.plan = db.plan /\ db'.granted = db.granted
      /\ db'.override = None /\ db'.swallowed
  BY <1>2, <1>3 DEF DbType
<1>5. Fades(db, db')
  BY <1>1, <1>4 DEF Fades, Due
<1>6. edits' \in 0 .. MaxEdits
  BY EditedIs DEF GetHistory
<1> QED
  BY <1>1, <1>4, <1>5, <1>6, OverrideFades

\* An override lapses by the passing of time.
LEMMA OverrideLapsesKeeps ==
  ASSUME IInv, OverrideLapses
  PROVE  IInv' /\ Stays
<1>1. /\ db.override # None /\ db' = [db EXCEPT !.override.late = TRUE]
      /\ UNCHANGED <<held, edit>> /\ edits' \in 0 .. MaxEdits
  BY DEF OverrideLapses, IInv
<1>2. db \in DbType /\ ~db.swallowed
  BY <1>1 DEF IInv, Sound
<1>3. PICK o : o = [db.override EXCEPT !.late = TRUE]
  OBVIOUS
<1>4. db.override \in [grant : Grants, late : BOOLEAN]
  BY <1>1, <1>2, DbFields
<1>5. o \in [grant : Grants, late : BOOLEAN] /\ o.late
  BY <1>3, <1>4
<1>6. o # None
  BY <1>5, NoneAssumption
<1>7. db' = [db EXCEPT !.override = o]
  BY <1>1, <1>3, Zenon
<1>8. /\ db' \in DbType /\ db'.members = db.members /\ db'.invites = db.invites
      /\ db'.plan = db.plan /\ db'.granted = db.granted
      /\ db'.override = o /\ db'.swallowed = db.swallowed
  BY <1>2, <1>5, <1>7 DEF DbType
<1>9. Fades(db, db') /\ Due(db')
  BY <1>1, <1>5, <1>6, <1>8 DEF Fades, Due
<1> QED
  BY <1>1, <1>2, <1>8, <1>9, OverrideFades

\* A user who is deleted leaves the seat and what was granted.
LEMMA DeleteUserByIdKeeps ==
  ASSUME IInv, DeleteUserById
  PROVE  IInv' /\ Stays
<1>1. PICK w \in Members(db) \ {Owner} :
        db' = [db EXCEPT !.members = Without(@, {w}), !.granted = @ \ {w}]
  BY DEF DeleteUserById
<1>2. PICK mm, gr : mm = Without(db.members, {w}) /\ gr = db.granted \ {w}
  OBVIOUS
<1>3. /\ db.members \in Seq(UserType) /\ Distinct(db.members) /\ db \in DbType /\ Sound(db)
      /\ Fits(db) /\ db.granted \in SUBSET People
  BY DbFields DEF IInv, Sound
<1>4. mm \in Seq(UserType) /\ Distinct(mm) /\ Left(db.members, {w}, mm)
  BY <1>2, <1>3, WithoutKeeps
<1>5. db' = [db EXCEPT !.members = mm, !.granted = gr]
  BY <1>1, <1>2, Zenon
<1>6. db' = WrittenDb(mm, db.suspended, gr)
  BY <1>3, <1>5, WrittenIs
<1>7. /\ db' \in DbType /\ db'.members = mm /\ db'.invites = db.invites /\ db'.plan = db.plan
      /\ db'.override = db.override /\ db'.granted = gr /\ db'.swallowed = db.swallowed
  BY <1>2, <1>3, <1>4, <1>6, DbFields DEF WrittenDb, DbType
<1>8. \A k \in DOMAIN mm : \E i \in DOMAIN db.members : mm[k] = db.members[i] /\ mm[k].who # w
  BY <1>4 DEF Left
<1>9. \A i \in DOMAIN db.members :
        db.members[i].who # w => \E k \in DOMAIN mm : mm[k] = db.members[i]
  BY <1>4 DEF Left
<1>10. Members(db') \subseteq Members(db)
  BY <1>7, <1>8 DEF Members, Seats
<1>11. Using(db') = Using(db) \ {w}
  <2>1. ASSUME NEW x \in Using(db') PROVE x \in Using(db) \ {w}
    <3>1. PICK k \in DOMAIN mm : mm[k].who = x /\ (mm[k].status # "blocked" \/ x = Owner)
      BY <1>7, UsingIs
    <3> QED
      BY <3>1, <1>8, UsingIs
  <2>2. ASSUME NEW x \in Using(db) \ {w} PROVE x \in Using(db')
    <3>1. PICK i \in DOMAIN db.members :
            db.members[i].who = x /\ (db.members[i].status # "blocked" \/ x = Owner)
      BY UsingIs
    <3>2. PICK k \in DOMAIN mm : mm[k] = db.members[i]
      BY <3>1, <1>9
    <3> QED
      BY <3>1, <3>2, <1>7, UsingIs
  <2> QED
    BY <2>1, <2>2
<1>12. Invited(db') = Invited(db) /\ Holding(db') = Holding(db)
  BY <1>7 DEF Invited, Holding, Reserved
<1>13. Sound(db')
  <2>1. gr \subseteq Using(db')
    BY <1>2, <1>3, <1>11 DEF Sound
  <2>2. ASSUME NEW k \in Seats(db'), db'.members[k].who = Owner PROVE db'.members[k].verified
    BY <2>2, <1>3, <1>7, <1>8 DEF Sound, Seats
  <2>3. Distinct(db'.members) /\ Distinct(db'.invites)
    BY <1>3, <1>4, <1>7 DEF Sound
  <2>4. db'.override # None => ~db'.swallowed
    BY <1>3, <1>7 DEF Sound
  <2> QED
    BY <1>7, <2>1, <2>2, <2>3, <2>4 DEF Sound
<1>14. Since(db, db')
  BY <1>2, <1>7, <1>10, <1>11, <1>12 DEF Since, Fades
<1>15. Fits(db')
  <2>1. Using(db') \ db'.granted \subseteq Using(db) \ db.granted
    BY <1>2, <1>7, <1>11
  <2>2. Due(db') = Due(db) /\ Limit(db') = Limit(db)
    BY <1>7 DEF Due, Limit
  <2> QED
    BY <1>3, <1>7, <1>12, <1>13, <2>1, <2>2, FitsIs, FitsIf
<1>16. IInv'
  <2>1. edits' \in 0 .. MaxEdits /\ UNCHANGED held /\ edit' \in Edits
    BY EditedIs DEF DeleteUserById, IInv, Edits
  <2> QED
    BY <1>13, <1>14, <1>15, <2>1, OutsideStep
<1>17. ASSUME NEW x \in People, Suspended(db, x) PROVE Suspended(db', x) \/ x \notin Members(db')
  <2>1. SUFFICES ASSUME x \in Members(db') PROVE Suspended(db', x)
    OBVIOUS
  <2>2. PICK k \in Seats(db') : db'.members[k].who = x
    BY <2>1 DEF Members
  <2>3. Member(db', x) = db'.members[k]
    BY <2>2, <1>13, MemberIs DEF Sound
  <2>4. PICK i \in DOMAIN db.members : mm[k] = db.members[i]
    BY <2>2, <1>7, <1>8 DEF Seats
  <2>5. Member(db, x) = db.members[i]
    BY <2>2, <2>4, <1>3, <1>7, MemberIs DEF Seats
  <2> QED
    BY <2>1, <2>3, <2>4, <2>5, <1>7, <1>17 DEF Suspended
<1> QED
  BY <1>16, <1>17 DEF Stays

-----------------------------------------------------------------------------
(* Every step. *)

\* Nothing is lost while nothing is stored.
LEMMA SameDb ==
  ASSUME UNCHANGED db
  PROVE  (Sound(db) => Sound(db')) /\ (Fits(db) => Fits(db')) /\ Stays
BY DEF Sound, Fits, Stays, Due, Limit, Committed, Used, Reserved, Seats, Using, Suspended, Members,
       Member

\* A transaction begins, or is given up.
LEMMA BeginAbortKeeps ==
  ASSUME IInv, Begin \/ Abort
  PROVE  IInv' /\ Stays
<1>1. UNCHANGED <<db, edit, edits>> /\ (held' = db \/ held' = None)
  BY DEF Begin, Abort
<1>2. Sound(db) /\ Since(db, db) /\ Sound(db') /\ Fits(db') /\ Stays
  BY <1>1, SameDb, SinceItself DEF IInv
<1> QED
  BY <1>1, <1>2 DEF IInv

\* An administrator reads a user.
LEMMA ReadUserKeeps ==
  ASSUME IInv, ReadUser
  PROVE  IInv' /\ Stays
<1>1. PICK w \in Members(db), st \in Statuses :
        edit' = [read |-> Member(db, w), status |-> st] /\ UNCHANGED <<db, held>> /\ Edited
  BY DEF ReadUser
<1>2. edit' \in Edits
  BY <1>1, MemberOf DEF IInv, Edits
<1>3. Sound(db') /\ Fits(db') /\ Since(db, db') /\ Stays
  BY <1>1, SameDb, SinceItself DEF IInv
<1> QED
  BY <1>1, <1>2, <1>3, EditedIs, OutsideStep

\* Nothing but an administrator's save and a verification ends a suspension.
LEMMA Step ==
  ASSUME IInv, Next
  PROVE  IInv' /\ (Stays \/ SaveUser \/ VerifyOtp)
<1>1. CASE Begin \/ Abort
  BY <1>1, BeginAbortKeeps
<1>2. ASSUME NEW s \in Snapshots, TenantStep(s) \/ LimitStep(s) PROVE IInv' /\ Stays
  BY <1>2, TenantStepKeeps, LimitStepKeeps
<1>3. CASE PlatformStep
  BY <1>3, VerifyUserSuperAdminKeeps, ReadUserKeeps, SaveUserKeeps DEF PlatformStep
<1>4. CASE UserStep
  BY <1>4, RevokePendingKeeps, DeleteUserByIdKeeps, UpdateMemberAccessKeeps, VerifyOtpKeeps,
     GetHistoryKeeps, InvitationLapsesKeeps, OverrideLapsesKeeps DEF UserStep
<1> QED
  BY <1>1, <1>2, <1>3, <1>4 DEF Next

\* A step that changes nothing.
LEMMA Stuttering ==
  ASSUME IInv, UNCHANGED vars
  PROVE  IInv' /\ Stays
<1>1. UNCHANGED <<db, held, edit, edits>>
  BY DEF vars
<1>2. Sound(db') /\ Fits(db') /\ Since(db, db') /\ Stays
  BY <1>1, SameDb, SinceItself DEF IInv
<1> QED
  BY <1>1, <1>2, OutsideStep DEF IInv, Edits

\* A tenant starts with its owner.
LEMMA Start ==
  ASSUME Init
  PROVE  IInv
<1>1. PICK b \in Limits :
        db = [members |-> <<User(Owner, "agency_owner", "active", TRUE)>>, invites |-> <<>>,
              plan |-> b, override |-> None, suspended |-> FALSE,
              granted |-> {}, swallowed |-> FALSE]
  BY DEF Init
<1>2. PICK u : u = User(Owner, "agency_owner", "active", TRUE)
  OBVIOUS
<1>3. u \in UserType /\ u.who = Owner /\ u.verified
  BY <1>2 DEF User, UserType, Roles, Statuses, Sources
<1>4. PICK mm, vv : mm = <<u>> /\ vv = <<>>
  OBVIOUS
<1>5. mm \in Seq(UserType) /\ Distinct(mm) /\ DOMAIN mm = {1} /\ mm[1] = u
  BY <1>3, <1>4, OneDocument
<1>6. vv \in Seq(InviteType) /\ Distinct(vv) /\ DOMAIN vv = {}
  BY <1>4, NoDocuments
<1>7. db = [members |-> mm, invites |-> vv, plan |-> b, override |-> None, suspended |-> FALSE,
            granted |-> {}, swallowed |-> FALSE]
  BY <1>1, <1>2, <1>4, Zenon
<1>8. /\ db \in DbType /\ db.members = mm /\ db.invites = vv /\ db.override = None
      /\ db.granted = {} /\ db.swallowed = FALSE
  BY <1>5, <1>6, <1>7 DEF DbType
<1>9. Sound(db)
  BY <1>3, <1>5, <1>6, <1>8 DEF Sound, Seats
<1>10. Using(db) \subseteq {Owner} /\ Holding(db) = {}
  BY <1>3, <1>5, <1>6, <1>8 DEF Using, Used, Seats, Holding, Reserved
<1>11. IsFiniteSet({Owner}) /\ Cardinality({Owner}) = 1 /\ IsFiniteSet({}) /\ Cardinality({}) = 0
  BY FS_Singleton, FS_EmptySet
<1>12. Fits(db)
  <2>1. Cardinality({Owner}) + Cardinality({}) <= Larger(1, Limit(db))
    BY <1>8, <1>11, LimitIsNat
  <2>2. Using(db) \ db.granted \subseteq {Owner} /\ Holding(db) \subseteq {}
    BY <1>10
  <2> QED
    BY <1>9, <1>11, <2>1, <2>2, FitsIf
<1> QED
  BY <1>9, <1>12, LimitsAssumption DEF IInv, Init

\* A document for each address, and the addresses are as many as the documents.
LEMMA AsManyAddresses ==
  ASSUME NEW S, NEW docs \in Seq(S), Distinct(docs),
         NEW W, \A w : w \in W <=> \E i \in DOMAIN docs : docs[i].who = w
  PROVE  Cardinality(W) = Len(docs)
<1>1. Len(docs) \in Nat /\ DOMAIN docs = 1 .. Len(docs)
  BY LenProperties
<1>2. Cardinality(DOMAIN docs) = Len(docs)
  <2>1. 1 \in Int /\ Len(docs) \in Int
    BY <1>1
  <2>2. Cardinality(1 .. Len(docs)) = IF 1 > Len(docs) THEN 0 ELSE Len(docs) - 1 + 1
    BY <2>1, FS_Interval
  <2> QED
    BY <1>1, <2>2
<1>3. PICK I : I = DOMAIN docs
  OBVIOUS
<1>4. Cardinality(W) = Cardinality(I)
  BY <1>3, ByAddress
<1> QED
  BY <1>2, <1>3, <1>4

\* The invariant has the types, and an address for each document.
LEMMA Types ==
  ASSUME IInv
  PROVE  TypeOK
<1>1. Sound(db) /\ db \in DbType
  BY DEF IInv, Sound
<1>2. Cardinality(Members(db)) = Len(db.members)
  <2>1. db.members \in Seq(UserType) /\ Distinct(db.members)
    BY <1>1, DbFields DEF Sound
  <2>2. \A w : w \in Members(db) <=> \E i \in DOMAIN db.members : db.members[i].who = w
    BY DEF Members, Seats
  <2> QED
    BY <2>1, <2>2, AsManyAddresses
<1>3. Cardinality(Invited(db)) = Len(db.invites)
  <2>1. db.invites \in Seq(InviteType) /\ Distinct(db.invites)
    BY <1>1, DbFields DEF Sound
  <2>2. \A w : w \in Invited(db) <=> \E i \in DOMAIN db.invites : db.invites[i].who = w
    BY DEF Invited
  <2> QED
    BY <2>1, <2>2, AsManyAddresses
<1>4. held \in DbType \cup {None}
  BY DEF IInv, Sound
<1> QED
  BY <1>1, <1>2, <1>3, <1>4 DEF TypeOK, IInv

\* The invariant holds of every state.
LEMMA Always == Spec => []IInv
<1>1. Init => IInv
  BY Start
<1>2. IInv /\ [Next]_vars => IInv'
  BY Step, Stuttering
<1> QED
  BY <1>1, <1>2, PTL DEF Spec

-----------------------------------------------------------------------------
(* The theorems. *)

\* Every document has the shape of its schema, and no address has two users or
\* two pending invitations, whatever the plans, the overrides and the people.
THEOREM TypeCorrect == Spec => []TypeOK
<1>1. IInv => TypeOK
  BY Types
<1> QED
  BY <1>1, Always, PTL

\* However transactions and edits overlap, the seats in use and those reserved
\* stay within the limit, but for what was given outside the quota since the last
\* reconciliation and while an override has lapsed unreconciled.
THEOREM SeatsAlwaysWithinLimit == Spec => []SeatsWithinLimit
<1>1. IInv => SeatsWithinLimit
  BY DEF IInv, Fits, SeatsWithinLimit
<1> QED
  BY <1>1, Always, PTL

\* No manager, no change of plan and no old transaction brings back a member the
\* platform has suspended.
THEOREM SuspensionsHold == Spec => SuspensionHolds
<1>1. IInv /\ [Next]_vars =>
        [\A w \in People : Suspended(db, w) /\ ~SaveUser /\ ~VerifyOtp =>
           Suspended(db', w) \/ w \notin Members(db')]_vars
  <2>1. ASSUME IInv, Next
        PROVE  \A w \in People : Suspended(db, w) /\ ~SaveUser /\ ~VerifyOtp =>
                 Suspended(db', w) \/ w \notin Members(db')
    BY <2>1, Step DEF Stays
  <2> QED
    BY <2>1
<1> QED
  BY <1>1, Always, PTL DEF Spec, SuspensionHolds
=============================================================================
