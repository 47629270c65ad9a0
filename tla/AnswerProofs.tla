---------------------------- MODULE AnswerProofs ----------------------------
(***************************************************************************)
(* What Select and Answer promise for any fragments, excerpts, budget and  *)
(* shares, and ImpactFit for any answer and cap.  The budget is a sum over *)
(* a sequence and the fit takes one step after another, so the proofs      *)
(* begin with the induction both need, in a form that speaks of sets and   *)
(* functions only.                                                         *)
(***************************************************************************)
EXTENDS Answer, ImpactFit, FiniteSetTheorems, WellFoundedInduction, TLAPS

(***************************************************************************)
(* Induction over the natural numbers                                      *)
(***************************************************************************)

LEMMA Least ==
    ASSUME NEW T, T \subseteq Nat, T # {}
    PROVE  \E n \in T : \A m \in T : n <= m
<1> DEFINE Less == {ss \in Nat \X Nat : ss[1] < ss[2]}
<1>1. IsWellFoundedOn(Less, Nat)
  BY NatLessThanWellFounded DEF OpToRel
<1>2. \A m, n \in Nat : m < n => <<m, n>> \in Less
  BY SMT
<1> HIDE DEF Less
<1>3. PICK n \in T : \A m \in T : ~(<<m, n>> \in Less)
  BY <1>1, WFMin
<1>4. ASSUME NEW m \in T PROVE n <= m
  <2>1. m \in Nat /\ n \in Nat
    OBVIOUS
  <2>2. ~(m < n)
    BY <1>2, <1>3, <2>1
  <2> QED BY <2>1, <2>2
<1> QED BY <1>4

LEMMA UpTo ==
    ASSUME NEW N \in Nat, NEW S, 0 \in S, \A n \in 0 .. N - 1 : n \in S => n + 1 \in S
    PROVE  \A n \in 0 .. N : n \in S
<1> DEFINE T == (0 .. N) \ S
<1>1. SUFFICES ASSUME T # {} PROVE FALSE
  OBVIOUS
<1>2. T \subseteq Nat
  OBVIOUS
<1>3. \E n \in T : \A m \in T : n <= m
  <2> HIDE DEF T
  <2> QED BY <1>1, <1>2, Least
<1>4. PICK n \in T : \A m \in T : n <= m
  BY <1>3
<1>5. n # 0 /\ n \in Nat
  OBVIOUS
<1>6. n - 1 \in 0 .. N - 1
  BY <1>5
<1>7. n - 1 \in S
  BY <1>4, <1>6
<1>8. (n - 1) + 1 \in S
  BY <1>6, <1>7
<1> QED BY <1>5, <1>8

Iterates(g, N, V, a, step) ==
    /\ g \in [0 .. N -> V]
    /\ g[0] = a
    /\ \A i \in 1 .. N : g[i] = step[i][g[i - 1]]

\* A function of the numbers up to N may be defined from its value before.
LEMMA Recursion ==
    ASSUME NEW N \in Nat, NEW V, NEW a \in V, NEW step \in [1 .. N -> [V -> V]]
    PROVE  \E g : Iterates(g, N, V, a, step)
<1> DEFINE
      From(n) == {g \in [0 .. n -> V] : g[0] = a /\ \A i \in 1 .. n : g[i] = step[i][g[i - 1]]}
      S == {n \in 0 .. N : From(n) # {}}
<1>1. 0 \in S
  <2>1. [i \in 0 .. 0 |-> a] \in From(0)
    OBVIOUS
  <2> QED BY <2>1
<1>2. ASSUME NEW n \in 0 .. N - 1, n \in S PROVE n + 1 \in S
  <2>1. PICK g \in From(n) : TRUE
    BY <1>2
  <2>2. g \in [0 .. n -> V] /\ g[0] = a /\ \A i \in 1 .. n : g[i] = step[i][g[i - 1]]
    BY <2>1
  <2> DEFINE h == [i \in 0 .. n + 1 |-> IF i = n + 1 THEN step[n + 1][g[n]] ELSE g[i]]
  <2>3. n + 1 \in 1 .. N /\ n \in Nat
    OBVIOUS
  <2>4. step[n + 1][g[n]] \in V
    BY <2>2, <2>3
  <2>5. h \in [0 .. n + 1 -> V]
    BY <2>2, <2>3, <2>4
  <2>6. h[0] = a
    BY <2>2, <2>3
  <2>7. ASSUME NEW i \in 1 .. n + 1 PROVE h[i] = step[i][h[i - 1]]
    <3>1. CASE i = n + 1
      BY <3>1, <2>3
    <3>2. CASE i # n + 1
      <4>1. i \in 1 .. n /\ i - 1 \in 0 .. n /\ i - 1 # n + 1 /\ i \in 0 .. n + 1 /\ i - 1 \in 0 .. n + 1
        BY <3>2, <2>3
      <4>2. h[i] = g[i] /\ h[i - 1] = g[i - 1]
        BY <4>1, <3>2
      <4> QED BY <4>1, <4>2, <2>2
    <3> QED BY <3>1, <3>2
  <2>8. h \in From(n + 1)
    <3> HIDE DEF h
    <3> QED BY <2>5, <2>6, <2>7
  <2> QED BY <2>8, <2>3
<1>3. N \in S
  <2>1. N \in 0 .. N
    OBVIOUS
  <2> HIDE DEF S
  <2> QED BY <1>1, <1>2, <2>1, UpTo
<1> QED BY <1>3 DEF Iterates

(***************************************************************************)
(* What fragments cost                                                     *)
(***************************************************************************)

Priced(S) == \A f \in S : f.tokens \in Nat

Term(s, places, i) == IF i \in places THEN s[i].tokens ELSE 0

\* The sums of the first fragments, up to each.
Counts(g, s, places) ==
    /\ g \in [0 .. Len(s) -> Nat]
    /\ g[0] = 0
    /\ \A i \in 1 .. Len(s) : g[i] = g[i - 1] + Term(s, places, i)

LEMMA TermNat ==
    ASSUME NEW S, Priced(S), NEW s \in Seq(S), NEW places, NEW i \in 1 .. Len(s)
    PROVE  Term(s, places, i) \in Nat
BY DEF Priced, Term

LEMMA CountsExist ==
    ASSUME NEW S, Priced(S), NEW s \in Seq(S), NEW places
    PROVE  \E g : Counts(g, s, places)
<1> DEFINE
      N == Len(s)
      step == [i \in 1 .. N |-> [n \in Nat |-> n + Term(s, places, i)]]
<1>1. N \in Nat /\ 0 \in Nat
  OBVIOUS
<1>2. step \in [1 .. N -> [Nat -> Nat]]
  BY TermNat
<1>3. \E g : Iterates(g, N, Nat, 0, step)
  <2> HIDE DEF step, N
  <2> QED BY <1>1, <1>2, Recursion
<1>4. PICK g : Iterates(g, N, Nat, 0, step)
  BY <1>3
<1>5. g \in [0 .. N -> Nat] /\ g[0] = 0 /\ \A i \in 1 .. N : g[i] = step[i][g[i - 1]]
  BY <1>4 DEF Iterates
<1>6. ASSUME NEW i \in 1 .. N PROVE g[i] = g[i - 1] + Term(s, places, i)
  <2>1. g[i - 1] \in Nat
    BY <1>1, <1>5
  <2> QED BY <1>5, <2>1
<1> QED BY <1>5, <1>6 DEF Counts

LEMMA CountsUnique ==
    ASSUME NEW S, Priced(S), NEW s \in Seq(S), NEW places,
           NEW g, Counts(g, s, places), NEW h, Counts(h, s, places)
    PROVE  g = h
<1> DEFINE T == {n \in 0 .. Len(s) : g[n] = h[n]}
<1>1. 0 \in T
  BY DEF Counts
<1>2. ASSUME NEW n \in 0 .. Len(s) - 1, n \in T PROVE n + 1 \in T
  <2>1. n + 1 \in 1 .. Len(s) /\ (n + 1) - 1 = n
    OBVIOUS
  <2> QED BY <1>2, <2>1 DEF Counts
<1>3. \A n \in 0 .. Len(s) : n \in T
  <2>1. Len(s) \in Nat
    OBVIOUS
  <2> HIDE DEF T
  <2> QED BY <1>1, <1>2, <2>1, UpTo
<1> QED BY <1>3 DEF Counts

LEMMA CostIs ==
    ASSUME NEW S, Priced(S), NEW s \in Seq(S), NEW places, NEW g, Counts(g, s, places)
    PROVE  CostOf(s, places) = g[Len(s)]
<1> DEFINE
      Step(f) == [n \in 0 .. Len(s) |->
                    IF n = 0 THEN 0
                    ELSE f[n - 1] + IF n \in places THEN s[n].tokens ELSE 0]
      sum == CHOOSE f : f = Step(f)
<1>1. g = Step(g)
  BY DEF Counts, Term
<1>2. sum = Step(sum)
  <2> HIDE DEF Step
  <2> QED BY <1>1
<1>3. Counts(sum, s, places)
  <2> HIDE DEF sum
  <2>1. sum[0] = 0 /\ DOMAIN sum = 0 .. Len(s) /\ sum = [n \in 0 .. Len(s) |-> sum[n]]
    BY <1>2
  <2>2. ASSUME NEW i \in 1 .. Len(s) PROVE sum[i] = sum[i - 1] + Term(s, places, i)
    BY <1>2 DEF Term
  <2> DEFINE T == {n \in 0 .. Len(s) : sum[n] \in Nat}
  <2>3. 0 \in T
    BY <2>1
  <2>4. ASSUME NEW n \in 0 .. Len(s) - 1, n \in T PROVE n + 1 \in T
    <3>1. n + 1 \in 1 .. Len(s) /\ (n + 1) - 1 = n
      OBVIOUS
    <3>2. sum[n + 1] = sum[n] + Term(s, places, n + 1)
      BY <2>2, <3>1
    <3> QED BY <2>4, <3>1, <3>2, TermNat
  <2>5. \A n \in 0 .. Len(s) : n \in T
    <3>1. Len(s) \in Nat
      OBVIOUS
    <3> HIDE DEF T
    <3> QED BY <2>3, <2>4, <3>1, UpTo
  <2> QED BY <2>1, <2>2, <2>5 DEF Counts
<1>4. sum = g
  <2> HIDE DEF sum
  <2> QED BY <1>3, CountsUnique
<1>5. CostOf(s, places) = sum[Len(s)]
  BY DEF CostOf
<1> QED BY <1>4, <1>5

LEMMA CostNat ==
    ASSUME NEW S, Priced(S), NEW s \in Seq(S), NEW places
    PROVE  CostOf(s, places) \in Nat
<1>1. PICK g : Counts(g, s, places)
  BY CountsExist
<1> QED BY <1>1, CostIs DEF Counts

LEMMA CostEmpty == Cost(<<>>) = 0
<1>1. Counts([n \in 0 .. 0 |-> 0], <<>>, {})
  BY DEF Counts
<1>2. <<>> \in Seq({}) /\ Priced({}) /\ DOMAIN <<>> = {}
  BY DEF Priced
<1> QED BY <1>1, <1>2, CostIs DEF Cost

LEMMA CostAppend ==
    ASSUME NEW S, Priced(S), NEW s \in Seq(S), NEW f \in S
    PROVE  Cost(Append(s, f)) = Cost(s) + f.tokens
<1> DEFINE t == Append(s, f)
<1>1. PICK g : Counts(g, s, DOMAIN s)
  BY CountsExist
<1>2. /\ t \in Seq(S) /\ Len(t) = Len(s) + 1 /\ Len(s) \in Nat
      /\ t[Len(s) + 1] = f /\ \A i \in 1 .. Len(s) : t[i] = s[i]
      /\ DOMAIN s = 1 .. Len(s) /\ DOMAIN t = 1 .. Len(s) + 1
  OBVIOUS
<1> HIDE DEF t
<1>0. Len(t) = Len(s) + 1 /\ Len(s) \in Nat
  BY <1>2
<1> DEFINE h == [n \in 0 .. Len(t) |-> IF n = Len(t) THEN g[Len(s)] + f.tokens ELSE g[n]]
<1>3. g[Len(s)] \in Nat /\ f.tokens \in Nat
  BY <1>1 DEF Counts, Priced
<1>4. h \in [0 .. Len(t) -> Nat] /\ h[0] = 0
  BY <1>1, <1>2, <1>3 DEF Counts
<1>5. ASSUME NEW i \in 1 .. Len(t) PROVE h[i] = h[i - 1] + Term(t, DOMAIN t, i)
  <2>1. CASE i = Len(t)
    <3>1. Term(t, DOMAIN t, i) = f.tokens
      BY <2>1, <1>2 DEF Term
    <3>2. i - 1 = Len(s) /\ i - 1 # Len(t) /\ i - 1 \in 0 .. Len(t)
      BY <2>1, <1>0
    <3> QED BY <2>1, <3>1, <3>2
  <2>2. CASE i # Len(t)
    <3>1. i \in 1 .. Len(s) /\ i - 1 # Len(t) /\ i - 1 \in 0 .. Len(t)
      BY <2>2, <1>2
    <3>2. g[i] = g[i - 1] + Term(s, DOMAIN s, i)
      BY <1>1, <3>1 DEF Counts
    <3>3. Term(t, DOMAIN t, i) = Term(s, DOMAIN s, i)
      BY <1>2, <3>1 DEF Term
    <3> QED BY <2>2, <3>1, <3>2, <3>3
  <2> QED BY <2>1, <2>2
<1>6. Counts(h, t, DOMAIN t)
  <2> HIDE DEF h
  <2> QED BY <1>4, <1>5 DEF Counts
<1>7. Cost(t) = h[Len(t)] /\ Cost(s) = g[Len(s)]
  BY <1>1, <1>2, <1>6, CostIs DEF Cost
<1>8. h[Len(t)] = g[Len(s)] + f.tokens
  BY <1>2
<1> QED BY <1>7, <1>8 DEF t

LEMMA RangeAppend ==
    ASSUME NEW S, NEW s \in Seq(S), NEW f
    PROVE  Range(Append(s, f)) = Range(s) \union {f}
<1> DEFINE t == Append(s, f)
<1>1. /\ DOMAIN s = 1 .. Len(s) /\ DOMAIN t = 1 .. Len(s) + 1 /\ Len(s) \in Nat
      /\ t[Len(s) + 1] = f /\ \A i \in 1 .. Len(s) : t[i] = s[i]
  OBVIOUS
<1> HIDE DEF t
<1>2. \A i \in DOMAIN t : t[i] \in Range(s) \union {f}
  BY <1>1 DEF Range
<1>3. \A i \in DOMAIN s : s[i] = t[i] /\ i \in DOMAIN t
  BY <1>1
<1>4. f = t[Len(s) + 1] /\ Len(s) + 1 \in DOMAIN t
  BY <1>1
<1>5. Range(t) = Range(s) \union {f}
  BY <1>2, <1>3, <1>4 DEF Range
<1> QED BY <1>5 DEF t

\* t is s with f put in at place i.
IsWith(t, s, i, f) ==
    /\ Len(t) = Len(s) + 1
    /\ \A j \in 1 .. i - 1 : t[j] = s[j]
    /\ t[i] = f
    /\ \A j \in i + 1 .. Len(s) + 1 : t[j] = s[j - 1]

LEMMA Inserted ==
    ASSUME NEW S, NEW s \in Seq(S), NEW f \in S, NEW i \in 1 .. Len(s) + 1
    PROVE  InsertAt(s, i, f) \in Seq(S) /\ IsWith(InsertAt(s, i, f), s, i, f)
<1> DEFINE u == SubSeq(s, 1, i - 1)  v == SubSeq(s, i, Len(s))
<1>1. Len(s) \in Nat /\ i \in Nat
  OBVIOUS
<1>2. u \in Seq(S) /\ Len(u) = i - 1 /\ \A j \in 1 .. i - 1 : u[j] = s[j]
  BY <1>1
<1>3. v \in Seq(S) /\ Len(v) = Len(s) - i + 1 /\ \A j \in 1 .. Len(s) - i + 1 : v[j] = s[i + j - 1]
  BY <1>1
<1> HIDE DEF u, v
<1> DEFINE w == u \o <<f>>
<1>4. w \in Seq(S) /\ Len(w) = i /\ w[i] = f /\ \A j \in 1 .. i - 1 : w[j] = s[j]
  BY <1>1, <1>2
<1> HIDE DEF w
<1> DEFINE t == w \o v
<1>a. t \in Seq(S) /\ Len(t) = Len(w) + Len(v)
  <2>1. w \in Seq(S) /\ v \in Seq(S)
    BY <1>3, <1>4
  <2> QED BY <2>1
<1>b. \A j \in 1 .. Len(w) : t[j] = w[j]
  BY <1>3, <1>4
<1>c. \A j \in Len(w) + 1 .. Len(w) + Len(v) : t[j] = v[j - Len(w)]
  BY <1>3, <1>4
<1> HIDE DEF t
<1>5. /\ t \in Seq(S) /\ Len(t) = Len(s) + 1
      /\ \A j \in 1 .. i : t[j] = w[j]
      /\ \A j \in i + 1 .. Len(s) + 1 : t[j] = v[j - i]
  <2>1. Len(w) = i /\ Len(v) = Len(s) - i + 1 /\ Len(w) + Len(v) = Len(s) + 1
    BY <1>1, <1>3, <1>4
  <2> QED BY <2>1, <1>a, <1>b, <1>c
<1>6. \A j \in 1 .. i - 1 : t[j] = s[j]
  BY <1>1, <1>4, <1>5
<1>7. t[i] = f
  BY <1>1, <1>4, <1>5
<1>8. ASSUME NEW j \in i + 1 .. Len(s) + 1 PROVE t[j] = s[j - 1]
  <2>1. j - i \in 1 .. Len(s) - i + 1 /\ i + (j - i) - 1 = j - 1
    BY <1>1
  <2>2. v[j - i] = s[i + (j - i) - 1]
    BY <1>3, <2>1
  <2> QED BY <2>1, <2>2, <1>5
<1>9. InsertAt(s, i, f) = t
  BY DEF InsertAt, t, u, v, w
<1> QED BY <1>5, <1>6, <1>7, <1>8, <1>9 DEF IsWith

LEMMA RangeInsert ==
    ASSUME NEW S, NEW s \in Seq(S), NEW f \in S, NEW i \in 1 .. Len(s) + 1
    PROVE  Range(InsertAt(s, i, f)) = Range(s) \union {f}
<1> DEFINE t == InsertAt(s, i, f)
<1>0. t \in Seq(S) /\ IsWith(t, s, i, f)
  BY Inserted
<1> HIDE DEF t
<1>1. /\ t \in Seq(S) /\ Len(t) = Len(s) + 1
      /\ \A j \in 1 .. i - 1 : t[j] = s[j]
      /\ t[i] = f
      /\ \A j \in i + 1 .. Len(s) + 1 : t[j] = s[j - 1]
  BY <1>0 DEF IsWith
<1>2. DOMAIN t = 1 .. Len(s) + 1 /\ DOMAIN s = 1 .. Len(s) /\ Len(s) \in Nat /\ i \in Nat
  BY <1>1
<1>3. ASSUME NEW j \in DOMAIN t PROVE t[j] \in Range(s) \union {f}
  <2>1. CASE j < i
    BY <2>1, <1>1, <1>2 DEF Range
  <2>2. CASE j = i
    BY <2>2, <1>1
  <2>3. CASE j > i
    <3>1. j \in i + 1 .. Len(s) + 1 /\ j - 1 \in DOMAIN s
      BY <2>3, <1>2
    <3> QED BY <3>1, <1>1 DEF Range
  <2> QED BY <2>1, <2>2, <2>3, <1>2
<1>4. ASSUME NEW j \in DOMAIN s PROVE s[j] \in Range(t)
  <2>1. CASE j < i
    <3>1. j \in 1 .. i - 1 /\ j \in DOMAIN t
      BY <2>1, <1>2
    <3> QED BY <3>1, <1>1 DEF Range
  <2>2. CASE j >= i
    <3>1. j + 1 \in i + 1 .. Len(s) + 1 /\ j + 1 \in DOMAIN t /\ (j + 1) - 1 = j
      BY <2>2, <1>2
    <3>2. t[j + 1] = s[j]
      BY <3>1, <1>1
    <3> QED BY <3>1, <3>2 DEF Range
  <2> QED BY <2>1, <2>2, <1>2
<1>5. f \in Range(t)
  BY <1>1, <1>2 DEF Range
<1>6. Range(t) = Range(s) \union {f}
  BY <1>3, <1>4, <1>5 DEF Range
<1> QED BY <1>6 DEF t

LEMMA CostInsert ==
    ASSUME NEW S, Priced(S), NEW s \in Seq(S), NEW f \in S, NEW i \in 1 .. Len(s) + 1
    PROVE  Cost(InsertAt(s, i, f)) = Cost(s) + f.tokens
<1> DEFINE t == InsertAt(s, i, f)
<1>0. t \in Seq(S) /\ IsWith(t, s, i, f)
  BY Inserted
<1> HIDE DEF t
<1>1. /\ t \in Seq(S) /\ Len(t) = Len(s) + 1
      /\ \A j \in 1 .. i - 1 : t[j] = s[j]
      /\ t[i] = f
      /\ \A j \in i + 1 .. Len(s) + 1 : t[j] = s[j - 1]
  BY <1>0 DEF IsWith
<1>2. PICK g : Counts(g, s, DOMAIN s)
  BY CountsExist
<1>3. Len(s) \in Nat /\ i \in Nat /\ f.tokens \in Nat /\ Len(t) = Len(s) + 1 /\ i <= Len(s) + 1 /\ i >= 1
  BY <1>1 DEF Priced
<1>4. DOMAIN t = 1 .. Len(s) + 1 /\ DOMAIN s = 1 .. Len(s)
  BY <1>1
<1>5. /\ \A j \in 1 .. Len(s) : s[j].tokens \in Nat /\ g[j] = g[j - 1] + s[j].tokens
      /\ g[0] = 0 /\ \A j \in 0 .. Len(s) : g[j] \in Nat
  BY <1>2, <1>4 DEF Counts, Term, Priced
<1> DEFINE h == [n \in 0 .. Len(t) |-> IF n < i THEN g[n] ELSE g[n - 1] + f.tokens]
<1>6. ASSUME NEW n \in 0 .. Len(t) PROVE h[n] \in Nat
  <2>1. n < i => n \in 0 .. Len(s)
    BY <1>3
  <2>2. ~(n < i) => n - 1 \in 0 .. Len(s)
    BY <1>3
  <2>3. CASE n < i
    BY <2>1, <2>3, <1>5
  <2>4. CASE ~(n < i)
    <3>1. g[n - 1] \in Nat
      BY <2>2, <2>4, <1>5
    <3> QED BY <2>4, <3>1, <1>3
  <2> QED BY <2>3, <2>4
<1>7. h \in [0 .. Len(t) -> Nat] /\ h[0] = 0
  BY <1>3, <1>5, <1>6
<1>8. ASSUME NEW n \in 1 .. Len(t) PROVE h[n] = h[n - 1] + t[n].tokens
  <2>1. n \in 0 .. Len(t) /\ n - 1 \in 0 .. Len(t) /\ n \in Nat
    BY <1>3
  <2>2. CASE n < i
    <3>1. n \in 1 .. i - 1 /\ n \in 1 .. Len(s) /\ n - 1 < i
      BY <2>2, <1>3
    <3>2. t[n] = s[n] /\ g[n] = g[n - 1] + s[n].tokens
      BY <3>1, <1>1, <1>5
    <3> QED BY <2>1, <2>2, <3>1, <3>2
  <2>3. CASE n = i
    <3>1. n - 1 < i /\ n - 1 \in 0 .. Len(s)
      BY <2>3, <1>3
    <3> QED BY <2>1, <2>3, <3>1, <1>1
  <2>4. CASE n > i
    <3>1. n \in i + 1 .. Len(s) + 1 /\ n - 1 \in 1 .. Len(s) /\ ~(n - 1 < i) /\ ~(n < i)
      BY <2>4, <2>1, <1>3
    <3>2. t[n] = s[n - 1] /\ g[n - 1] = g[n - 1 - 1] + s[n - 1].tokens
      BY <3>1, <1>1, <1>5
    <3>3. g[n - 1 - 1] \in Nat /\ s[n - 1].tokens \in Nat
      <4>1. n - 1 - 1 \in 0 .. Len(s)
        BY <3>1, <1>3
      <4> QED BY <3>1, <4>1, <1>5
    <3>4. h[n] = g[n - 1] + f.tokens /\ h[n - 1] = g[n - 1 - 1] + f.tokens
      BY <2>1, <3>1
    <3> HIDE DEF h
    <3> QED BY <3>2, <3>3, <3>4, <1>3
  <2> QED BY <2>1, <2>2, <2>3, <2>4, <1>3
<1>9. Counts(h, t, DOMAIN t)
  <2> HIDE DEF h
  <2> QED BY <1>4, <1>3, <1>7, <1>8 DEF Counts, Term
<1>10. Cost(t) = h[Len(t)] /\ Cost(s) = g[Len(s)]
  <2> HIDE DEF h
  <2> QED BY <1>1, <1>2, <1>9, CostIs DEF Cost
<1>11. h[Len(t)] = g[Len(s)] + f.tokens
  BY <1>3
<1> QED BY <1>10, <1>11 DEF t

LEMMA RangeOf ==
    ASSUME NEW S, NEW s \in Seq(S)
    PROVE  /\ Range(s) \subseteq S
           /\ \A x : x \in Range(s) <=> \E i \in 1 .. Len(s) : s[i] = x
BY DEF Range

\* What is left without some places, and what went, cost what there was.
LEMMA WithoutIs ==
    ASSUME NEW S, Priced(S), NEW s \in Seq(S), NEW places
    PROVE  /\ Without(s, places) \in Seq(S)
           /\ Cost(Without(s, places)) + CostOf(s, places) = Cost(s)
           /\ \A x : x \in Range(Without(s, places))
                  <=> \E i \in 1 .. Len(s) : i \notin places /\ s[i] = x
<1> DEFINE
      N == Len(s)
      step == [i \in 1 .. N |-> [u \in Seq(S) |-> IF i \in places THEN u ELSE Append(u, s[i])]]
      Step(f) == [n \in 0 .. N |->
                    IF n = 0 THEN <<>>
                    ELSE IF n \in places THEN f[n - 1] ELSE Append(f[n - 1], s[n])]
      kept == CHOOSE f : f = Step(f)
<1>1. N \in Nat /\ <<>> \in Seq(S) /\ \A i \in 1 .. N : s[i] \in S
  OBVIOUS
<1>2. step \in [1 .. N -> [Seq(S) -> Seq(S)]]
  <2>1. ASSUME NEW i \in 1 .. N, NEW u \in Seq(S)
        PROVE  (IF i \in places THEN u ELSE Append(u, s[i])) \in Seq(S)
    BY <1>1
  <2> QED BY <2>1
<1>3. \E g : Iterates(g, N, Seq(S), <<>>, step)
  <2> HIDE DEF step, N
  <2> QED BY <1>1, <1>2, Recursion
<1>4. PICK g : Iterates(g, N, Seq(S), <<>>, step)
  BY <1>3
<1>5. g \in [0 .. N -> Seq(S)] /\ g[0] = <<>> /\ \A i \in 1 .. N : g[i] = step[i][g[i - 1]]
  BY <1>4 DEF Iterates
<1>6. g = Step(g)
  <2>1. ASSUME NEW n \in 0 .. N
        PROVE  g[n] = IF n = 0 THEN <<>>
                      ELSE IF n \in places THEN g[n - 1] ELSE Append(g[n - 1], s[n])
    <3>1. CASE n = 0
      BY <3>1, <1>5
    <3>2. CASE n # 0
      <4>1. n \in 1 .. N /\ n - 1 \in 0 .. N
        BY <3>2, <1>1
      <4>2. g[n - 1] \in Seq(S) /\ g[n] = step[n][g[n - 1]]
        BY <4>1, <1>5
      <4> QED BY <3>2, <4>1, <4>2
    <3> QED BY <3>1, <3>2
  <2> HIDE DEF N
  <2> QED BY <2>1, <1>5
<1>7. kept = Step(kept)
  <2> HIDE DEF Step
  <2> QED BY <1>6
<1>8. Without(s, places) = kept[N]
  BY DEF Without
<1> HIDE DEF kept, step
<1>9. kept[0] = <<>>
  BY <1>1, <1>7
<1>10. ASSUME NEW n \in 0 .. N - 1
       PROVE  kept[n + 1] = IF n + 1 \in places THEN kept[n] ELSE Append(kept[n], s[n + 1])
  <2>1. n + 1 \in 0 .. N /\ n + 1 # 0 /\ (n + 1) - 1 = n
    BY <1>1
  <2> QED BY <2>1, <1>7
<1>11. PICK all : Counts(all, s, DOMAIN s)
  BY CountsExist
<1>12. PICK gone : Counts(gone, s, places)
  BY CountsExist
<1>13. all[0] = 0 /\ gone[0] = 0
  BY <1>11, <1>12 DEF Counts
<1>14. ASSUME NEW n \in 0 .. N - 1
       PROVE  /\ all[n] \in Nat /\ gone[n] \in Nat /\ s[n + 1] \in S /\ s[n + 1].tokens \in Nat
              /\ all[n + 1] = all[n] + s[n + 1].tokens
              /\ gone[n + 1] = gone[n] + IF n + 1 \in places THEN s[n + 1].tokens ELSE 0
  <2>1. n + 1 \in 1 .. Len(s) /\ (n + 1) - 1 = n /\ n \in 0 .. Len(s) /\ n + 1 \in DOMAIN s
    BY <1>1
  <2> QED BY <2>1, <1>1, <1>11, <1>12 DEF Counts, Term, Priced
<1> HIDE DEF Step
<1> DEFINE
      T == {n \in 0 .. N :
              /\ kept[n] \in Seq(S)
              /\ Cost(kept[n]) + gone[n] = all[n]
              /\ \A x : x \in Range(kept[n]) <=> \E i \in 1 .. n : i \notin places /\ s[i] = x}
<1>15. 0 \in T
  <2>1. Range(<<>>) = {}
    BY DEF Range
  <2>2. kept[0] \in Seq(S) /\ Cost(kept[0]) + gone[0] = all[0]
    BY <1>1, <1>9, <1>13, CostEmpty
  <2>3. 0 \in 0 .. N /\ 1 .. 0 = {}
    BY <1>1
  <2>4. \A x : x \in Range(kept[0]) <=> \E i \in 1 .. 0 : i \notin places /\ s[i] = x
    BY <2>1, <2>3, <1>9
  <2> HIDE DEF N
  <2> QED BY <2>2, <2>3, <2>4
<1>16. ASSUME NEW n \in 0 .. N - 1, n \in T PROVE n + 1 \in T
  <2>1. /\ kept[n] \in Seq(S)
        /\ Cost(kept[n]) + gone[n] = all[n]
        /\ \A x : x \in Range(kept[n]) <=> \E i \in 1 .. n : i \notin places /\ s[i] = x
    BY <1>16
  <2>2. n \in Nat /\ n + 1 \in 0 .. N /\ 1 .. n + 1 = (1 .. n) \union {n + 1}
    BY <1>1
  <2>3. Cost(kept[n]) \in Nat
    BY <2>1, CostNat DEF Cost
  <2>4. CASE n + 1 \in places
    <3>1. kept[n + 1] = kept[n] /\ gone[n + 1] = gone[n] + s[n + 1].tokens
      BY <2>4, <1>10, <1>14
    <3>2. Cost(kept[n + 1]) + gone[n + 1] = all[n + 1]
      BY <3>1, <2>1, <2>3, <1>14
    <3>3. \A x : x \in Range(kept[n + 1]) <=> \E i \in 1 .. n + 1 : i \notin places /\ s[i] = x
      BY <3>1, <2>1, <2>2, <2>4
    <3> HIDE DEF N
    <3> QED BY <2>1, <2>2, <3>1, <3>2, <3>3
  <2>5. CASE n + 1 \notin places
    <3>1. kept[n + 1] = Append(kept[n], s[n + 1]) /\ gone[n + 1] = gone[n]
      <4>1. kept[n + 1] = Append(kept[n], s[n + 1])
        BY <2>5, <1>10
      <4>2. gone[n + 1] = gone[n] + 0
        BY <2>5, <1>14
      <4> QED BY <4>1, <4>2, <1>14
    <3>2. Cost(kept[n + 1]) = Cost(kept[n]) + s[n + 1].tokens
      BY <3>1, <2>1, <1>14, CostAppend
    <3>3. Range(kept[n + 1]) = Range(kept[n]) \union {s[n + 1]}
      BY <3>1, <2>1, RangeAppend
    <3>4. kept[n + 1] \in Seq(S)
      BY <3>1, <2>1, <1>14
    <3>5. Cost(kept[n + 1]) + gone[n + 1] = all[n + 1]
      BY <3>1, <3>2, <2>1, <2>3, <1>14
    <3>6. \A x : x \in Range(kept[n + 1]) <=> \E i \in 1 .. n + 1 : i \notin places /\ s[i] = x
      BY <3>3, <2>1, <2>2, <2>5
    <3> HIDE DEF N
    <3> QED BY <2>2, <3>4, <3>5, <3>6
  <2> QED BY <2>4, <2>5
<1>17. N \in T
  <2>1. N \in 0 .. N
    BY <1>1
  <2> HIDE DEF T, N
  <2> QED BY <1>1, <1>15, <1>16, <2>1, UpTo
<1>18. Cost(s) = all[N] /\ CostOf(s, places) = gone[N]
  BY <1>11, <1>12, CostIs DEF Cost
<1> QED BY <1>8, <1>17, <1>18

(***************************************************************************)
(* What may be placed                                                      *)
(***************************************************************************)

Files == {f.path : f \in world.fragments}

Placeable ==
    world.fragments \union {world.excerpt[c] : c \in DOMAIN world.excerpt}
    \union UNION {Clips(c, WitnessCap) : c \in world.core}

\* A range of lines that costs something.
Sound(f) ==
    /\ f.start \in Nat /\ f.end \in Nat /\ f.start <= f.end
    /\ f.tokens \in Nat /\ f.tokens > 0

\* f shows some of the core c, in the same file.
Stands(f, c) ==
    /\ f \in Placeable
    /\ f.path = c.path /\ f.start <= c.end /\ c.start <= f.end
    /\ Shows(f, c)

LEMMA InputsAre ==
    ASSUME world \in Worlds
    PROVE  /\ world.core \subseteq world.fragments
           /\ DOMAIN world.excerpt \subseteq world.core
           /\ world.worthwhile \subseteq DOMAIN world.excerpt
           /\ \A c \in DOMAIN world.excerpt : Inside(world.excerpt[c], c)
           /\ \A f \in world.fragments : Sound(f)
           /\ \A c \in DOMAIN world.excerpt : Sound(world.excerpt[c])
           /\ world.budget \in Nat
<1>1. \A f \in world.fragments \union {world.excerpt[c] : c \in DOMAIN world.excerpt} : Sound(f)
  BY Inputs DEF Sound
<1> QED BY <1>1, Inputs

LEMMA CapNat ==
    ASSUME world \in Worlds
    PROVE  WitnessCap \in Nat
BY InputsAre, Shares DEF WitnessCap, Larger

LEMMA ClipsAre ==
    ASSUME world \in Worlds, NEW c \in world.core, NEW most, most \in Nat, most <= WitnessCap,
           NEW f \in Clips(c, most)
    PROVE  f \in Placeable /\ Sound(f) /\ Stands(f, c)
<1>1. Sound(c)
  BY InputsAre
<1>2. PICK n \in 0 .. c.end - c.start, t \in 1 .. most + 1 :
         f = [path |-> c.path, start |-> c.start, end |-> c.start + n, tokens |-> t,
              kind |-> IF c.start + n < c.end THEN "clip" ELSE "excerpt"]
  BY DEF Clips
<1>3. t \in 1 .. WitnessCap + 1
  BY CapNat
<1>4. f \in Clips(c, WitnessCap)
  BY <1>2, <1>3 DEF Clips
<1>5. f \in Placeable
  BY <1>4 DEF Placeable
<1>6. n \in Nat /\ t \in Nat /\ t > 0 /\ c.start + n <= c.end
  BY <1>1 DEF Sound
<1>7. /\ f.path = c.path /\ f.start = c.start /\ f.end = c.start + n /\ f.tokens = t
      /\ f.kind = IF c.start + n < c.end THEN "clip" ELSE "excerpt"
  BY <1>2
<1>8. Sound(f)
  BY <1>1, <1>6, <1>7 DEF Sound
<1>9. Shows(f, c)
  <2>1. CASE c.start + n < c.end
    BY <2>1, <1>1, <1>6, <1>7 DEF Shows, Sound
  <2>2. CASE ~(c.start + n < c.end)
    <3>1. Inside(c, f)
      BY <2>2, <1>1, <1>6, <1>7 DEF Inside, Sound
    <3> QED BY <3>1 DEF Shows
  <2> QED BY <2>1, <2>2
<1>10. f.path = c.path /\ f.start <= c.end /\ c.start <= f.end
  BY <1>1, <1>6, <1>7 DEF Sound
<1> QED BY <1>5, <1>8, <1>9, <1>10 DEF Stands

LEMMA PlaceableIsSound ==
    ASSUME world \in Worlds
    PROVE  /\ \A f \in Placeable : Sound(f) /\ f.path \in Files
           /\ Priced(Placeable)
<1>1. ASSUME NEW f \in Placeable PROVE Sound(f) /\ f.path \in Files
  <2>1. CASE f \in world.fragments
    BY <2>1, InputsAre DEF Files
  <2>2. ASSUME NEW c \in DOMAIN world.excerpt, f = world.excerpt[c] PROVE Sound(f) /\ f.path \in Files
    <3>1. Inside(f, c) /\ c \in world.fragments /\ Sound(f)
      BY <2>2, InputsAre
    <3> QED BY <3>1 DEF Inside, Files
  <2>3. ASSUME NEW c \in world.core, f \in Clips(c, WitnessCap) PROVE Sound(f) /\ f.path \in Files
    <3>1. Sound(f) /\ Stands(f, c)
      BY <2>3, ClipsAre, CapNat
    <3>2. c \in world.fragments
      BY InputsAre
    <3> QED BY <3>1, <3>2 DEF Stands, Files
  <2> QED BY <2>1, <2>2, <2>3 DEF Placeable
<1> QED BY <1>1 DEF Priced, Sound

LEMMA OfferedStands ==
    ASSUME world \in Worlds, NEW c \in world.core
    PROVE  Stands(Offered(c), c) /\ Inside(Offered(c), c)
<1>1. Sound(c) /\ c \in world.fragments
  BY InputsAre
<1>2. CASE c \in world.worthwhile
  <2>1. Offered(c) = world.excerpt[c] /\ c \in DOMAIN world.excerpt
    BY <1>2, InputsAre DEF Offered
  <2>2. Inside(Offered(c), c) /\ Sound(Offered(c)) /\ Offered(c) \in Placeable
    BY <2>1, InputsAre DEF Placeable
  <2>3. Inside(Offered(c), Offered(c))
    BY <2>2 DEF Inside, Sound
  <2>4. Shows(Offered(c), c)
    BY <2>3 DEF Shows
  <2> QED BY <2>2, <2>4, <1>1 DEF Stands, Inside, Sound
<1>3. CASE c \notin world.worthwhile
  <2>1. Offered(c) = c /\ c \in Placeable
    BY <1>1, <1>3 DEF Offered, Placeable
  <2>2. Inside(c, c)
    BY <1>1 DEF Inside, Sound
  <2>3. Shows(c, c)
    BY <2>2 DEF Shows
  <2> QED BY <2>1, <2>2, <2>3, <1>1 DEF Stands, Sound
<1> QED BY <1>2, <1>3

LEMMA SubstitutesStand ==
    ASSUME world \in Worlds, NEW c \in world.core, NEW f \in Substitutes(c)
    PROVE  Stands(f, c)
<1>1. Sound(c) /\ c \in world.fragments
  BY InputsAre
<1>2. \/ f \in world.fragments /\ f.path = c.path /\ f.start = c.start
      \/ c \in DOMAIN world.excerpt /\ f = world.excerpt[c]
  BY DEF Substitutes
<1>3. f \in Placeable /\ Sound(f)
  BY <1>2, InputsAre DEF Placeable
<1>4. f.path = c.path /\ f.start <= c.end /\ c.start <= f.end
  <2>1. c \in DOMAIN world.excerpt => Inside(world.excerpt[c], c)
    BY InputsAre
  <2> QED BY <1>1, <1>2, <1>3, <2>1 DEF Inside, Sound
<1>5. Inside(f, f)
  BY <1>3 DEF Inside, Sound
<1>6. Shows(f, c)
  BY <1>5 DEF Shows
<1> QED BY <1>3, <1>4, <1>6 DEF Stands

(***************************************************************************)
(* The invariant of the selection                                          *)
(***************************************************************************)

Early == {"floor", "first", "sweep", "upgrade"}

Types ==
    /\ world \in Worlds
    /\ pc \in Early \union {"greedy", "done"}
    /\ files \subseteq Paths /\ short \subseteq Paths
    /\ todo \subseteq world.core /\ satisfied \subseteq world.core
    /\ skipped \subseteq world.core /\ blocked \subseteq skipped
    /\ pc = "sweep" => todo \subseteq skipped /\ round \in {0, 1}
    /\ heap \subseteq world.fragments /\ deferred \subseteq world.fragments
    /\ selected \in Seq(Placeable) /\ base.selected \in Seq(Placeable)
    /\ remaining \in 0 .. world.budget /\ base.remaining \in Nat
    /\ coreUsed \in Nat /\ spent \in [Files -> Nat]

\* What the budget lost is what is placed, in the core pass also by its own
\* count, and what the greedy loop started from stays.
Ledger ==
    /\ pc # "done" => Cost(selected) = world.budget - remaining
    /\ pc \in {"floor", "first"} => coreUsed = Cost(selected)
    /\ pc = "done" => used = Cost(selected) /\ used <= world.budget
    /\ pc \in Early => base.remaining = 0
    /\ pc = "greedy" => /\ Cost(base.selected) + base.remaining = world.budget
                        /\ Range(base.selected) \subseteq Range(selected)
    /\ pc = "done" => base.remaining = 0 \/ Range(base.selected) \subseteq Range(selected)

Witness(fragments) ==
    \A p \in Paths \ files :
        p \in short \/ \E f \in fragments :
            f.path = p /\ \E c \in world.core : c.path = p /\ f.start <= c.end /\ c.start <= f.end
Witnessed ==
    /\ Witness(Range(selected))
    /\ pc = "greedy" => Witness(Range(base.selected))

Shown(fragments) == \A c \in satisfied : \E f \in fragments : Shows(f, c)
Represented ==
    /\ Shown(Range(selected))
    /\ pc = "greedy" => Shown(Range(base.selected))

\* A core the sweep has passed over does not fit the budget, or its file's
\* share, which in the second round says it of all of the tier.
Ceiling ==
    pc = "sweep" =>
        \A c \in skipped \ satisfied : Tier(c) = tier /\ (round = 1 \/ c \notin todo) =>
            Offered(c).tokens > remaining \/ spent[c.path] + Offered(c).tokens > FileCeiling

Selection == Types /\ Ledger /\ OnlyAdmitted /\ Witnessed /\ Represented /\ Ceiling

-----------------------------------------------------------------------------
(* What the steps of the core pass have in common *)

Still == UNCHANGED placed

Placing(f) ==
    /\ f \in Placeable /\ f.tokens <= remaining
    /\ \E needs : Place(f, needs)

\* One core is placed, found to be there already, or passed over.
Serves(c) ==
    \/ \E f : Placing(f) /\ Stands(f, c) /\ satisfied' = satisfied \union {c}
    \/ /\ Still
       /\ \E g \in Range(selected) : Shows(g, c)
       /\ satisfied' = satisfied \union {c}
    \/ Still /\ satisfied' = satisfied

LEMMA BudgetNat ==
    ASSUME world \in Worlds
    PROVE  world.budget \in Nat /\ CoreBudget \in Nat /\ CoreBudget <= world.budget /\ FileCeiling \in Nat
<1> DEFINE b == world.budget
           x == b * CorePercent
           y == b * FilePercent
<1>1. b \in Nat /\ CorePercent \in 0 .. 100 /\ FilePercent \in 0 .. 100
  BY InputsAre, Shares
<1>2. x \in Nat /\ x <= b * 100 /\ y \in Nat
  BY <1>1
<1> HIDE DEF b, x, y
<1>3. x \div 100 \in Nat /\ x \div 100 <= b /\ y \div 100 \in Nat
  BY <1>1, <1>2
<1> QED BY <1>1, <1>3 DEF CoreBudget, FileCeiling, b, x, y

LEMMA Placed ==
    ASSUME Types, NEW f, Placing(f)
    PROVE  /\ selected' \in Seq(Placeable)
           /\ Range(selected') = Range(selected) \union {f}
           /\ Cost(selected') = Cost(selected) + f.tokens
           /\ remaining' = remaining - f.tokens /\ remaining' \in 0 .. world.budget
           /\ coreUsed' = coreUsed + f.tokens /\ coreUsed' \in Nat
           /\ spent' = [spent EXCEPT ![f.path] = @ + f.tokens]
           /\ spent' \in [Files -> Nat]
           /\ \A p \in Files : spent'[p] >= spent[p]
<1>1. f \in Placeable /\ Sound(f) /\ f.path \in Files /\ f.tokens <= remaining /\ Priced(Placeable)
  BY PlaceableIsSound DEF Types, Placing
<1>2. /\ selected' = Append(selected, f)
      /\ remaining' = Monus(remaining, f.tokens)
      /\ coreUsed' = coreUsed + f.tokens
      /\ spent' = [spent EXCEPT ![f.path] = @ + f.tokens]
  BY DEF Placing, Place
<1>3. selected \in Seq(Placeable) /\ world.budget \in Nat /\ remaining \in 0 .. world.budget
  BY InputsAre DEF Types
<1>4. selected' \in Seq(Placeable)
  BY <1>1, <1>2, <1>3
<1>5. Range(selected') = Range(selected) \union {f}
  BY <1>2, <1>3, RangeAppend
<1>6. Cost(selected') = Cost(selected) + f.tokens
  BY <1>1, <1>2, <1>3, CostAppend
<1>7. remaining' = remaining - f.tokens /\ remaining' \in 0 .. world.budget
  BY <1>1, <1>2, <1>3 DEF Monus, Sound
<1>8. coreUsed' \in Nat
  BY <1>1, <1>2 DEF Types, Sound
<1>9. spent' \in [Files -> Nat] /\ \A p \in Files : spent'[p] >= spent[p]
  BY <1>1, <1>2 DEF Types, Sound
<1> QED BY <1>2, <1>4, <1>5, <1>6, <1>7, <1>8, <1>9

LEMMA FloorServes ==
    ASSUME Types, Floor
    PROVE  \E c \in world.core :
             /\ files' = files \ {c.path}
             /\ Serves(c)
             /\ \/ short' = short /\ \E f : Placing(f) /\ Stands(f, c)
                \/ short' = short \union {c.path} /\ Still
<1> DEFINE most == Smaller(WitnessCap, remaining)
           fits(f) == f.tokens <= remaining
           serve(c, p) ==
               \/ fits(Offered(c)) /\ WitnessOf(c, Offered(c), world.covers[Offered(c)])
               \/ /\ ~fits(Offered(c))
                  /\ \E s \in Fallbacks(c) : fits(s) /\ WitnessOf(c, s, world.covers[s])
               \/ /\ ~fits(Offered(c)) /\ ~\E s \in Fallbacks(c) : fits(s)
                  /\ \E clip \in Clips(c, most) :
                       \/ /\ fits(clip)
                          /\ \E needs \in SUBSET world.covers[c] : WitnessOf(c, clip, needs)
                       \/ /\ ~fits(clip)
                          /\ short' = short \union {p}
                          /\ UNCHANGED <<placed, satisfied, standIns>>
<1>a. PICK p \in FirstFile(files) : files' = files \ {p} /\ \E c \in Witnesses(p) : serve(c, p)
  BY DEF Floor
<1>1. PICK c \in Witnesses(p) : serve(c, p)
  BY <1>a
<1>2. c \in world.core /\ c.path = p /\ world \in Worlds
  BY DEF Witnesses, Types
<1>3. most \in Nat /\ most <= WitnessCap
  BY <1>2, CapNat, InputsAre DEF Smaller, Types
<1>4. ASSUME NEW f, NEW needs, Stands(f, c), f.tokens <= remaining, WitnessOf(c, f, needs)
      PROVE  Placing(f) /\ Stands(f, c) /\ satisfied' = satisfied \union {c} /\ short' = short
  BY <1>4 DEF WitnessOf, Placing, Stands
<1>5. CASE \E f : Placing(f) /\ Stands(f, c) /\ satisfied' = satisfied \union {c} /\ short' = short
  BY <1>a, <1>2, <1>5 DEF Serves
<1>6. CASE short' = short \union {p} /\ UNCHANGED <<placed, satisfied, standIns>>
  BY <1>a, <1>2, <1>6 DEF Serves, Still
<1>7. CASE Offered(c).tokens <= remaining /\ WitnessOf(c, Offered(c), world.covers[Offered(c)])
  BY <1>2, <1>4, <1>5, <1>7, OfferedStands
<1>8. ASSUME NEW s \in Fallbacks(c), s.tokens <= remaining, WitnessOf(c, s, world.covers[s])
      PROVE  \E f : Placing(f) /\ Stands(f, c) /\ satisfied' = satisfied \union {c} /\ short' = short
  <2>1. Stands(s, c)
    BY <1>2, SubstitutesStand DEF Fallbacks
  <2> QED BY <1>4, <1>8, <2>1
<1>9. ASSUME NEW clip \in Clips(c, most), clip.tokens <= remaining,
             NEW needs \in SUBSET world.covers[c], WitnessOf(c, clip, needs)
      PROVE  \E f : Placing(f) /\ Stands(f, c) /\ satisfied' = satisfied \union {c} /\ short' = short
  <2>1. Stands(clip, c)
    BY <1>2, <1>3, ClipsAre
  <2> QED BY <1>4, <1>9, <2>1
<1> QED BY <1>1, <1>5, <1>6, <1>7, <1>8, <1>9

LEMMA ContainedShows ==
    ASSUME NEW c, Contained(Offered(c))
    PROVE  \E g \in Range(selected) : Shows(g, c)
BY DEF Contained, Shows

\* What the core pass knows of a core it has passed over.
Passed(c) ==
    Offered(c).tokens > remaining \/ spent[c.path] + Offered(c).tokens > FileCeiling

LEMMA FirstServes ==
    ASSUME Types, Ledger, First
    PROVE  \E c \in todo : /\ todo' = todo \ {c}
                           /\ Serves(c)
                           /\ skipped' = skipped \/ skipped' = skipped \union {c}
<1> DEFINE serve(c) ==
             LET f == Offered(c) IN
             \/ /\ Contained(f)
                /\ satisfied' = satisfied \union {c}
                /\ UNCHANGED <<placed, skipped>>
             \/ /\ ~Contained(f) /\ InShare(f)
                /\ PlaceKnown(f)
                /\ satisfied' = satisfied \union {c}
                /\ UNCHANGED skipped
             \/ /\ ~Contained(f) /\ ~InShare(f)
                /\ \E s \in Substitutes(c) : Usable(s) /\ PlaceKnown(s)
                /\ satisfied' = satisfied \union {c}
                /\ UNCHANGED skipped
             \/ /\ ~Contained(f) /\ ~InShare(f) /\ ~\E s \in Substitutes(c) : Usable(s)
                /\ skipped' = skipped \union {c}
                /\ UNCHANGED <<placed, satisfied>>
<1>1. PICK c \in Foremost(todo) : todo' = todo \ {c} /\ serve(c)
  BY DEF First
<1>2. c \in todo /\ c \in world.core /\ world \in Worlds
  BY DEF Foremost, Types
<1>3. ASSUME NEW f, Stands(f, c), InShare(f), PlaceKnown(f)
      PROVE  Placing(f) /\ Stands(f, c)
  <2>1. f \in Placeable /\ Sound(f)
    BY <1>2, <1>3, PlaceableIsSound DEF Stands
  <2>2. coreUsed + f.tokens <= CoreBudget /\ CoreBudget <= world.budget /\ world.budget \in Nat /\ CoreBudget \in Nat
    BY <1>2, <1>3, BudgetNat DEF InShare
  <2>3. coreUsed = world.budget - remaining /\ remaining \in Nat
    BY DEF Ledger, Types, First
  <2>4. f.tokens <= remaining
    BY <2>1, <2>2, <2>3 DEF Sound
  <2> QED BY <1>3, <2>1, <2>4 DEF Placing, PlaceKnown
<1>4. CASE Contained(Offered(c)) /\ satisfied' = satisfied \union {c} /\ UNCHANGED <<placed, skipped>>
  BY <1>1, <1>2, <1>4, ContainedShows DEF Serves, Still
<1>5. CASE InShare(Offered(c)) /\ PlaceKnown(Offered(c)) /\ satisfied' = satisfied \union {c} /\ skipped' = skipped
  <2>1. Placing(Offered(c)) /\ Stands(Offered(c), c)
    BY <1>2, <1>3, <1>5, OfferedStands
  <2>2. Serves(c)
    BY <2>1, <1>5 DEF Serves
  <2> QED BY <2>2, <1>1, <1>2, <1>5
<1>6. ASSUME NEW s \in Substitutes(c), Usable(s), PlaceKnown(s), satisfied' = satisfied \union {c}, skipped' = skipped
      PROVE  Serves(c)
  <2>1. Placing(s) /\ Stands(s, c)
    BY <1>2, <1>3, <1>6, SubstitutesStand DEF Usable
  <2> QED BY <2>1, <1>6 DEF Serves
<1>7. CASE skipped' = skipped \union {c} /\ UNCHANGED <<placed, satisfied>>
  BY <1>1, <1>2, <1>7 DEF Serves, Still
<1> QED BY <1>1, <1>2, <1>4, <1>5, <1>6, <1>7

LEMMA SweepServes ==
    ASSUME Types, Sweep
    PROVE  \E c \in todo : /\ todo' = todo \ {c}
                           /\ Serves(c)
                           /\ c \in satisfied' \/ Passed(c)
                           /\ Still \/ \E f : Placing(f) /\ ~Deferred(f)
                           /\ blocked' = blocked \/ blocked' = blocked \union {c}
<1> DEFINE fits(g) == g.tokens <= remaining
           serve(c) ==
             LET f == Offered(c) IN
             \/ /\ Contained(f)
                /\ satisfied' = satisfied \union {c}
                /\ UNCHANGED <<placed, blocked>>
             \/ ~Contained(f) /\ fits(f) /\ SweepOffer(c, f)
             \/ /\ ~Contained(f) /\ ~fits(f)
                /\ \/ \E s \in Substitutes(c) :
                        Id(s) \notin Ids /\ fits(s) /\ SweepOffer(c, s)
                   \/ /\ \E s \in Substitutes(c) : Id(s) \in Ids
                      /\ satisfied' = satisfied \union {c}
                      /\ UNCHANGED <<placed, blocked>>
                   \/ /\ \A s \in Substitutes(c) : Id(s) \notin Ids /\ ~fits(s)
                      /\ UNCHANGED <<placed, satisfied, blocked>>
<1>1. PICK c \in Foremost(todo) : todo' = todo \ {c} /\ serve(c)
  BY DEF Sweep
<1>2. c \in todo /\ c \in world.core /\ world \in Worlds
  BY DEF Foremost, Types
<1>3. /\ Offered(c).path = c.path /\ Sound(Offered(c)) /\ c.path \in Files
      /\ remaining \in Nat /\ spent \in [Files -> Nat] /\ FileCeiling \in Nat
  BY <1>2, OfferedStands, PlaceableIsSound, BudgetNat, InputsAre DEF Stands, Types
<1>4. ~fits(Offered(c)) => Passed(c)
  BY <1>3 DEF Passed, Sound
<1>5. Deferred(Offered(c)) => Passed(c)
  BY <1>3 DEF Passed, Deferred, OverCeiling
<1>6. ASSUME NEW f, Stands(f, c), fits(f), SweepOffer(c, f)
      PROVE  \/ /\ Deferred(f) /\ Still /\ satisfied' = satisfied
                /\ blocked' = blocked \union {c}
             \/ /\ ~Deferred(f) /\ Placing(f) /\ satisfied' = satisfied \union {c}
                /\ blocked' = blocked
  <2>1. CASE Deferred(f) /\ blocked' = blocked \union {c} /\ UNCHANGED <<placed, satisfied>>
    BY <2>1 DEF Still
  <2>2. CASE ~Deferred(f) /\ PlaceKnown(f) /\ satisfied' = satisfied \union {c} /\ UNCHANGED blocked
    BY <2>2, <1>6 DEF Placing, PlaceKnown, Stands
  <2> QED BY <1>6, <2>1, <2>2 DEF SweepOffer
<1>7. CASE Contained(Offered(c)) /\ satisfied' = satisfied \union {c} /\ UNCHANGED <<placed, blocked>>
  <2>1. Serves(c) /\ Still
    BY <1>7, ContainedShows DEF Serves, Still
  <2> QED BY <1>1, <1>2, <1>7, <2>1
<1>8. CASE fits(Offered(c)) /\ SweepOffer(c, Offered(c))
  <2>1. Stands(Offered(c), c)
    BY <1>2, OfferedStands
  <2>2. CASE /\ Deferred(Offered(c)) /\ Still /\ satisfied' = satisfied
             /\ blocked' = blocked \union {c}
    <3>1. Serves(c)
      BY <2>2 DEF Serves
    <3> QED BY <1>1, <1>2, <1>5, <2>2, <3>1
  <2>3. CASE /\ ~Deferred(Offered(c)) /\ Placing(Offered(c)) /\ satisfied' = satisfied \union {c}
             /\ blocked' = blocked
    <3>1. Serves(c)
      BY <2>1, <2>3 DEF Serves
    <3> QED BY <1>1, <1>2, <2>3, <3>1
  <2> QED BY <1>6, <1>8, <2>1, <2>2, <2>3
<1>9. ASSUME NEW s \in Substitutes(c), ~fits(Offered(c)), fits(s), SweepOffer(c, s)
      PROVE  /\ Serves(c)
             /\ Still \/ \E f : Placing(f) /\ ~Deferred(f)
             /\ blocked' = blocked \/ blocked' = blocked \union {c}
  <2>1. Stands(s, c)
    BY <1>2, SubstitutesStand
  <2> QED BY <1>6, <1>9, <2>1 DEF Serves
<1>10. CASE (\E s \in Substitutes(c) : Id(s) \in Ids) /\ satisfied' = satisfied \union {c} /\ UNCHANGED <<placed, blocked>>
  <2>1. PICK s \in Substitutes(c) : Id(s) \in Ids
    BY <1>10
  <2>2. PICK g \in Range(selected) : Id(g) = Id(s)
    BY <2>1 DEF Ids
  <2>3. Sound(s)
    BY <1>2, SubstitutesStand, PlaceableIsSound DEF Stands
  <2>4. Inside(s, g)
    BY <2>2, <2>3 DEF Id, Inside, Sound
  <2>5. Shows(g, c)
    BY <2>4 DEF Shows
  <2>6. Serves(c) /\ Still
    BY <1>10, <2>5 DEF Serves, Still
  <2> QED BY <1>1, <1>2, <1>10, <2>6
<1>11. CASE ~fits(Offered(c)) /\ UNCHANGED <<placed, satisfied, blocked>>
  <2>1. Serves(c) /\ Still
    BY <1>11 DEF Serves, Still
  <2> QED BY <1>1, <1>2, <1>4, <1>11, <2>1
<1> QED BY <1>1, <1>2, <1>4, <1>7, <1>8, <1>9, <1>10, <1>11

\* The place of a core's body: what lies inside it goes, and the rest stays.
Replaces(body) ==
    /\ selected' \in Seq(Placeable)
    /\ Range(selected') = {f \in Range(selected) : ~Absorbed(f, body)} \union {body}
    /\ remaining' \in 0 .. world.budget
    /\ Cost(selected') + remaining' = Cost(selected) + remaining

LEMMA GonePlace ==
    ASSUME Types, NEW body
    PROVE  (IF Gone(body) = {} THEN Len(selected) ELSE Lowest(Gone(body)) - 1) \in Nat
<1>1. selected \in Seq(Placeable) /\ Gone(body) \subseteq 1 .. Len(selected)
  BY DEF Types, Gone
<1>2. CASE Gone(body) = {}
  BY <1>1, <1>2
<1>3. CASE Gone(body) # {}
  <2>1. Gone(body) \subseteq Nat
    BY <1>1
  <2>2. \E n \in Gone(body) : \A m \in Gone(body) : n <= m
    BY <2>1, <1>3, Least
  <2>3. Lowest(Gone(body)) \in Gone(body)
    BY <2>2 DEF Lowest
  <2>4. Lowest(Gone(body)) \in 1 .. Len(selected)
    BY <1>1, <2>3
  <2>5. Lowest(Gone(body)) - 1 \in Nat
    BY <2>4
  <2> QED BY <2>5, <1>3
<1> QED BY <1>2, <1>3

LEMMA UpgradeReplaces ==
    ASSUME Types, Ledger, NEW body \in Placeable, pc = "upgrade", Monus(body.tokens, Refund(body)) <= remaining,
           selected' = Replaced(body), remaining' = Refunded(body)
    PROVE  Replaces(body)
<1>1. selected \in Seq(Placeable) /\ Priced(Placeable) /\ Sound(body)
      /\ remaining \in 0 .. world.budget /\ world.budget \in Nat
  BY PlaceableIsSound, InputsAre DEF Types
<1>2. /\ Kept(body) \in Seq(Placeable)
      /\ Cost(Kept(body)) + Refund(body) = Cost(selected)
      /\ \A x : x \in Range(Kept(body)) <=> \E i \in 1 .. Len(selected) : i \notin Gone(body) /\ selected[i] = x
  BY <1>1, WithoutIs DEF Kept, Refund
<1>3. Cost(selected) \in Nat /\ Cost(Kept(body)) \in Nat /\ Refund(body) \in Nat
  BY <1>1, <1>2, CostNat DEF Cost, Refund
<1>4. ASSUME NEW x PROVE x \in Range(Kept(body)) <=> x \in Range(selected) /\ ~Absorbed(x, body)
  <2>1. DOMAIN selected = 1 .. Len(selected)
    BY <1>1
  <2> QED BY <1>2, <2>1 DEF Range, Gone
<1> DEFINE at == IF Gone(body) = {} THEN Len(selected) ELSE Lowest(Gone(body)) - 1
           i == Smaller(at, Len(Kept(body))) + 1
<1>5. i \in 1 .. Len(Kept(body)) + 1
  <2>1. at \in Nat
    BY GonePlace
  <2>2. Len(Kept(body)) \in Nat
    BY <1>2
  <2> HIDE DEF at
  <2> QED BY <2>1, <2>2 DEF Smaller
<1>6. selected' = InsertAt(Kept(body), i, body)
  BY DEF Replaced
<1> HIDE DEF i
<1>7. selected' \in Seq(Placeable)
  BY <1>2, <1>5, <1>6, Inserted
<1>8. Range(selected') = Range(Kept(body)) \union {body}
  BY <1>2, <1>5, <1>6, RangeInsert
<1>9. Cost(selected') = Cost(Kept(body)) + body.tokens
  BY <1>1, <1>2, <1>5, <1>6, CostInsert
<1>10. Range(selected') = {f \in Range(selected) : ~Absorbed(f, body)} \union {body}
  BY <1>4, <1>8
<1>11. Cost(selected) = world.budget - remaining
  BY DEF Ledger
<1>12. remaining' = remaining + Refund(body) - body.tokens
  BY DEF Refunded
<1>13. body.tokens \in Nat
  BY <1>1 DEF Sound
<1>14. body.tokens <= remaining + Refund(body)
  BY <1>1, <1>3, <1>13 DEF Monus
<1>15. remaining' \in 0 .. world.budget
  <2> DEFINE b == world.budget  r == Refund(body)  k == Cost(Kept(body))  t == body.tokens
  <2>1. /\ b \in Nat /\ r \in Nat /\ k \in Nat /\ t \in Nat /\ remaining \in Nat
        /\ k + r = b - remaining /\ t <= remaining + r /\ remaining' = remaining + r - t
    BY <1>1, <1>2, <1>3, <1>11, <1>12, <1>13, <1>14
  <2> HIDE DEF b, r, k, t
  <2>2. remaining' \in 0 .. b
    BY <2>1
  <2> QED BY <2>2 DEF b
<1>16. Cost(selected') + remaining' = Cost(selected) + remaining
  BY <1>1, <1>2, <1>3, <1>9, <1>12, <1>13
<1> QED BY <1>7, <1>10, <1>15, <1>16 DEF Replaces

LEMMA UpgradeServes ==
    ASSUME Types, Ledger, Upgrade
    PROVE  \E c \in todo :
             /\ todo' = todo \ {c}
             /\ \/ selected' = selected /\ remaining' = remaining
                \/ Replaces(Offered(c))
<1>1. PICK c \in Foremost(todo) :
         /\ todo' = todo \ {c}
         /\ \/ /\ Upgradable(c)
               /\ selected' = Replaced(Offered(c)) /\ remaining' = Refunded(Offered(c))
            \/ selected' = selected /\ remaining' = remaining
  BY DEF Upgrade
<1>2. c \in todo /\ Offered(c) \in Placeable
  BY OfferedStands DEF Foremost, Types, Stands
<1>3. CASE /\ Upgradable(c)
           /\ selected' = Replaced(Offered(c)) /\ remaining' = Refunded(Offered(c))
  <2>1. pc = "upgrade" /\ Monus(Offered(c).tokens, Refund(Offered(c))) <= remaining
    BY <1>3 DEF Upgradable, Upgrade
  <2>2. Replaces(Offered(c))
    BY <1>2, <1>3, <2>1, UpgradeReplaces
  <2> QED BY <1>1, <1>2, <2>2
<1> QED BY <1>1, <1>2, <1>3

LEMMA TakeServes ==
    ASSUME Types, Take
    PROVE  \E f \in heap : /\ heap' = heap \ {f}
                           /\ deferred' = deferred \/ deferred' = deferred \union {f}
                           /\ \/ Still
                              \/ Placing(f) /\ f.path \in Opened(selected) \union world.admissible
<1>1. PICK f \in Live :
         /\ heap' = heap \ {f}
         /\ \/ UNCHANGED <<placed, deferred>>
            \/ deferred' = deferred \union {f} /\ UNCHANGED placed
            \/ /\ f.path \in Opened(selected) \union world.admissible
               /\ PlaceKnown(f) /\ UNCHANGED deferred
  BY DEF Take
<1>2. f \in heap /\ f.tokens <= remaining /\ f \in Placeable
  BY DEF Live, Types, Placeable
<1> QED BY <1>1, <1>2 DEF Still, Placing, PlaceKnown

LEMMA CompareAnswers ==
    ASSUME Types, Compare
    PROVE  /\ pc = "greedy" /\ pc' = "done"
           /\ \/ selected' = selected /\ used' = world.budget - remaining
              \/ \E f \in world.fragments :
                   /\ f.tokens <= base.remaining
                   /\ f.path \in Opened(base.selected) \union world.declared
                   /\ selected' = Append(base.selected, f) /\ used' = Cost(selected')
<1>1. \/ \E f \in Heavies : Added(f) /\ Answer(Beside(f))
      \/ \E s \in Singles : Answer(Append(base.selected, s))
      \/ used' = world.budget - remaining /\ UNCHANGED selected
  BY DEF Compare
<1>2. ASSUME NEW f \in Heavies, Added(f)
      PROVE  f \in world.fragments /\ f.tokens <= base.remaining /\ MayOpen(f)
  BY <1>2 DEF Heavies, Best, Added
<1>3. ASSUME NEW f \in Singles
      PROVE  f \in world.fragments /\ f.tokens <= base.remaining /\ MayOpen(f)
  BY <1>3 DEF Singles, Best, Candidates
<1>4. pc = "greedy" /\ pc' = "done"
  BY DEF Compare
<1> QED BY <1>1, <1>2, <1>3, <1>4 DEF Answer, Beside, MayOpen

(***************************************************************************)
(* The invariant holds through every step                                  *)
(***************************************************************************)

LEMMA SameWorld ==
    ASSUME world' = world
    PROVE  /\ Placeable' = Placeable /\ Files' = Files /\ Paths' = Paths
           /\ \A c : Offered(c)' = Offered(c)
           /\ \A c : Tier(c)' = Tier(c)
           /\ FileCeiling' = FileCeiling
           /\ \A f, c : Shows(f, c)' <=> Shows(f, c)
<1>1. WitnessCap' = WitnessCap /\ FileCeiling' = FileCeiling
  BY DEF WitnessCap, FileCeiling
<1>2. Placeable' = Placeable
  BY <1>1 DEF Placeable, Clips
<1>3. Files' = Files /\ Paths' = Paths
  BY DEF Files, Paths
<1>4. \A c : Offered(c)' = Offered(c) /\ Tier(c)' = Tier(c) /\ Substitutes(c)' = Substitutes(c)
  BY DEF Offered, Tier, Substitutes
<1>5. \A f, c : Shows(f, c)' <=> Shows(f, c)
  BY <1>4 DEF Shows
<1> QED BY <1>1, <1>2, <1>3, <1>4, <1>5

LEMMA WorldStays ==
    ASSUME [Next]_vars
    PROVE  world' = world
BY DEF Next, vars, Floor, FloorDone, First, FirstDone, Sweep, SweepDone, Upgrade, UpgradeDone,
       Take, LiftCeiling, Compare

\* What a step of the core pass leaves of the ledger and of what is shown.
Kindly ==
    /\ selected' \in Seq(Placeable) /\ satisfied' \subseteq world.core
    /\ remaining' \in 0 .. world.budget /\ remaining' <= remaining
    /\ coreUsed' \in Nat /\ spent' \in [Files -> Nat]
    /\ \A p \in Files : spent'[p] >= spent[p]
    /\ Cost(selected') + remaining' = Cost(selected) + remaining
    /\ coreUsed' - coreUsed = Cost(selected') - Cost(selected)
    /\ Range(selected) \subseteq Range(selected')
    /\ \A f \in Range(selected') : f \in Range(selected) \/ f.path \in Paths
    /\ satisfied \subseteq satisfied'
    /\ \A d \in satisfied' : d \in satisfied \/ \E g \in Range(selected') : Shows(g, d)

LEMMA CostIsNat ==
    ASSUME world \in Worlds, NEW s \in Seq(Placeable)
    PROVE  Cost(s) \in Nat
BY PlaceableIsSound, CostNat DEF Cost

LEMMA ServesKindly ==
    ASSUME Types, NEW c \in world.core, Serves(c)
    PROVE  Kindly
<1>1. Cost(selected) \in Nat /\ remaining \in 0 .. world.budget /\ world.budget \in Nat /\ coreUsed \in Nat
  BY CostIsNat, InputsAre DEF Types
<1>2. ASSUME NEW f, Placing(f), Stands(f, c), satisfied' = satisfied \union {c}
      PROVE  Kindly
  <2>1. /\ selected' \in Seq(Placeable)
        /\ Range(selected') = Range(selected) \union {f}
        /\ Cost(selected') = Cost(selected) + f.tokens
        /\ remaining' = remaining - f.tokens /\ remaining' \in 0 .. world.budget
        /\ coreUsed' = coreUsed + f.tokens /\ coreUsed' \in Nat
        /\ spent' \in [Files -> Nat]
        /\ \A p \in Files : spent'[p] >= spent[p]
    BY <1>2, Placed
  <2>2. f.tokens \in Nat /\ f.path \in Paths /\ Shows(f, c)
    BY <1>2, PlaceableIsSound DEF Stands, Sound, Paths, Types
  <2>3. satisfied' \subseteq world.core /\ satisfied \subseteq satisfied'
    BY <1>2 DEF Types
  <2>4. \A d \in satisfied' : d \in satisfied \/ \E g \in Range(selected') : Shows(g, d)
    BY <1>2, <2>1, <2>2
  <2>5. \A g \in Range(selected') : g \in Range(selected) \/ g.path \in Paths
    BY <2>1, <2>2
  <2>6. /\ Cost(selected') + remaining' = Cost(selected) + remaining
        /\ coreUsed' - coreUsed = Cost(selected') - Cost(selected)
        /\ remaining' <= remaining
    <3> DEFINE k == Cost(selected)  t == f.tokens
    <3>1. /\ k \in Nat /\ t \in Nat /\ remaining \in Nat /\ coreUsed \in Nat
          /\ Cost(selected') = k + t /\ remaining' = remaining - t /\ coreUsed' = coreUsed + t
      BY <1>1, <2>1, <2>2
    <3> HIDE DEF k, t
    <3>2. /\ Cost(selected') + remaining' = k + remaining
          /\ coreUsed' - coreUsed = Cost(selected') - k
          /\ remaining' <= remaining
      BY <3>1
    <3> QED BY <3>2 DEF k
  <2>7. Range(selected) \subseteq Range(selected')
    BY <2>1
  <2> QED BY <2>1, <2>3, <2>4, <2>5, <2>6, <2>7 DEF Kindly
<1>3. CASE Still /\ satisfied' \in {satisfied, satisfied \union {c}}
           /\ \A d \in satisfied' : d \in satisfied \/ \E g \in Range(selected) : Shows(g, d)
  <2>1. /\ selected' = selected /\ remaining' = remaining /\ coreUsed' = coreUsed /\ spent' = spent
    BY <1>3 DEF Still, placed
  <2>2. /\ selected' \in Seq(Placeable) /\ spent' \in [Files -> Nat] /\ satisfied' \subseteq world.core
        /\ satisfied \subseteq satisfied'
    BY <1>3, <2>1 DEF Types
  <2>3. \A p \in Files : spent'[p] >= spent[p]
    BY <2>1 DEF Types
  <2> QED BY <1>1, <1>3, <2>1, <2>2, <2>3 DEF Kindly
<1>4. CASE \E g \in Range(selected) : Shows(g, c) /\ satisfied' = satisfied \union {c} /\ Still
  BY <1>3, <1>4
<1> QED BY <1>2, <1>3, <1>4 DEF Serves

LEMMA TypesInit ==
    ASSUME Init
    PROVE  Types
<1>1. world \in Worlds /\ selected = <<>> /\ base = [selected |-> <<>>, remaining |-> 0, covered |-> {}]
  BY DEF Init
<1>2. selected \in Seq(Placeable) /\ base.selected \in Seq(Placeable) /\ base.remaining \in Nat
  BY <1>1
<1>3. remaining \in 0 .. world.budget
  BY <1>1, InputsAre DEF Init
<1> QED BY <1>1, <1>2, <1>3 DEF Types, Init, Early, Files

LEMMA CorePassStep ==
    ASSUME Types, Ledger, Floor \/ First \/ Sweep
    PROVE  Kindly
BY FloorServes, FirstServes, SweepServes, ServesKindly DEF Types

LEMMA TypesStep ==
    ASSUME Types, Ledger, [Next]_vars
    PROVE  Types'
<1>1. world' = world /\ Placeable' = Placeable /\ Files' = Files /\ Paths' = Paths
  BY WorldStays, SameWorld
<1> SUFFICES
      /\ pc' \in Early \union {"greedy", "done"}
      /\ files' \subseteq Paths /\ short' \subseteq Paths
      /\ todo' \subseteq world.core /\ satisfied' \subseteq world.core
      /\ skipped' \subseteq world.core /\ blocked' \subseteq skipped'
      /\ pc' = "sweep" => todo' \subseteq skipped' /\ round' \in {0, 1}
      /\ heap' \subseteq world.fragments /\ deferred' \subseteq world.fragments
      /\ selected' \in Seq(Placeable) /\ base'.selected \in Seq(Placeable)
      /\ remaining' \in 0 .. world.budget /\ base'.remaining \in Nat
      /\ coreUsed' \in Nat /\ spent' \in [Files -> Nat]
  BY <1>1 DEF Types
<1> USE DEF Types
<1>2. CASE UNCHANGED vars
  BY <1>2 DEF vars, placed, corePass, loop
<1>3. CASE Floor
  <2>1. Kindly
    BY <1>3, CorePassStep
  <2>2. files' \subseteq Paths /\ short' \subseteq Paths
    BY <1>3, FloorServes DEF Paths
  <2> QED BY <1>3, <2>1, <2>2 DEF Floor, loop, Kindly
<1>4. CASE FloorDone
  BY <1>4 DEF FloorDone, placed, corePass, loop, Early
<1>5. CASE First
  <2>1. Kindly
    BY <1>5, CorePassStep
  <2>2. todo' \subseteq todo /\ skipped \subseteq skipped' /\ skipped' \subseteq world.core
    BY <1>5, FirstServes
  <2> QED BY <1>5, <2>1, <2>2 DEF First, loop, Kindly
<1>6. CASE FirstDone
  BY <1>6 DEF FirstDone, StartTier, placed, loop, Early
<1>7. CASE Sweep
  <2>1. Kindly
    BY <1>7, CorePassStep
  <2>2. todo' \subseteq todo /\ blocked' \subseteq blocked \union todo
    BY <1>7, SweepServes
  <2>3. pc = "sweep"
    BY <1>7 DEF Sweep
  <2> QED BY <1>7, <2>1, <2>2, <2>3 DEF Sweep, loop, Kindly
<1>8. CASE SweepDone
  BY <1>8 DEF SweepDone, placed, loop, Early
<1>9. CASE Upgrade
  <2>1. selected' \in Seq(Placeable) /\ remaining' \in 0 .. world.budget /\ todo' \subseteq todo
    BY <1>9, UpgradeServes DEF Replaces
  <2>2. pc = "upgrade"
    BY <1>9 DEF Upgrade
  <2> QED BY <1>9, <2>1, <2>2 DEF Upgrade, loop
<1>10. CASE UpgradeDone
  <2>1. [p \in DOMAIN spent |-> Total(p)] \in [Files -> Nat]
    BY CostNat, PlaceableIsSound DEF Total
  <2>2. world.core \subseteq world.fragments /\ world.budget \in Nat
    BY InputsAre
  <2>3. CASE StartTier(Lowest({t \in Tiers : t > tier})) /\ UNCHANGED <<spent, loop>>
    BY <1>10, <2>3 DEF UpgradeDone, StartTier, loop, Early
  <2>4. CASE pc' = "done" /\ UNCHANGED <<todo, blocked, tier, round, spent, heap, deferred, ceiling, base>>
    BY <1>10, <2>4 DEF UpgradeDone
  <2>5. CASE /\ pc' = "greedy"
             /\ heap' \subseteq Candidates
             /\ spent' = [p \in DOMAIN spent |-> Total(p)]
             /\ base' = [selected |-> selected, remaining |-> remaining, covered |-> covered]
             /\ UNCHANGED <<todo, blocked, tier, round, deferred, ceiling, used>>
    BY <1>10, <2>1, <2>2, <2>5 DEF UpgradeDone, Candidates
  <2>6. ASSUME NEW free, free \subseteq Candidates, heap' \in {{}, {f \in free : ~Redundant(f, free)}}
        PROVE  heap' \subseteq Candidates
    BY <2>6
  <2> QED BY <1>10, <2>3, <2>4, <2>5, <2>6 DEF UpgradeDone
<1>11. CASE Take
  <2>1. /\ selected' \in Seq(Placeable) /\ remaining' \in 0 .. world.budget
        /\ coreUsed' \in Nat /\ spent' \in [Files -> Nat]
        /\ heap' \subseteq world.fragments /\ deferred' \subseteq world.fragments
    BY <1>11, TakeServes, Placed DEF Still, placed
  <2> QED BY <1>11, <2>1 DEF Take, corePass
<1>12. CASE LiftCeiling
  BY <1>12 DEF LiftCeiling, placed, corePass
<1>13. CASE Compare
  <2>1. world.fragments \subseteq Placeable
    BY DEF Placeable
  <2>2. selected' \in Seq(Placeable)
    <3>1. CASE selected' = selected
      BY <3>1
    <3>2. ASSUME NEW f \in world.fragments, selected' = Append(base.selected, f)
          PROVE  selected' \in Seq(Placeable)
      BY <2>1, <3>2
    <3> QED BY <1>13, <3>1, <3>2, CompareAnswers
  <2> QED BY <1>13, <2>2 DEF Compare, corePass
<1> QED BY <1>2, <1>3, <1>4, <1>5, <1>6, <1>7, <1>8, <1>9, <1>10, <1>11, <1>12, <1>13 DEF Next

\* The steps that place nothing.
LEMMA Unplaced ==
    ASSUME FloorDone \/ FirstDone \/ SweepDone \/ LiftCeiling
    PROVE  UNCHANGED <<selected, remaining, coreUsed, satisfied, base, used, short>>
BY DEF FloorDone, FirstDone, SweepDone, LiftCeiling, placed, corePass, loop

LEMMA LedgerStep ==
    ASSUME Types, Ledger, [Next]_vars
    PROVE  Ledger'
<1>1. world' = world
  BY WorldStays
<1> SUFFICES
      /\ pc' # "done" => Cost(selected') = world.budget - remaining'
      /\ pc' \in {"floor", "first"} => coreUsed' = Cost(selected')
      /\ pc' = "done" => used' = Cost(selected') /\ used' <= world.budget
      /\ pc' \in Early => base'.remaining = 0
      /\ pc' = "greedy" => /\ Cost(base'.selected) + base'.remaining = world.budget
                           /\ Range(base'.selected) \subseteq Range(selected')
      /\ pc' = "done" => base'.remaining = 0 \/ Range(base'.selected) \subseteq Range(selected')
  BY <1>1 DEF Ledger
<1>0. /\ Cost(selected) \in Nat /\ Cost(base.selected) \in Nat /\ remaining \in Nat
      /\ base.remaining \in Nat /\ world.budget \in Nat /\ coreUsed \in Nat
      /\ remaining <= world.budget
  BY CostIsNat, InputsAre DEF Types
<1>2. CASE UNCHANGED vars
  BY <1>2 DEF vars, placed, loop, Ledger
<1>3. CASE Floor \/ First \/ Sweep
  <2>1. Kindly
    BY <1>3, CorePassStep
  <2>2. /\ pc \in {"floor", "first", "sweep"} /\ pc' = pc /\ base' = base
        /\ Cost(selected) = world.budget - remaining /\ base.remaining = 0
    BY <1>3 DEF Floor, First, Sweep, loop, Ledger, Early
  <2>3. /\ Cost(selected') \in Nat /\ remaining' \in Nat /\ coreUsed' \in Nat
        /\ Cost(selected') + remaining' = Cost(selected) + remaining
        /\ coreUsed' - coreUsed = Cost(selected') - Cost(selected)
    BY <2>1, CostIsNat, <1>0 DEF Kindly, Types
  <2>4. Cost(selected') = world.budget - remaining'
    BY <1>0, <2>2, <2>3
  <2>5. pc \in {"floor", "first"} => coreUsed' = Cost(selected')
    <3>1. pc \in {"floor", "first"} => coreUsed = Cost(selected)
      BY DEF Ledger
    <3>2. coreUsed = Cost(selected) => coreUsed' = Cost(selected')
      BY <1>0, <2>3
    <3> QED BY <3>1, <3>2
  <2> QED BY <2>2, <2>4, <2>5
<1>4. CASE FloorDone \/ FirstDone \/ SweepDone \/ LiftCeiling
  <2>1. /\ selected' = selected /\ remaining' = remaining /\ coreUsed' = coreUsed /\ base' = base
    BY <1>4, Unplaced
  <2>2. \/ pc = "floor" /\ pc' = "first"
        \/ pc \in Early /\ pc' \in {"sweep", "upgrade"}
        \/ pc = "greedy" /\ pc' = "greedy"
    BY <1>4 DEF FloorDone, FirstDone, SweepDone, LiftCeiling, StartTier, Early
  <2> QED BY <2>1, <2>2 DEF Ledger, Early
<1>5. CASE Upgrade
  <2>1. /\ pc = "upgrade" /\ pc' = "upgrade" /\ base' = base
        /\ Cost(selected) = world.budget - remaining /\ base.remaining = 0
    BY <1>5 DEF Upgrade, loop, Ledger, Early
  <2>2. /\ remaining' \in Nat /\ selected' \in Seq(Placeable)
        /\ Cost(selected') + remaining' = Cost(selected) + remaining
    BY <1>5, UpgradeServes, InputsAre DEF Replaces, Types
  <2>3. Cost(selected') \in Nat
    BY <2>2, CostIsNat DEF Types
  <2>4. Cost(selected') = world.budget - remaining'
    BY <1>0, <2>1, <2>2, <2>3
  <2> QED BY <2>1, <2>4
<1>6. CASE UpgradeDone
  <2>1. /\ pc = "upgrade" /\ selected' = selected /\ remaining' = remaining
        /\ Cost(selected) = world.budget - remaining /\ base.remaining = 0
    BY <1>6 DEF UpgradeDone, Ledger, Early
  <2>2. CASE pc' = "sweep" /\ base' = base
    BY <2>1, <2>2
  <2>3. CASE pc' = "done" /\ remaining = 0 /\ used' = world.budget /\ base' = base
    BY <1>0, <2>1, <2>3 DEF Early
  <2>4. CASE pc' = "greedy" /\ base' = [selected |-> selected, remaining |-> remaining, covered |-> covered]
    BY <1>0, <2>1, <2>4 DEF Early
  <2> QED BY <1>6, <2>2, <2>3, <2>4 DEF UpgradeDone, StartTier, loop
<1>7. CASE Take
  <2>1. /\ pc = "greedy" /\ pc' = "greedy" /\ base' = base
        /\ Cost(selected) = world.budget - remaining
    BY <1>7 DEF Take, Ledger
  <2>2. CASE Still
    BY <2>1, <2>2 DEF Still, placed, Ledger, Early
  <2>3. ASSUME NEW f, Placing(f)
        PROVE  Cost(selected') = world.budget - remaining' /\ Range(selected) \subseteq Range(selected')
    <3>1. /\ Cost(selected') = Cost(selected) + f.tokens /\ remaining' = remaining - f.tokens
          /\ Range(selected') = Range(selected) \union {f} /\ f.tokens \in Nat
      BY <2>3, Placed, PlaceableIsSound DEF Placing, Sound, Types
    <3>2. Cost(selected') = world.budget - remaining'
      BY <1>0, <2>1, <3>1
    <3> QED BY <3>1, <3>2
  <2>4. CASE Cost(selected') = world.budget - remaining' /\ Range(selected) \subseteq Range(selected')
    BY <2>1, <2>4 DEF Ledger, Early
  <2> QED BY <1>7, <2>2, <2>3, <2>4, TakeServes
<1>8. CASE Compare
  <2>1. /\ pc = "greedy" /\ pc' = "done" /\ base' = base
        /\ Cost(selected) = world.budget - remaining
        /\ Cost(base.selected) + base.remaining = world.budget
        /\ Range(base.selected) \subseteq Range(selected)
    BY <1>8, CompareAnswers DEF Compare, Ledger
  <2>2. CASE selected' = selected /\ used' = world.budget - remaining
    BY <1>0, <2>1, <2>2 DEF Early
  <2>3. ASSUME NEW f \in world.fragments, f.tokens <= base.remaining,
               selected' = Append(base.selected, f), used' = Cost(selected')
        PROVE  used' <= world.budget /\ Range(base.selected) \subseteq Range(selected')
    <3>1. f \in Placeable /\ base.selected \in Seq(Placeable) /\ f.tokens \in Nat /\ Priced(Placeable)
      BY PlaceableIsSound DEF Placeable, Types, Sound
    <3>2. Cost(selected') = Cost(base.selected) + f.tokens
      BY <2>3, <3>1, CostAppend
    <3>3. Range(selected') = Range(base.selected) \union {f}
      BY <2>3, <3>1, RangeAppend
    <3>4. used' <= world.budget
      BY <1>0, <2>1, <2>3, <3>1, <3>2
    <3> QED BY <3>3, <3>4
  <2>4. CASE used' = Cost(selected') /\ used' <= world.budget /\ Range(base.selected) \subseteq Range(selected')
    BY <2>1, <2>4 DEF Early
  <2> QED BY <1>8, <2>2, <2>3, <2>4, CompareAnswers
<1> QED BY <1>2, <1>3, <1>4, <1>5, <1>6, <1>7, <1>8 DEF Next

LEMMA AdmittedStep ==
    ASSUME Types, Ledger, OnlyAdmitted, [Next]_vars
    PROVE  OnlyAdmitted'
<1> DEFINE Admitted(fragments) ==
             \A f \in fragments : f.path \in Paths \union world.admissible \union world.declared
<1>1. world' = world /\ Paths' = Paths
  BY WorldStays, SameWorld
<1>2. Admitted(Range(selected))
  BY DEF OnlyAdmitted, Opened
<1> SUFFICES Admitted(Range(selected'))
  BY <1>1 DEF OnlyAdmitted, Opened
<1>3. CASE UNCHANGED vars
  BY <1>2, <1>3 DEF vars, placed
<1>4. CASE Floor \/ First \/ Sweep
  BY <1>2, <1>4, CorePassStep DEF Kindly
<1>5. CASE FloorDone \/ FirstDone \/ SweepDone \/ LiftCeiling
  BY <1>2, <1>5, Unplaced
<1>6. CASE Upgrade
  <2>1. ASSUME NEW c \in todo, Replaces(Offered(c)) PROVE Admitted(Range(selected'))
    <3>1. Offered(c).path \in Paths
      BY OfferedStands DEF Types, Stands, Paths
    <3> QED BY <1>2, <2>1, <3>1 DEF Replaces
  <2> QED BY <1>2, <1>6, <2>1, UpgradeServes
<1>7. CASE UpgradeDone
  BY <1>2, <1>7 DEF UpgradeDone
<1>8. CASE Take
  <2>1. CASE Still
    BY <1>2, <2>1 DEF Still, placed
  <2>2. ASSUME NEW f, Placing(f), f.path \in Opened(selected) \union world.admissible
        PROVE  Admitted(Range(selected'))
    <3>1. Range(selected') = Range(selected) \union {f}
      BY <2>2, Placed
    <3>2. f.path \in Paths \union world.admissible \union world.declared
      BY <1>2, <2>2 DEF Opened
    <3> QED BY <1>2, <3>1, <3>2
  <2> QED BY <1>8, <2>1, <2>2, TakeServes
<1>9. CASE Compare
  <2>1. Range(base.selected) \subseteq Range(selected)
    BY <1>9, CompareAnswers DEF Ledger
  <2>2. ASSUME NEW f \in world.fragments, f.path \in Opened(base.selected) \union world.declared,
               selected' = Append(base.selected, f)
        PROVE  Admitted(Range(selected'))
    <3>1. Range(selected') = Range(base.selected) \union {f}
      BY <2>2, RangeAppend DEF Types
    <3>2. f.path \in Paths \union world.admissible \union world.declared
      BY <1>2, <2>1, <2>2 DEF Opened
    <3> QED BY <1>2, <2>1, <3>1, <3>2
  <2> QED BY <1>2, <1>9, <2>2, CompareAnswers
<1> QED BY <1>3, <1>4, <1>5, <1>6, <1>7, <1>8, <1>9 DEF Next

\* f shows some of the change in the file p.
Touches(f, p) ==
    f.path = p /\ \E c \in world.core : c.path = p /\ f.start <= c.end /\ c.start <= f.end

LEMMA BodyTouches ==
    ASSUME Types, NEW f \in Range(selected), NEW body \in Placeable, Absorbed(f, body),
           NEW p, Touches(f, p)
    PROVE  Touches(body, p)
<1>1. Sound(f) /\ Sound(body)
  BY PlaceableIsSound DEF Types, Range
<1>2. PICK c \in world.core : c.path = p /\ f.start <= c.end /\ c.start <= f.end
  BY DEF Touches
<1>3. Sound(c)
  BY InputsAre DEF Types
<1>4. f.path = body.path /\ body.start <= f.start /\ f.end <= body.end /\ f.path = p
  BY DEF Absorbed, Inside, Touches
<1>5. body.start <= c.end /\ c.start <= body.end
  BY <1>1, <1>2, <1>3, <1>4 DEF Sound
<1> QED BY <1>2, <1>4, <1>5 DEF Touches

LEMMA BodyShows ==
    ASSUME Types, NEW f \in Range(selected), NEW d \in world.core, Absorbed(f, Offered(d)),
           NEW c \in world.core, Shows(f, c)
    PROVE  Shows(Offered(d), c)
<1> DEFINE body == Offered(d)
<1>1. Sound(f) /\ Sound(body) /\ Sound(c)
  BY OfferedStands, InputsAre, PlaceableIsSound DEF Types, Range, Stands
<1>2. f.path = body.path /\ body.start <= f.start /\ f.end <= body.end
  BY DEF Absorbed, Inside
<1>3. ASSUME NEW g \in {c, Offered(c)} \union Substitutes(c), Inside(g, f)
      PROVE  Inside(g, body)
  <2>1. Sound(g)
    BY <1>1, OfferedStands, SubstitutesStand, PlaceableIsSound DEF Types, Stands
  <2> HIDE DEF body
  <2> QED BY <1>1, <1>2, <1>3, <2>1 DEF Inside, Sound
<1>4. CASE f.path = c.path /\ f.start <= c.start /\ c.start <= f.end
  <2>1. body.path = c.path /\ body.start <= c.start /\ c.start <= body.end
    <3> HIDE DEF body
    <3> QED BY <1>1, <1>2, <1>4 DEF Sound
  <2> QED BY <2>1 DEF Shows
<1> QED BY <1>3, <1>4 DEF Shows

LEMMA WitnessedStep ==
    ASSUME Types, Ledger, Witnessed, [Next]_vars
    PROVE  Witnessed'
<1> DEFINE Shows1(fragments, paths, none) ==
             \A p \in paths : p \in none \/ \E f \in fragments : Touches(f, p)
<1>1. world' = world /\ Paths' = Paths
  BY WorldStays, SameWorld
<1>2. /\ Shows1(Range(selected), Paths \ files, short)
      /\ pc = "greedy" => Shows1(Range(base.selected), Paths \ files, short)
  BY DEF Witnessed, Witness, Touches
<1> SUFFICES
      /\ Shows1(Range(selected'), Paths \ files', short')
      /\ pc' = "greedy" => Shows1(Range(base'.selected), Paths \ files', short')
  BY <1>1 DEF Witnessed, Witness, Touches
<1>3. CASE UNCHANGED vars
  BY <1>2, <1>3 DEF vars, placed, corePass, loop
<1>4. CASE Floor
  <2>1. pc' = "floor" /\ Kindly
    BY <1>4, CorePassStep DEF Floor
  <2>2. PICK c \in world.core :
          /\ files' = files \ {c.path}
          /\ \/ short' = short /\ \E f : Placing(f) /\ Stands(f, c)
             \/ short' = short \union {c.path}
    BY <1>4, FloorServes
  <2>3. ASSUME NEW f, Placing(f), Stands(f, c) PROVE Touches(f, c.path) /\ f \in Range(selected')
    BY <2>3, Placed DEF Stands, Touches
  <2>4. c.path \in short' \/ \E f \in Range(selected') : Touches(f, c.path)
    BY <2>2, <2>3
  <2>5. short \subseteq short' /\ Range(selected) \subseteq Range(selected')
    BY <2>1, <2>2 DEF Kindly
  <2>6. ASSUME NEW p \in Paths \ files' PROVE p \in short' \/ \E f \in Range(selected') : Touches(f, p)
    <3>1. p = c.path \/ p \in Paths \ files
      BY <2>2
    <3> QED BY <1>2, <2>4, <2>5, <3>1
  <2> QED BY <2>1, <2>6
<1>5. CASE First \/ Sweep
  <2>1. Range(selected) \subseteq Range(selected')
    BY <1>5, CorePassStep DEF Kindly
  <2>2. files' = files /\ short' = short /\ pc' # "greedy"
    BY <1>5 DEF First, Sweep
  <2> QED BY <1>2, <2>1, <2>2
<1>6. CASE FloorDone \/ FirstDone \/ SweepDone \/ LiftCeiling
  <2>1. UNCHANGED <<files, short, selected, base>> /\ (pc' = "greedy" => pc = "greedy")
    BY <1>6, Unplaced DEF FloorDone, FirstDone, SweepDone, LiftCeiling, StartTier
  <2> QED BY <1>2, <2>1
<1>7. CASE Upgrade
  <2>1. files' = files /\ short' = short /\ pc' # "greedy"
    BY <1>7 DEF Upgrade
  <2>2. ASSUME NEW c \in todo, Replaces(Offered(c)),
               NEW p, NEW f \in Range(selected), Touches(f, p)
        PROVE  \E g \in Range(selected') : Touches(g, p)
    <3>1. Offered(c) \in Placeable
      BY OfferedStands DEF Types, Stands
    <3>2. CASE Absorbed(f, Offered(c))
      BY <2>2, <3>1, <3>2, BodyTouches DEF Replaces
    <3>3. CASE ~Absorbed(f, Offered(c))
      BY <2>2, <3>3 DEF Replaces
    <3> QED BY <3>2, <3>3
  <2>3. ASSUME NEW p, NEW f \in Range(selected), Touches(f, p)
        PROVE  \E g \in Range(selected') : Touches(g, p)
    BY <1>7, <2>2, <2>3, UpgradeServes
  <2> QED BY <1>2, <2>1, <2>3
<1>8. CASE UpgradeDone
  BY <1>2, <1>8 DEF UpgradeDone, StartTier, loop
<1>9. CASE Take
  <2>1. Range(selected) \subseteq Range(selected')
    BY <1>9, TakeServes, Placed DEF Still, placed
  <2>2. files' = files /\ short' = short /\ base' = base /\ pc = "greedy"
    BY <1>9 DEF Take, corePass
  <2> QED BY <1>2, <2>1, <2>2
<1>10. CASE Compare
  <2>1. files' = files /\ short' = short /\ pc = "greedy" /\ pc' = "done"
    BY <1>10 DEF Compare, corePass
  <2>2. selected' = selected \/ Range(base.selected) \subseteq Range(selected')
    BY <1>10, CompareAnswers, RangeAppend DEF Types
  <2> QED BY <1>2, <2>1, <2>2
<1> QED BY <1>3, <1>4, <1>5, <1>6, <1>7, <1>8, <1>9, <1>10 DEF Next

LEMMA RepresentedStep ==
    ASSUME Types, Ledger, Represented, [Next]_vars
    PROVE  Represented'
<1> DEFINE All1(cores, fragments) == \A c \in cores : \E f \in fragments : Shows(f, c)
<1>1. world' = world /\ \A f, c : Shows(f, c)' <=> Shows(f, c)
  BY WorldStays, SameWorld
<1>2. /\ All1(satisfied, Range(selected))
      /\ pc = "greedy" => All1(satisfied, Range(base.selected))
  BY DEF Represented, Shown
<1> SUFFICES
      /\ All1(satisfied', Range(selected'))
      /\ pc' = "greedy" => All1(satisfied', Range(base'.selected))
  BY <1>1 DEF Represented, Shown
<1>3. CASE UNCHANGED vars
  BY <1>2, <1>3 DEF vars, placed, corePass, loop
<1>4. CASE Floor \/ First \/ Sweep
  <2>1. Kindly
    BY <1>4, CorePassStep
  <2>2. pc' # "greedy"
    BY <1>4 DEF Floor, First, Sweep
  <2>3. ASSUME NEW d \in satisfied' PROVE \E g \in Range(selected') : Shows(g, d)
    BY <1>2, <2>1 DEF Kindly
  <2> QED BY <2>2, <2>3
<1>5. CASE FloorDone \/ FirstDone \/ SweepDone \/ LiftCeiling
  <2>1. UNCHANGED <<satisfied, selected, base>> /\ (pc' = "greedy" => pc = "greedy")
    BY <1>5, Unplaced DEF FloorDone, FirstDone, SweepDone, LiftCeiling, StartTier
  <2> QED BY <1>2, <2>1
<1>6. CASE Upgrade
  <2>1. satisfied' = satisfied /\ pc' # "greedy"
    BY <1>6 DEF Upgrade
  <2>2. ASSUME NEW d \in todo, Replaces(Offered(d)),
               NEW c \in satisfied, NEW f \in Range(selected), Shows(f, c)
        PROVE  \E g \in Range(selected') : Shows(g, c)
    <3>1. c \in world.core /\ d \in world.core
      BY DEF Types
    <3>2. CASE Absorbed(f, Offered(d))
      <4>1. Shows(Offered(d), c)
        BY <2>2, <3>1, <3>2, BodyShows
      <4> QED BY <2>2, <4>1 DEF Replaces
    <3>3. CASE ~Absorbed(f, Offered(d))
      BY <2>2, <3>3 DEF Replaces
    <3> QED BY <3>2, <3>3
  <2>3. ASSUME NEW c \in satisfied, NEW f \in Range(selected), Shows(f, c)
        PROVE  \E g \in Range(selected') : Shows(g, c)
    BY <1>6, <2>2, <2>3, UpgradeServes
  <2> QED BY <1>2, <2>1, <2>3
<1>7. CASE UpgradeDone
  BY <1>2, <1>7 DEF UpgradeDone, StartTier, loop
<1>8. CASE Take
  <2>1. Range(selected) \subseteq Range(selected')
    BY <1>8, TakeServes, Placed DEF Still, placed
  <2>2. satisfied' = satisfied /\ base' = base /\ pc = "greedy"
    BY <1>8 DEF Take, corePass
  <2> QED BY <1>2, <2>1, <2>2
<1>9. CASE Compare
  <2>1. satisfied' = satisfied /\ pc = "greedy" /\ pc' = "done"
    BY <1>9 DEF Compare, corePass
  <2>2. selected' = selected \/ Range(base.selected) \subseteq Range(selected')
    BY <1>9, CompareAnswers, RangeAppend DEF Types
  <2> QED BY <1>2, <2>1, <2>2
<1> QED BY <1>3, <1>4, <1>5, <1>6, <1>7, <1>8, <1>9 DEF Next

LEMMA CeilingStep ==
    ASSUME Types, Ledger, Ceiling, [Next]_vars
    PROVE  Ceiling'
<1> DEFINE After(c) == Offered(c).tokens > remaining' \/ spent'[c.path] + Offered(c).tokens > FileCeiling
<1>1. /\ world' = world /\ FileCeiling' = FileCeiling
      /\ \A c : Offered(c)' = Offered(c)
      /\ \A c : Tier(c)' = Tier(c)
  BY WorldStays, SameWorld
<1> SUFFICES ASSUME pc' = "sweep",
                    NEW c \in skipped' \ satisfied', Tier(c) = tier', round' = 1 \/ c \notin todo'
             PROVE  After(c)
  BY <1>1 DEF Ceiling
<1>2. pc = "sweep" => \A d \in skipped \ satisfied :
         Tier(d) = tier /\ (round = 1 \/ d \notin todo) => Passed(d)
  BY DEF Ceiling, Passed
<1>3. CASE UNCHANGED vars
  BY <1>2, <1>3 DEF vars, placed, corePass, Passed
<1>4. CASE Sweep
  <2>1. /\ skipped' = skipped /\ tier' = tier /\ round' = round /\ pc = "sweep" /\ satisfied \subseteq satisfied'
    BY <1>4, CorePassStep DEF Sweep, Kindly
  <2>2. PICK d \in todo : todo' = todo \ {d} /\ (d \in satisfied' \/ Passed(d))
    BY <1>4, SweepServes
  <2>3. Passed(c)
    BY <1>2, <2>1, <2>2
  <2>4. /\ remaining' \in Nat /\ remaining \in Nat /\ remaining' <= remaining
        /\ c.path \in Files /\ spent \in [Files -> Nat] /\ spent' \in [Files -> Nat]
        /\ spent'[c.path] >= spent[c.path]
        /\ Offered(c).tokens \in Nat /\ FileCeiling \in Nat
    <3>1. Kindly /\ c \in world.core /\ world \in Worlds
      BY <1>4, <2>1, CorePassStep DEF Types
    <3>2. c.path \in Files /\ Offered(c).tokens \in Nat
      BY <3>1, OfferedStands, PlaceableIsSound DEF Stands, Sound
    <3> QED BY <3>1, <3>2, BudgetNat DEF Kindly, Types
  <2> QED BY <2>3, <2>4 DEF Passed
<1>5. CASE FirstDone
  BY <1>5 DEF FirstDone, StartTier
<1>6. CASE SweepDone
  <2>1. /\ pc = "sweep" /\ round = 0 /\ tier' = tier /\ (todo = {} \/ remaining = 0)
        /\ skipped' = skipped /\ satisfied' = satisfied /\ remaining' = remaining /\ spent' = spent
    BY <1>6 DEF SweepDone, placed
  <2>2. CASE todo = {}
    BY <1>2, <2>1, <2>2 DEF Passed
  <2>3. CASE remaining = 0
    <3>1. c \in world.core /\ world \in Worlds
      BY <2>1 DEF Types
    <3>2. Offered(c).tokens \in Nat /\ Offered(c).tokens > 0
      BY <3>1, OfferedStands, PlaceableIsSound DEF Stands, Sound
    <3> QED BY <2>1, <2>3, <3>2
  <2> QED BY <2>1, <2>2, <2>3
<1>7. CASE UpgradeDone
  BY <1>7 DEF UpgradeDone, StartTier
<1>8. CASE Floor \/ FloorDone \/ First \/ Upgrade \/ Take \/ LiftCeiling \/ Compare
  BY <1>8 DEF Floor, FloorDone, First, Upgrade, Take, LiftCeiling, Compare
<1> QED BY <1>3, <1>4, <1>5, <1>6, <1>7, <1>8 DEF Next

LEMMA SelectionStep ==
    ASSUME Selection, [Next]_vars
    PROVE  Selection'
BY TypesStep, LedgerStep, AdmittedStep, WitnessedStep, RepresentedStep, CeilingStep DEF Selection

LEMMA SelectionInit ==
    ASSUME Init
    PROVE  Selection
<1>1. Types
  BY TypesInit
<1>2. selected = <<>> /\ base.remaining = 0 /\ pc = "floor" /\ remaining = world.budget /\ coreUsed = 0
      /\ files = Paths /\ satisfied = {}
  BY DEF Init
<1>3. world.budget \in Nat
  BY <1>1, InputsAre DEF Types
<1>4. Ledger
  BY <1>2, <1>3, CostEmpty DEF Ledger
<1>5. Range(selected) = {}
  BY <1>2 DEF Range
<1>6. OnlyAdmitted /\ Witnessed /\ Represented /\ Ceiling
  BY <1>2, <1>5 DEF OnlyAdmitted, Opened, Witnessed, Witness, Represented, Shown, Ceiling
<1> QED BY <1>1, <1>4, <1>6 DEF Selection

\* What a step of the sweep may not do.
LEMMA SweepYields ==
    ASSUME Types, Ceiling, [Next]_vars, pc = "sweep", NEW p \in DOMAIN spent, PastShare(p),
           NEW c \in skipped \ satisfied
    PROVE  ~Waits(c, p)
<1>1. /\ spent \in [Files -> Nat] /\ FileCeiling \in Nat /\ p \in Files /\ round \in {0, 1}
  BY BudgetNat DEF Types
<1>2. spent'[p] > spent[p] /\ spent[p] > 0 /\ spent'[p] > FileCeiling
  BY DEF PastShare
<1>3. Sweep
  <2>1. CASE UNCHANGED vars \/ SweepDone
    <3>1. spent' = spent
      BY <2>1 DEF vars, placed, SweepDone
    <3> QED BY <1>1, <1>2, <3>1
  <2> QED BY <2>1 DEF Next, Floor, FloorDone, First, FirstDone, Upgrade, UpgradeDone, Take,
                      LiftCeiling, Compare
<1>4. PICK f : Placing(f) /\ ~Deferred(f)
  <2>1. ~Still
    BY <1>1, <1>2 DEF Still, placed
  <2> QED BY <1>3, <2>1, SweepServes
<1>5. /\ spent' = [spent EXCEPT ![f.path] = @ + f.tokens]
      /\ f.path \in Files /\ f.tokens \in Nat
  BY <1>4, Placed, PlaceableIsSound DEF Placing, Types, Sound
<1>6. f.path = p /\ spent'[p] = spent[p] + f.tokens
  BY <1>1, <1>2, <1>5
<1>7. OverCeiling(f)
  BY <1>2, <1>6 DEF OverCeiling
<1>8. round = 1
  BY <1>1, <1>4, <1>7 DEF Deferred
<1>9. SUFFICES ASSUME Tier(c) = tier, Offered(c).tokens <= remaining,
                      spent[c.path] + Offered(c).tokens <= FileCeiling
               PROVE  FALSE
  BY DEF Waits
<1>10. Offered(c).tokens > remaining \/ spent[c.path] + Offered(c).tokens > FileCeiling
  BY <1>8, <1>9 DEF Ceiling
<1>11. Offered(c).tokens \in Nat /\ remaining \in Nat /\ c.path \in Files
  <2>1. c \in world.core /\ world \in Worlds
    BY DEF Types
  <2> QED BY <2>1, OfferedStands, PlaceableIsSound DEF Stands, Sound, Types
<1> QED BY <1>1, <1>9, <1>10, <1>11

(***************************************************************************)
(* The passes after the selection                                          *)
(***************************************************************************)

Showable == Placeable \union world.others \union {world.whole[p] : p \in DOMAIN world.whole}

Stages ==
    /\ stage \in {"select", "coherence", "rescue", "represent", "answer"}
    /\ stage # "select" => pc = "done"
    /\ shown \in Seq(Showable) /\ left \in Nat
    /\ queue \subseteq All /\ missing \subseteq world.changedFiles
    /\ stage = "select" => shown = <<>>
    /\ stage # "select" => Range(selected) \subseteq Range(shown)
    /\ stage = "coherence" => opened = Opened(selected)
    /\ stage = "answer" => missing = {}

\* The rescue may spend a share of what is left, the other passes all of it.
Remains ==
    /\ stage = "rescue" => Cost(shown) + left <= world.budget
    /\ stage \in {"coherence", "represent", "answer"} => Cost(shown) + left = world.budget

\* What opens a file, pass by pass, unless the selection is all changed files.
Reached ==
    \/ stage = "select"
    \/ Opened(selected) \subseteq Paths
    \/ /\ stage = "rescue" => \A f \in queue : f.path \in world.admissible
       /\ Opened(shown) \subseteq Opened(selected) \union world.admissible
            \union IF stage \in {"represent", "answer"} THEN world.changedFiles ELSE {}

\* A changed file that was looked at and is not open has nothing that fits.
Looked ==
    stage \in {"represent", "answer"} =>
        \A p \in world.changedFiles \ (missing \union Opened(shown)) :
            \A f \in Fragments(p) : f.tokens > left

Noted == stage = "answer" => (limited <=> \E p \in world.changedFiles : Unrepresented(p))

Composed == Selection /\ Stages /\ Remains /\ Reached /\ Looked /\ Noted

-----------------------------------------------------------------------------
(* What the passes have in common *)

Kept1 == UNCHANGED <<shown, left>>
Extends(f) == f \in Showable /\ f.tokens <= left /\ Show(f)

LEMMA ShowableIsSound ==
    ASSUME world \in Worlds
    PROVE  (\A f \in Showable : Sound(f)) /\ Priced(Showable)
<1>1. ASSUME NEW f \in Showable PROVE Sound(f)
  <2>1. CASE f \in Placeable
    BY <2>1, PlaceableIsSound
  <2>2. CASE f \in world.others \union {world.whole[p] : p \in DOMAIN world.whole}
    BY <2>2, Rest DEF Sound
  <2> QED BY <2>1, <2>2 DEF Showable
<1> QED BY <1>1 DEF Priced, Sound

LEMMA AllIsShowable == All \subseteq Showable
BY DEF All, Showable, Placeable

LEMMA FragmentsAre ==
    ASSUME world \in Worlds, NEW p, NEW f \in Fragments(p)
    PROVE  f \in Showable /\ f.path = p
<1> DEFINE some == {g \in All \union {world.excerpt[c] : c \in DOMAIN world.excerpt} : g.path = p}
<1>1. f \in some \/ (p \in DOMAIN world.whole /\ f = world.whole[p])
  BY DEF Fragments
<1>2. CASE f \in some
  BY <1>2, AllIsShowable DEF Showable, Placeable
<1>3. CASE p \in DOMAIN world.whole /\ f = world.whole[p]
  BY <1>3, Rest DEF Showable
<1> QED BY <1>1, <1>2, <1>3

\* What is added costs the rest of the budget as much.
Adds(f) ==
    /\ shown' \in Seq(Showable)
    /\ Range(shown') = Range(shown) \union {f}
    /\ left' \in Nat /\ left' <= left
    /\ Cost(shown') + left' = Cost(shown) + left
    /\ Opened(shown') = Opened(shown) \union {f.path}

LEMMA ExtendsAdds ==
    ASSUME Types, Stages, NEW f, Extends(f)
    PROVE  Adds(f)
<1>1. shown \in Seq(Showable) /\ f \in Showable /\ f.tokens \in Nat /\ left \in Nat /\ Priced(Showable)
  BY ShowableIsSound DEF Types, Stages, Extends, Sound
<1>2. shown' = Append(shown, f) /\ left' = left - f.tokens /\ f.tokens <= left
  BY DEF Extends, Show
<1>3. shown' \in Seq(Showable) /\ left' \in Nat /\ left' <= left
  BY <1>1, <1>2
<1>4. Range(shown') = Range(shown) \union {f}
  BY <1>1, <1>2, RangeAppend
<1>5. Cost(shown') = Cost(shown) + f.tokens /\ Cost(shown) \in Nat
  BY <1>1, <1>2, CostAppend, CostNat DEF Cost
<1>6. Cost(shown') + left' = Cost(shown) + left
  BY <1>1, <1>2, <1>5
<1>7. Opened(shown') = Opened(shown) \union {f.path}
  BY <1>4 DEF Opened
<1> QED BY <1>3, <1>4, <1>6, <1>7 DEF Adds

LEMMA DefineAdds ==
    ASSUME Types, Stages, Define
    PROVE  Kept1 \/ \E g : Adds(g) /\ g.path \in opened \union world.admissible
<1>1. SUFFICES ASSUME NEW name, NEW g \in Definitions(name), Coherent(g), Show(g)
               PROVE  Adds(g) /\ g.path \in opened \union world.admissible
  BY DEF Define, Kept1
<1>2. g \in world.fragments
  BY DEF Definitions
<1>3. Extends(g)
  BY <1>1, <1>2 DEF Extends, Coherent, Showable, Placeable
<1> QED BY <1>1, <1>3, ExtendsAdds DEF Coherent

LEMMA ReachAdds ==
    ASSUME Types, Stages, Reach
    PROVE  \E f \in queue : queue' = queue \ {f} /\ (Kept1 \/ Adds(f))
<1>1. PICK f \in queue : queue' = queue \ {f} /\ IF Reaches(f) THEN Show(f) ELSE UNCHANGED <<shown, left>>
  BY DEF Reach
<1>2. CASE Reaches(f) /\ Show(f)
  <2>1. Extends(f)
    BY <1>2, AllIsShowable DEF Extends, Reaches, Stages
  <2> QED BY <1>1, <2>1, ExtendsAdds
<1> QED BY <1>1, <1>2 DEF Kept1

LEMMA PreferredIsThere ==
    ASSUME Types, Stages, NEW p, Fitting(p) # {}
    PROVE  Preferred(p) # {}
<1> DEFINE ranks == {Rank(f) : f \in Fitting(p)}
<1>1. ranks \subseteq Nat /\ ranks # {}
  BY DEF Rank
<1>2. \E r \in ranks : \A n \in ranks : r <= n
  <2> HIDE DEF ranks
  <2> QED BY <1>1, Least
<1>3. PICK r \in ranks : \A n \in ranks : r <= n
  BY <1>2
<1> DEFINE costs == {f.tokens : f \in {g \in Fitting(p) : Rank(g) = r}}
<1>4. costs \subseteq Nat /\ costs # {}
  BY DEF Fitting
<1>5. \E t \in costs : \A n \in costs : t <= n
  <2> HIDE DEF costs
  <2> QED BY <1>4, Least
<1>6. PICK f \in Fitting(p) : Rank(f) = r /\ \A n \in costs : f.tokens <= n
  BY <1>5
<1>7. ASSUME NEW g \in Fitting(p)
      PROVE  Rank(f) < Rank(g) \/ (Rank(f) = Rank(g) /\ f.tokens <= g.tokens)
  <2>1. Rank(g) \in ranks /\ r <= Rank(g)
    BY <1>3
  <2>2. r \in Nat /\ Rank(g) \in Nat
    BY <1>1, <2>1
  <2>3. CASE Rank(g) = r
    BY <1>6, <2>3
  <2>4. CASE Rank(g) # r
    BY <1>6, <2>1, <2>2, <2>4
  <2> QED BY <2>3, <2>4
<1>8. f \in Preferred(p)
  BY <1>6, <1>7 DEF Preferred
<1> QED BY <1>8

LEMMA RepresentAdds ==
    ASSUME Types, Stages, Represent
    PROVE  \E p \in missing :
             /\ missing' = missing \ {p}
             /\ \/ Kept1 /\ (p \in Opened(shown) \/ \A f \in Fragments(p) : f.tokens > left)
                \/ \E f : Adds(f) /\ f.path = p
<1>1. PICK p \in missing :
         /\ missing' = missing \ {p}
         /\ \/ Preferred(p) = {} /\ UNCHANGED <<shown, left>>
            \/ \E f \in Preferred(p) :
                 IF Overlaps(Range(shown), f) THEN UNCHANGED <<shown, left>> ELSE Show(f)
  BY DEF Represent
<1>2. CASE Preferred(p) = {} /\ UNCHANGED <<shown, left>>
  <2>1. Fitting(p) = {}
    BY <1>2, PreferredIsThere
  <2>2. ASSUME NEW f \in Fragments(p), ~(f.tokens > left) PROVE p \in Opened(shown)
    <3>1. f.path = p /\ Sound(f) /\ left \in Nat
      BY FragmentsAre, ShowableIsSound DEF Types, Stages
    <3>2. f.tokens \in 1 .. left
      BY <2>2, <3>1 DEF Sound
    <3>3. PICK g \in Range(shown) : Id(g) = Id(f)
      BY <2>1, <3>2 DEF Fitting, ShownIds
    <3> QED BY <3>1, <3>3 DEF Id, Opened
  <2> QED BY <1>1, <1>2, <2>2 DEF Kept1
<1>3. ASSUME NEW f \in Preferred(p), Overlaps(Range(shown), f), UNCHANGED <<shown, left>>
      PROVE  Kept1 /\ p \in Opened(shown)
  <2>1. f \in Fragments(p)
    BY DEF Preferred, Fitting
  <2>2. f.path = p
    BY <2>1, FragmentsAre DEF Types
  <2> QED BY <1>3, <2>2 DEF Overlaps, Opened, Kept1
<1>4. ASSUME NEW f \in Preferred(p), Show(f)
      PROVE  Adds(f) /\ f.path = p
  <2>1. f \in Fragments(p) /\ f.tokens \in 1 .. left
    BY DEF Preferred, Fitting
  <2>2. f.path = p /\ f \in Showable /\ f.tokens <= left
    BY <2>1, FragmentsAre DEF Types, Stages
  <2>3. Extends(f)
    BY <1>4, <2>2 DEF Extends
  <2> QED BY <2>2, <2>3, ExtendsAdds
<1> QED BY <1>1, <1>2, <1>3, <1>4

-----------------------------------------------------------------------------
(* Each part of the invariant, through every step *)

LEMMA Chosen ==
    ASSUME Stages, Next
    PROVE  stage = "select"
BY DEF Stages, Next, Floor, FloorDone, First, FirstDone, Sweep, SweepDone, Upgrade, UpgradeDone,
       Take, LiftCeiling, Compare

LEMMA Untouched ==
    ASSUME Types, Passes \/ UNCHANGED vars
    PROVE  /\ UNCHANGED vars
           /\ world' = world /\ pc' = pc /\ selected' = selected
           /\ Paths' = Paths /\ Placeable' = Placeable /\ Showable' = Showable /\ All' = All
           /\ \A p : Fragments(p)' = Fragments(p)
<1>1. UNCHANGED vars
  BY DEF Passes, Cohere, Define, Rescue, Reach, Missing, Represent, Conclude, selection
<1>2. world' = world /\ pc' = pc /\ selected' = selected
  BY <1>1 DEF vars, placed
<1>3. Paths' = Paths /\ Placeable' = Placeable
  BY <1>2, SameWorld
<1>4. Showable' = Showable
  BY <1>2, <1>3 DEF Showable
<1>5. All' = All
  BY <1>2 DEF All
<1>6. \A p : Fragments(p)' = Fragments(p)
  BY <1>2, <1>5 DEF Fragments
<1> QED BY <1>1, <1>2, <1>3, <1>4, <1>5, <1>6

LEMMA ShareNat ==
    ASSUME Types, Stages, Cost(shown) <= world.budget
    PROVE  /\ Unspent \in Nat /\ Share \in Nat
           /\ Cost(shown) + Unspent = world.budget /\ Cost(shown) + Share <= world.budget
<1>1. world.budget \in Nat /\ RescuePercent \in 0 .. 100 /\ Cost(shown) \in Nat
  BY InputsAre, RescueShares, ShowableIsSound, CostNat DEF Types, Stages, Cost
<1>2. Unspent \in Nat /\ Cost(shown) + Unspent = world.budget
  <2> DEFINE k == Cost(shown)
  <2>1. k \in Nat /\ k <= world.budget
    BY <1>1
  <2> HIDE DEF k
  <2>2. Monus(world.budget, k) \in Nat /\ k + Monus(world.budget, k) = world.budget
    BY <1>1, <2>1 DEF Monus
  <2> QED BY <2>2 DEF Unspent, k
<1>3. (world.budget * RescuePercent) \div 100 \in Nat
  <2> DEFINE x == world.budget * RescuePercent
  <2>1. x \in Nat
    BY <1>1
  <2> HIDE DEF x
  <2>2. x \div 100 \in Nat
    BY <2>1
  <2> QED BY <2>2 DEF x
<1>4. Share \in Nat /\ Share <= Unspent
  <2> DEFINE y == (world.budget * RescuePercent) \div 100
  <2> HIDE DEF y
  <2>1. y \in Nat
    BY <1>3 DEF y
  <2>2. Smaller(Unspent, y) \in Nat /\ Smaller(Unspent, y) <= Unspent
    BY <1>2, <2>1 DEF Smaller
  <2> QED BY <2>2 DEF Share, y
<1>5. Cost(shown) + Share <= world.budget
  BY <1>1, <1>2, <1>4
<1> QED BY <1>2, <1>4, <1>5

LEMMA CostIsWithin ==
    ASSUME Types, Ledger, Stages, Remains
    PROVE  Cost(shown) <= world.budget /\ Cost(shown) \in Nat
<1>1. world.budget \in Nat /\ Cost(shown) \in Nat /\ left \in Nat
  BY InputsAre, ShowableIsSound, CostNat DEF Types, Stages, Cost
<1>2. CASE stage = "select"
  BY <1>1, <1>2, CostEmpty DEF Stages
<1>3. CASE stage # "select"
  <2>1. Cost(shown) + left <= world.budget
    BY <1>1, <1>3 DEF Stages, Remains
  <2> QED BY <1>1, <2>1
<1> QED BY <1>1, <1>2, <1>3

LEMMA StagesStep ==
    ASSUME Types, Ledger, Stages, Remains, AnswerNext \/ UNCHANGED <<vars, passes>>, Types'
    PROVE  Stages'
<1>0. shown \in Seq(Showable) /\ left \in Nat /\ queue \subseteq All /\ missing \subseteq world.changedFiles
  BY DEF Stages
<1>1. CASE Next /\ UNCHANGED passes
  <2>1. world' = world /\ Showable' = Showable /\ All' = All /\ stage = "select"
    <3>1. world' = world
      BY <1>1, WorldStays
    <3>2. Placeable' = Placeable
      BY <3>1, SameWorld
    <3> QED BY <1>1, <3>1, <3>2, Chosen DEF Showable, All
  <2> QED BY <1>0, <1>1, <2>1 DEF Stages, passes
<1>2. CASE Passes \/ UNCHANGED <<vars, passes>>
  <2>1. /\ world' = world /\ pc' = pc /\ selected' = selected
        /\ Showable' = Showable /\ All' = All /\ Opened(selected)' = Opened(selected)
    BY <1>2, Untouched DEF Opened
  <2>2. CASE UNCHANGED <<vars, passes>>
    BY <2>1, <2>2 DEF Stages, passes
  <2>3. CASE Cohere
    <3>1. selected \in Seq(Showable)
      <4>1. selected \in Seq(Placeable) /\ Placeable \subseteq Showable
        BY DEF Types, Showable
      <4> QED BY <4>1
    <3>2. Monus(world.budget, Cost(selected)) \in Nat
      BY CostIsNat, InputsAre DEF Types, Monus
    <3> QED BY <1>0, <2>1, <2>3, <3>1, <3>2 DEF Cohere, Stages
  <2>4. CASE Define
    <3>1. shown' \in Seq(Showable) /\ left' \in Nat /\ Range(shown) \subseteq Range(shown')
      BY <1>0, <2>4, DefineAdds DEF Kept1, Adds
    <3> QED BY <2>1, <2>4, <3>1 DEF Define, Stages
  <2>5. CASE Rescue
    <3>1. Share \in Nat
      BY CostIsWithin, ShareNat
    <3>2. queue' \subseteq All
      BY <2>5 DEF Rescue
    <3> QED BY <2>1, <2>5, <3>1, <3>2 DEF Rescue, Stages
  <2>6. CASE Reach
    <3>1. shown' \in Seq(Showable) /\ left' \in Nat /\ Range(shown) \subseteq Range(shown') /\ queue' \subseteq queue
      BY <1>0, <2>6, ReachAdds DEF Kept1, Adds
    <3> QED BY <2>1, <2>6, <3>1 DEF Reach, Stages
  <2>7. CASE Missing
    <3>1. Unspent \in Nat
      BY CostIsWithin, ShareNat
    <3> QED BY <2>1, <2>7, <3>1 DEF Missing, Stages
  <2>8. CASE Represent
    <3>1. shown' \in Seq(Showable) /\ left' \in Nat /\ Range(shown) \subseteq Range(shown') /\ missing' \subseteq missing
      BY <1>0, <2>8, RepresentAdds DEF Kept1, Adds
    <3> QED BY <2>1, <2>8, <3>1 DEF Represent, Stages
  <2>9. CASE Conclude
    BY <2>1, <2>9 DEF Conclude, Stages
  <2> QED BY <1>2, <2>2, <2>3, <2>4, <2>5, <2>6, <2>7, <2>8, <2>9 DEF Passes
<1> QED BY <1>1, <1>2 DEF AnswerNext

LEMMA RemainsStep ==
    ASSUME Types, Ledger, Stages, Remains, AnswerNext \/ UNCHANGED <<vars, passes>>
    PROVE  Remains'
<1>0. Cost(shown) \in Nat /\ left \in Nat /\ world.budget \in Nat /\ Cost(shown) <= world.budget
  BY CostIsWithin, InputsAre DEF Stages, Types
<1> DEFINE Afterwards == /\ stage' = "rescue" => Cost(shown') + left' <= world.budget
                         /\ stage' \in {"coherence", "represent", "answer"} => Cost(shown') + left' = world.budget
<1>1. CASE Next /\ UNCHANGED passes
  BY <1>1, Chosen DEF passes, Remains
<1>2. CASE Passes \/ UNCHANGED <<vars, passes>>
  <2>1. world' = world
    BY <1>2, Untouched
  <2>2. SUFFICES Afterwards
    BY <2>1 DEF Remains
  <2>3. CASE UNCHANGED <<vars, passes>>
    BY <2>3 DEF Remains, passes
  <2>4. CASE Cohere
    <3> DEFINE k == Cost(selected)
    <3>1. k \in Nat /\ k <= world.budget
      BY <2>4, CostIsNat DEF Cohere, Ledger, Types
    <3>2. shown' = selected /\ left' = Monus(world.budget, k) /\ stage' = "coherence"
      BY <2>4 DEF Cohere
    <3> HIDE DEF k
    <3>3. k + left' = world.budget
      BY <1>0, <3>1, <3>2 DEF Monus
    <3> QED BY <3>2, <3>3 DEF k
  <2>5. CASE Define
    <3>1. stage = "coherence" /\ stage' = "coherence"
      BY <2>5 DEF Define
    <3>2. Cost(shown') + left' = Cost(shown) + left
      BY <2>5, DefineAdds DEF Kept1, Adds
    <3> QED BY <3>1, <3>2 DEF Remains
  <2>6. CASE Rescue
    BY <1>0, <2>6, ShareNat DEF Rescue
  <2>7. CASE Reach
    <3>1. stage = "rescue" /\ stage' = "rescue"
      BY <2>7 DEF Reach
    <3>2. Cost(shown') + left' = Cost(shown) + left
      BY <2>7, ReachAdds DEF Kept1, Adds
    <3> QED BY <3>1, <3>2 DEF Remains
  <2>8. CASE Missing
    BY <1>0, <2>8, ShareNat DEF Missing
  <2>9. CASE Represent
    <3>1. stage = "represent" /\ stage' = "represent"
      BY <2>9 DEF Represent
    <3>2. Cost(shown') + left' = Cost(shown) + left
      BY <2>9, RepresentAdds DEF Kept1, Adds
    <3> QED BY <3>1, <3>2 DEF Remains
  <2>10. CASE Conclude
    BY <2>10 DEF Conclude, Remains
  <2> QED BY <1>2, <2>3, <2>4, <2>5, <2>6, <2>7, <2>8, <2>9, <2>10 DEF Passes
<1> QED BY <1>1, <1>2 DEF AnswerNext

LEMMA ReachedStep ==
    ASSUME Types, Ledger, Stages, Reached, AnswerNext \/ UNCHANGED <<vars, passes>>
    PROVE  Reached'
<1>1. CASE Next /\ UNCHANGED passes
  BY <1>1, Chosen DEF passes, Reached
<1>2. CASE Passes \/ UNCHANGED <<vars, passes>>
  <2> DEFINE open == Opened(selected)
             more(s) == IF s \in {"represent", "answer"} THEN world.changedFiles ELSE {}
             reached(s, q, o) == /\ s = "rescue" => \A f \in q : f.path \in world.admissible
                                 /\ o \subseteq open \union world.admissible \union more(s)
  <2>1. /\ world' = world /\ selected' = selected /\ Paths' = Paths /\ Opened(selected)' = Opened(selected)
    BY <1>2, Untouched DEF Opened
  <2>2. SUFFICES ASSUME ~(Opened(selected) \subseteq Paths)
                 PROVE  stage' = "select" \/ reached(stage', queue', Opened(shown'))
    BY <2>1 DEF Reached, Opened
  <2>3. stage = "select" \/ reached(stage, queue, Opened(shown))
    BY <2>2 DEF Reached
  <2>4. CASE UNCHANGED <<vars, passes>>
    BY <2>3, <2>4 DEF passes
  <2>5. CASE Cohere
    BY <2>5 DEF Cohere
  <2>6. CASE Define
    <3>1. stage = "coherence" /\ stage' = "coherence" /\ opened = Opened(selected)
      BY <2>6 DEF Define, Stages
    <3>2. Opened(shown') \subseteq Opened(shown) \union open \union world.admissible
      BY <2>6, <3>1, DefineAdds DEF Kept1, Adds
    <3> QED BY <2>3, <3>1, <3>2
  <2>7. CASE Rescue
    <3>1. stage = "coherence" /\ stage' = "rescue" /\ shown' = shown
      BY <2>7 DEF Rescue
    <3>2. Range(selected) \subseteq Range(shown)
      BY <3>1 DEF Stages
    <3>3. HasContext
      BY <2>2, <3>2 DEF HasContext, Opened
    <3>4. \A f \in queue' : f.path \in world.admissible
      BY <2>7, <3>3 DEF Rescue, Reachable
    <3> QED BY <2>3, <3>1, <3>4
  <2>8. CASE Reach
    <3>1. stage = "rescue" /\ stage' = "rescue"
      BY <2>8 DEF Reach
    <3>2. PICK f \in queue : queue' = queue \ {f} /\ (Kept1 \/ Adds(f))
      BY <2>8, ReachAdds
    <3>3. f.path \in world.admissible
      BY <2>3, <3>1
    <3>4. Opened(shown') \subseteq Opened(shown) \union world.admissible
      BY <3>2, <3>3 DEF Kept1, Adds
    <3> QED BY <2>3, <3>1, <3>2, <3>4
  <2>9. CASE Missing
    BY <2>3, <2>9 DEF Missing
  <2>10. CASE Represent
    <3>1. stage = "represent" /\ stage' = "represent"
      BY <2>10 DEF Represent
    <3>2. Opened(shown') \subseteq Opened(shown) \union world.changedFiles
      BY <2>10, RepresentAdds DEF Kept1, Adds, Stages
    <3> QED BY <2>3, <3>1, <3>2
  <2>11. CASE Conclude
    BY <2>3, <2>11 DEF Conclude
  <2> QED BY <1>2, <2>4, <2>5, <2>6, <2>7, <2>8, <2>9, <2>10, <2>11 DEF Passes
<1> QED BY <1>1, <1>2 DEF AnswerNext

LEMMA LookedStep ==
    ASSUME Types, Stages, Looked, AnswerNext \/ UNCHANGED <<vars, passes>>
    PROVE  Looked'
<1>1. CASE Next /\ UNCHANGED passes
  BY <1>1, Chosen DEF passes, Looked
<1>2. CASE Passes \/ UNCHANGED <<vars, passes>>
  <2> DEFINE full(m, o, n) == \A p \in world.changedFiles \ (m \union o) :
                                 \A f \in Fragments(p) : f.tokens > n
  <2>1. world' = world /\ \A p : Fragments(p)' = Fragments(p)
    BY <1>2, Untouched
  <2>2. SUFFICES stage' \in {"represent", "answer"} => full(missing', Opened(shown'), left')
    BY <2>1 DEF Looked, Opened
  <2>3. stage \in {"represent", "answer"} => full(missing, Opened(shown), left)
    BY DEF Looked
  <2>4. CASE UNCHANGED <<vars, passes>>
    BY <2>3, <2>4 DEF passes
  <2>5. CASE Cohere \/ Define \/ Rescue \/ Reach
    BY <2>5 DEF Cohere, Define, Rescue, Reach
  <2>6. CASE Missing
    BY <2>6 DEF Missing
  <2>7. CASE Represent
    <3>1. stage = "represent"
      BY <2>7 DEF Represent
    <3>2. PICK p \in missing :
            /\ missing' = missing \ {p}
            /\ \/ Kept1 /\ (p \in Opened(shown) \/ \A f \in Fragments(p) : f.tokens > left)
               \/ \E f : Adds(f) /\ f.path = p
      BY <2>7, RepresentAdds
    <3>3. CASE Kept1 /\ (p \in Opened(shown) \/ \A f \in Fragments(p) : f.tokens > left)
      BY <2>3, <3>1, <3>2, <3>3 DEF Kept1
    <3>4. ASSUME NEW f, Adds(f), f.path = p PROVE full(missing', Opened(shown'), left')
      <4>1. ASSUME NEW q \in world.changedFiles \ (missing' \union Opened(shown')), NEW g \in Fragments(q)
            PROVE  g.tokens > left'
        <5>1. q \in world.changedFiles \ (missing \union Opened(shown))
          BY <3>2, <3>4, <4>1 DEF Adds
        <5>2. g.tokens > left
          BY <2>3, <3>1, <5>1
        <5>3. g.tokens \in Nat /\ left \in Nat /\ left' \in Nat /\ left' <= left
          BY <3>4, FragmentsAre, ShowableIsSound DEF Types, Stages, Adds, Sound
        <5> QED BY <5>2, <5>3
      <4> QED BY <4>1
    <3> QED BY <3>2, <3>3, <3>4
  <2>8. CASE Conclude
    BY <2>3, <2>8 DEF Conclude
  <2> QED BY <1>2, <2>4, <2>5, <2>6, <2>7, <2>8 DEF Passes
<1> QED BY <1>1, <1>2 DEF AnswerNext

LEMMA NotedStep ==
    ASSUME Types, Stages, Noted, AnswerNext \/ UNCHANGED <<vars, passes>>
    PROVE  Noted'
<1>1. CASE Next /\ UNCHANGED passes
  BY <1>1, Chosen DEF passes, Noted
<1>2. CASE Passes \/ UNCHANGED <<vars, passes>>
  <2>1. world' = world /\ All' = All
    BY <1>2, Untouched
  <2>2. shown' = shown => \A p : Unrepresented(p)' <=> Unrepresented(p)
    BY <2>1 DEF Unrepresented, Opened
  <2>3. CASE UNCHANGED <<vars, passes>>
    BY <2>1, <2>2, <2>3 DEF passes, Noted
  <2>4. CASE Cohere \/ Define \/ Rescue \/ Reach \/ Missing \/ Represent
    BY <2>4 DEF Cohere, Define, Rescue, Reach, Missing, Represent, Noted
  <2>5. CASE Conclude
    BY <2>1, <2>2, <2>5 DEF Conclude, Noted
  <2> QED BY <1>2, <2>3, <2>4, <2>5 DEF Passes
<1> QED BY <1>1, <1>2 DEF AnswerNext

LEMMA ComposedInit ==
    ASSUME AnswerInit
    PROVE  Composed
<1>1. Selection /\ world \in Worlds
  BY SelectionInit DEF AnswerInit, Selection, Types
<1>2. stage = "select" /\ shown = <<>> /\ left = 0 /\ queue = {} /\ missing = {}
  BY DEF AnswerInit
<1> QED BY <1>1, <1>2 DEF Composed, Stages, Remains, Reached, Looked, Noted

LEMMA ComposedStep ==
    ASSUME Composed, AnswerNext \/ UNCHANGED <<vars, passes>>
    PROVE  Composed'
<1>1. [Next]_vars
  BY Untouched DEF AnswerNext, Composed, Selection
<1>2. Selection' /\ Types'
  BY <1>1, SelectionStep DEF Composed, Selection
<1>3. Stages' /\ Remains' /\ Reached' /\ Looked' /\ Noted'
  BY <1>2, StagesStep, RemainsStep, ReachedStep, LookedStep, NotedStep DEF Composed, Selection
<1> QED BY <1>2, <1>3 DEF Composed

(***************************************************************************)
(* What is promised                                                        *)
(***************************************************************************)

\* The invariant of the selection, and of the three passes after it.
THEOREM Composition == AnswerSpec => []Composed
<1>1. AnswerInit => Composed
  BY ComposedInit
<1>2. Composed /\ [AnswerNext]_<<vars, passes>> => Composed'
  BY ComposedStep
<1> QED BY <1>1, <1>2, PTL DEF AnswerSpec

\* The budget holds in every answer, whatever is clipped, refunded, replaced
\* or added: what is returned costs no more, and what is reported is its cost.
THEOREM WithinBudget == AnswerSpec => []AnswerFits
<1>1. Composed => AnswerFits
  BY CostIsWithin DEF Composed, Selection, AnswerFits, BudgetHolds, Ledger
<1> QED BY <1>1, Composition, PTL

\* A changed file whose turn on the floor is over shows something of its
\* change to the end, or found no room for a line.
THEOREM WitnessStays == AnswerSpec => []WitnessKept
<1>1. Composed => WitnessKept
  BY DEF Composed, Selection, Witnessed, Witness, WitnessKept
<1> QED BY <1>1, Composition, PTL

\* A core held to be represented is.
THEOREM SatisfiedStays == AnswerSpec => []SatisfiedIsShown
<1>1. Composed => SatisfiedIsShown
  BY DEF Composed, Selection, Represented, Shown, SatisfiedIsShown
<1> QED BY <1>1, Composition, PTL

\* What the core pass placed is in the result.
THEOREM CoreIsKept == AnswerSpec => []CoreStays
<1>1. Composed => CoreStays
  <2> SUFFICES ASSUME Composed, pc = "done", base.remaining > 0
               PROVE  Range(base.selected) \subseteq Range(selected)
    BY DEF CoreStays
  <2>1. base.remaining # 0
    BY DEF Composed, Selection, Types
  <2> QED BY <2>1 DEF Composed, Selection, Ledger
<1> QED BY <1>1, Composition, PTL

\* While a core of its tier waits that fits the budget and its file's share,
\* no file goes past its own share by a second core.
THEOREM Yields == AnswerSpec => CeilingYields
<1>1. Composed /\ [AnswerNext]_<<vars, passes>> =>
        [pc = "sweep" => \A p \in DOMAIN spent : PastShare(p) =>
           ~\E c \in skipped \ satisfied : Waits(c, p)]_vars
  <2> SUFFICES ASSUME Composed, [AnswerNext]_<<vars, passes>>, pc = "sweep",
                      NEW p \in DOMAIN spent, PastShare(p), NEW c \in skipped \ satisfied
               PROVE  ~Waits(c, p)
    OBVIOUS
  <2>1. [Next]_vars
    BY Untouched DEF AnswerNext, Composed, Selection
  <2> QED BY <2>1, SweepYields DEF Composed, Selection
<1> QED BY <1>1, Composition, PTL DEF AnswerSpec, CeilingYields

\* A changed file that is not in the answer has nothing that still fits, and
\* the run says that the budget left it out if there was anything to show.
THEOREM FilesAnswered == AnswerSpec => []FilesAreAnswered
<1>1. Composed => FilesAreAnswered
  <2> SUFFICES ASSUME Composed, stage = "answer", NEW p \in world.changedFiles \ Opened(shown)
               PROVE  /\ \A f \in Fragments(p) : f.tokens > Unspent
                      /\ (\E f \in All : f.path = p) => limited
    BY DEF FilesAreAnswered
  <2>1. Types /\ Ledger /\ Stages /\ Remains /\ missing = {}
    BY DEF Composed, Selection, Stages
  <2>2. \A f \in Fragments(p) : f.tokens > left
    BY <2>1 DEF Composed, Looked
  <2>3. left = Unspent
    <3>1. Cost(shown) + left = world.budget /\ left \in Nat
      BY <2>1 DEF Remains, Stages
    <3>2. Cost(shown) + Unspent = world.budget /\ Unspent \in Nat /\ Cost(shown) \in Nat
      BY <2>1, CostIsWithin, ShareNat
    <3> QED BY <3>1, <3>2
  <2>4. (\E f \in All : f.path = p) => Unrepresented(p)
    BY DEF Unrepresented
  <2>5. limited <=> \E q \in world.changedFiles : Unrepresented(q)
    BY DEF Composed, Noted
  <2> QED BY <2>2, <2>3, <2>4, <2>5
<1> QED BY <1>1, Composition, PTL

\* No pass opens a file the change does not reach, unless the selection is
\* all changed files.
THEOREM Admitted == AnswerSpec => []AnswerIsAdmitted
<1>1. Composed => AnswerIsAdmitted
  BY DEF Composed, Selection, Reached, AnswerIsAdmitted
<1> QED BY <1>1, Composition, PTL

\* The passes never touch the selection: a run with them is a run of it.
THEOREM Selects == AnswerSpec => Spec
<1>1. AnswerInit => Init
  BY DEF AnswerInit
<1>2. Composed /\ [AnswerNext]_<<vars, passes>> => [Next]_vars
  BY Untouched DEF AnswerNext, Composed, Selection
<1> QED BY <1>1, <1>2, Composition, PTL DEF AnswerSpec, Spec

-----------------------------------------------------------------------------
(***************************************************************************)
(* ImpactFit: sets of numbers, and the callers of an answer                *)
(***************************************************************************)

LEMMA Greatest ==
    ASSUME NEW T, T \subseteq Nat, T # {}, NEW N \in Nat, \A m \in T : m <= N
    PROVE  \E n \in T : \A m \in T : m <= n
<1> DEFINE U == {k \in Nat : \E m \in T : k = N - m}
<1>1. U \subseteq Nat /\ U # {}
  <2>1. PICK m \in T : TRUE
    OBVIOUS
  <2>2. N - m \in Nat
    OBVIOUS
  <2> QED BY <2>2
<1>2. \E k \in U : \A l \in U : k <= l
  <2> HIDE DEF U
  <2> QED BY <1>1, Least
<1>3. PICK k \in U : \A l \in U : k <= l
  BY <1>2
<1>4. PICK n \in T : k = N - n
  OBVIOUS
<1>5. ASSUME NEW m \in T PROVE m <= n
  <2>1. N - m \in U
    OBVIOUS
  <2>2. k <= N - m
    BY <1>3, <2>1
  <2> QED BY <1>4, <2>2
<1> QED BY <1>5

LEMMA MinIs ==
    ASSUME NEW T, T \subseteq Nat, T # {}
    PROVE  Min(T) \in T /\ \A m \in T : Min(T) <= m
<1>1. \E n \in T : \A m \in T : n <= m
  BY Least
<1> QED BY <1>1 DEF Min

LEMMA MaxIs ==
    ASSUME NEW T, T \subseteq Nat, T # {}, NEW N \in Nat, \A m \in T : m <= N
    PROVE  Max(T) \in T /\ \A m \in T : m <= Max(T)
<1>1. \E n \in T : \A m \in T : n >= m
  <2>1. PICK n \in T : \A m \in T : m <= n
    BY Greatest
  <2> QED BY <2>1
<1>2. Max(T) \in T /\ \A m \in T : Max(T) >= m
  BY <1>1 DEF Max
<1> QED BY <1>2

(***************************************************************************)
(* A sequence without one of its members                                   *)
(***************************************************************************)

IsWithout(t, s, i) ==
    /\ Len(t) = Len(s) - 1
    /\ \A j \in 1 .. i - 1 : t[j] = s[j]
    /\ \A j \in i .. Len(s) - 1 : t[j] = s[j + 1]

LEMMA Removed ==
    ASSUME NEW S, NEW s \in Seq(S), NEW i \in 1 .. Len(s)
    PROVE  RemoveAt(s, i) \in Seq(S) /\ IsWithout(RemoveAt(s, i), s, i)
<1> DEFINE u == SubSeq(s, 1, i - 1)  v == SubSeq(s, i + 1, Len(s))
<1>1. Len(s) \in Nat /\ i \in Nat
  OBVIOUS
<1>2. u \in Seq(S) /\ Len(u) = i - 1 /\ \A j \in 1 .. i - 1 : u[j] = s[j]
  BY <1>1
<1>3. v \in Seq(S) /\ Len(v) = Len(s) - i /\ \A j \in 1 .. Len(s) - i : v[j] = s[i + j]
  BY <1>1
<1> HIDE DEF u, v
<1> DEFINE t == u \o v
<1>4. t \in Seq(S) /\ Len(t) = Len(u) + Len(v)
  <2>1. u \in Seq(S) /\ v \in Seq(S)
    BY <1>2, <1>3
  <2> QED BY <2>1
<1>5. \A j \in 1 .. Len(u) : t[j] = u[j]
  BY <1>2, <1>3
<1>6. \A j \in Len(u) + 1 .. Len(u) + Len(v) : t[j] = v[j - Len(u)]
  BY <1>2, <1>3
<1>7. RemoveAt(s, i) = t
  BY DEF RemoveAt, u, v
<1> HIDE DEF t
<1>8. Len(t) = Len(s) - 1
  BY <1>1, <1>2, <1>3, <1>4
<1>9. ASSUME NEW j \in i .. Len(s) - 1 PROVE t[j] = s[j + 1]
  <2>1. j \in Len(u) + 1 .. Len(u) + Len(v) /\ j - Len(u) \in 1 .. Len(s) - i /\ i + (j - Len(u)) = j + 1
    BY <1>1, <1>2, <1>3
  <2> QED BY <2>1, <1>3, <1>6
<1> QED BY <1>2, <1>4, <1>5, <1>7, <1>8, <1>9 DEF IsWithout

LEMMA FrontRemoved ==
    ASSUME NEW S, NEW s \in Seq(S), Len(s) > 0
    PROVE  Front(s) \in Seq(S) /\ IsWithout(Front(s), s, Len(s))
<1>1. Len(s) \in Nat /\ Len(s) - 1 \in Nat
  OBVIOUS
<1> DEFINE n == Len(s)  u == SubSeq(s, 1, n - 1)
<1>a. n \in 1 .. Len(s) /\ n = Len(s)
  BY <1>1
<1> HIDE DEF n
<1>b. u \in Seq(S) /\ Len(u) = n - 1 /\ \A j \in 1 .. n - 1 : u[j] = s[j]
  BY <1>a
<1>2. u \in Seq(S) /\ Len(u) = Len(s) - 1 /\ \A j \in 1 .. Len(s) - 1 : u[j] = s[j]
  BY <1>a, <1>b
<1>3. Front(s) = u
  BY <1>a DEF Front
<1> HIDE DEF u
<1>4. \A j \in Len(s) .. Len(s) - 1 : u[j] = s[j + 1]
  BY <1>1
<1> QED BY <1>2, <1>3, <1>4 DEF IsWithout

(***************************************************************************)
(* The callers of a sequence of symbols                                    *)
(***************************************************************************)

Places(ch, kinds) ==
    {p \in Nat \X Nat : p[1] \in DOMAIN ch /\ p[2] \in DOMAIN ch[p[1]].callers
                        /\ ch[p[1]].callers[p[2]].evidence \in kinds}

LEMMA SymbolIs ==
    ASSUME NEW ch \in Seq(Symbols), NEW i \in DOMAIN ch
    PROVE  /\ i \in 1 .. Len(ch) /\ ch[i] \in Symbols
           /\ ch[i].callers \in Seq([evidence : Kinds, weight : Nat])
           /\ ch[i].id \in Nat /\ ch[i].unresolved \in BOOLEAN /\ ch[i].compatible \in BOOLEAN
           /\ DOMAIN ch[i].callers = 1 .. Len(ch[i].callers) /\ Len(ch[i].callers) \in Nat
           /\ \A j \in DOMAIN ch[i].callers :
                /\ ch[i].callers[j].evidence \in Kinds
                /\ ch[i].callers[j].weight \in Nat
<1>1. i \in 1 .. Len(ch) /\ ch[i] \in Symbols
  OBVIOUS
<1>2. /\ ch[i].callers \in Seq([evidence : Kinds, weight : Nat])
      /\ ch[i].id \in Nat /\ ch[i].unresolved \in BOOLEAN /\ ch[i].compatible \in BOOLEAN
  BY <1>1 DEF Symbols
<1> DEFINE c == ch[i].callers  E == [evidence : Kinds, weight : Nat]
<1>3. c \in Seq(E) /\ \A e \in E : e.evidence \in Kinds /\ e.weight \in Nat
  BY <1>2
<1> HIDE DEF c, E
<1>4. DOMAIN c = 1 .. Len(c) /\ Len(c) \in Nat /\ \A j \in DOMAIN c : c[j] \in E
  BY <1>3
<1>5. \A j \in DOMAIN c : c[j].evidence \in Kinds /\ c[j].weight \in Nat
  BY <1>3, <1>4
<1> QED BY <1>1, <1>2, <1>4, <1>5 DEF c

LEMMA PlacesFinite ==
    ASSUME NEW ch \in Seq(Symbols), NEW kinds
    PROVE  IsFiniteSet(Places(ch, kinds)) /\ Cardinality(Places(ch, kinds)) \in Nat
<1> DEFINE row(i) == {i} \X DOMAIN ch[i].callers
           rows == [i \in DOMAIN ch |-> row(i)]
           T == {row(i) : i \in DOMAIN ch}
<1>0. \A n \in Nat : IsFiniteSet(1 .. n)
  BY FS_Interval
<1>1. IsFiniteSet(DOMAIN ch)
  <2>1. DOMAIN ch = 1 .. Len(ch) /\ Len(ch) \in Nat
    OBVIOUS
  <2> QED BY <1>0, <2>1
<1>2. IsFiniteSet(T)
  <2>1. rows \in Surjection(DOMAIN ch, T)
    BY DEF Surjection
  <2> HIDE DEF T, rows
  <2> QED BY <1>1, <2>1, FS_Surjection
<1>3. ASSUME NEW i \in DOMAIN ch PROVE IsFiniteSet(row(i))
  <2>1. DOMAIN ch[i].callers = 1 .. Len(ch[i].callers) /\ Len(ch[i].callers) \in Nat
    BY SymbolIs
  <2>2. IsFiniteSet(DOMAIN ch[i].callers)
    BY <1>0, <2>1
  <2>3. IsFiniteSet({i})
    BY FS_Singleton
  <2> QED BY <2>2, <2>3, FS_Product
<1>4. \A r \in T : IsFiniteSet(r)
  BY <1>3
<1>5. IsFiniteSet(UNION T)
  <2> HIDE DEF T
  <2> QED BY <1>2, <1>4, FS_UNION
<1>6. Places(ch, kinds) \subseteq UNION T
  <2> SUFFICES ASSUME NEW p \in Places(ch, kinds) PROVE p \in UNION T
    OBVIOUS
  <2>1. p = <<p[1], p[2]>> /\ p[1] \in DOMAIN ch /\ p[2] \in DOMAIN ch[p[1]].callers
    BY DEF Places
  <2>2. p \in row(p[1])
    BY <2>1
  <2> QED BY <2>1, <2>2
<1>7. IsFiniteSet(Places(ch, kinds))
  <2> HIDE DEF T
  <2> QED BY <1>5, <1>6, FS_Subset
<1> QED BY <1>7, FS_CardinalityType

LEMMA CallersIs ==
    ASSUME NEW o \in Outputs, NEW kinds
    PROVE  Callers(o, kinds) = Cardinality(Places(o.changed, kinds)) /\ Callers(o, kinds) \in Nat
<1> DEFINE ch == o.changed
           row(i) == {<<i, j>> : j \in {j \in DOMAIN ch[i].callers : ch[i].callers[j].evidence \in kinds}}
           U == UNION {row(i) : i \in DOMAIN ch}
<1>1. ch \in Seq(Symbols)
  BY DEF Outputs
<1> HIDE DEF ch
<1>2. ASSUME NEW p \in U PROVE p \in Places(ch, kinds)
  <2>1. PICK i \in DOMAIN ch : p \in row(i)
    BY <1>2
  <2>2. PICK j \in DOMAIN ch[i].callers : p = <<i, j>> /\ ch[i].callers[j].evidence \in kinds
    BY <2>1
  <2>3. i \in Nat /\ j \in Nat
    BY <1>1, SymbolIs
  <2> QED BY <2>2, <2>3 DEF Places
<1>3. ASSUME NEW p \in Places(ch, kinds) PROVE p \in U
  <2>1. p = <<p[1], p[2]>> /\ p[1] \in DOMAIN ch /\ p[2] \in DOMAIN ch[p[1]].callers
        /\ ch[p[1]].callers[p[2]].evidence \in kinds
    BY DEF Places
  <2>2. p \in row(p[1])
    BY <2>1
  <2> QED BY <2>1, <2>2
<1>4. U = Places(ch, kinds)
  BY <1>2, <1>3
<1>5. Callers(o, kinds) = Cardinality(U)
  BY DEF Callers, ch
<1> HIDE DEF U
<1> QED BY <1>1, <1>4, <1>5, PlacesFinite DEF ch

\* One set counts the other without some of its members.
LEMMA Embedded ==
    ASSUME NEW S, IsFiniteSet(S), NEW R, R \subseteq S, NEW T, NEW f \in [T -> S \ R],
           \A x, y \in T : f[x] = f[y] => x = y,
           \A z \in S \ R : \E x \in T : f[x] = z
    PROVE  Cardinality(T) + Cardinality(R) = Cardinality(S)
<1>1. IsFiniteSet(S \ R) /\ Cardinality(S \ R) = Cardinality(S) - Cardinality(S \cap R)
  BY FS_Difference
<1>2. f \in Injection(T, S \ R) /\ f \in Surjection(T, S \ R)
  BY DEF Injection, Surjection, IsInjective
<1>3. Cardinality(T) = Cardinality(S \ R)
  BY <1>1, <1>2, FS_Injection
<1>4. Cardinality(S \cap R) = Cardinality(R)
  <2>1. S \cap R = R
    OBVIOUS
  <2> QED BY <2>1
<1>5. Cardinality(R) \in Nat /\ Cardinality(S) \in Nat
  BY FS_Subset, FS_CardinalityType
<1> QED BY <1>1, <1>3, <1>4, <1>5

\* ch2 is ch without the caller j of symbol i; without symbol i.
RowLost(ch2, ch, i, j) ==
    /\ ch2 \in Seq(Symbols) /\ Len(ch2) = Len(ch)
    /\ i \in DOMAIN ch /\ j \in DOMAIN ch[i].callers
    /\ ch2[i].id = ch[i].id /\ ch2[i].unresolved = ch[i].unresolved /\ ch2[i].compatible = ch[i].compatible
    /\ IsWithout(ch2[i].callers, ch[i].callers, j)
    /\ \A k \in DOMAIN ch \ {i} : ch2[k] = ch[k]

SymbolLost(ch2, ch, i) == ch2 \in Seq(Symbols) /\ i \in DOMAIN ch /\ IsWithout(ch2, ch, i)

LEMMA PlaceIs ==
    ASSUME NEW ch, NEW kinds, NEW p
    PROVE  p \in Places(ch, kinds) <=>
             /\ p \in Nat \X Nat /\ p = <<p[1], p[2]>> /\ p[1] \in Nat /\ p[2] \in Nat
             /\ p[1] \in DOMAIN ch /\ p[2] \in DOMAIN ch[p[1]].callers
             /\ ch[p[1]].callers[p[2]].evidence \in kinds
BY DEF Places

LEMMA RowCount ==
    ASSUME NEW ch \in Seq(Symbols), NEW ch2, NEW i, NEW j, RowLost(ch2, ch, i, j), NEW kinds
    PROVE  Cardinality(Places(ch2, kinds)) + (IF ch[i].callers[j].evidence \in kinds THEN 1 ELSE 0)
             = Cardinality(Places(ch, kinds))
<1> DEFINE c == ch[i].callers  c2 == ch2[i].callers
           S == Places(ch, kinds)  T == Places(ch2, kinds)
           R == IF c[j].evidence \in kinds THEN {<<i, j>>} ELSE {}
           to(p) == IF p[1] = i /\ p[2] >= j THEN <<p[1], p[2] + 1>> ELSE p
           f == [p \in T |-> to(p)]
<1>1. /\ ch2 \in Seq(Symbols) /\ Len(ch2) = Len(ch) /\ DOMAIN ch2 = DOMAIN ch
      /\ i \in DOMAIN ch /\ j \in DOMAIN c
      /\ \A k \in DOMAIN ch \ {i} : ch2[k] = ch[k]
  BY DEF RowLost
<1>2. /\ Len(c2) = Len(c) - 1 /\ \A k \in 1 .. j - 1 : c2[k] = c[k]
      /\ \A k \in j .. Len(c) - 1 : c2[k] = c[k + 1]
  BY DEF RowLost, IsWithout
<1>3. /\ DOMAIN c = 1 .. Len(c) /\ Len(c) \in Nat /\ DOMAIN c2 = 1 .. Len(c2) /\ Len(c2) \in Nat
      /\ i \in Nat /\ j \in Nat /\ j \in 1 .. Len(c)
  BY <1>1, SymbolIs
<1> HIDE DEF c, c2
<1>4. ASSUME NEW p \in T PROVE to(p) \in S \ R
  <2>1. p = <<p[1], p[2]>> /\ p[1] \in Nat /\ p[2] \in Nat /\ p[1] \in DOMAIN ch2 /\ p[2] \in DOMAIN ch2[p[1]].callers
        /\ ch2[p[1]].callers[p[2]].evidence \in kinds
    BY PlaceIs
  <2>2. CASE p[1] # i
    <3>1. to(p) = p /\ p \in S
      BY <2>1, <2>2, <1>1, PlaceIs
    <3>2. p \notin R
      BY <2>1, <2>2
    <3> QED BY <3>1, <3>2
  <2>3. CASE p[1] = i /\ p[2] < j
    <3>1. p[2] \in 1 .. Len(c2) /\ c2[p[2]].evidence \in kinds
      BY <2>1, <2>3, <1>3 DEF c2
    <3>2. p[2] \in 1 .. j - 1 /\ p[2] \in DOMAIN c /\ c2[p[2]] = c[p[2]]
      BY <3>1, <2>1, <2>3, <1>2, <1>3
    <3>3. to(p) = p
      BY <2>1, <2>3, <1>3
    <3>4. p \in S
      BY <2>1, <2>3, <3>1, <3>2, <1>1, PlaceIs DEF c
    <3>5. p \notin R
      BY <2>1, <2>3, <1>3
    <3> QED BY <3>3, <3>4, <3>5
  <2>4. CASE p[1] = i /\ p[2] >= j
    <3> DEFINE q == <<i, p[2] + 1>>
    <3>1. p[2] \in 1 .. Len(c2) /\ c2[p[2]].evidence \in kinds
      BY <2>1, <2>4, <1>3 DEF c2
    <3>2. p[2] \in j .. Len(c) - 1 /\ p[2] + 1 \in DOMAIN c /\ c2[p[2]] = c[p[2] + 1]
      BY <3>1, <2>1, <2>4, <1>2, <1>3
    <3>3. to(p) = q /\ q[1] = i /\ q[2] = p[2] + 1 /\ q \in Nat \X Nat /\ q[2] # j
      BY <2>1, <2>4, <1>3
    <3>4. c[q[2]].evidence \in kinds /\ q[2] \in DOMAIN c /\ q = <<q[1], q[2]>>
      BY <3>1, <3>2, <3>3
    <3> HIDE DEF q
    <3>5. q \in S
      BY <3>3, <3>4, <1>1, PlaceIs DEF c
    <3>6. q \notin R
      BY <3>3
    <3> QED BY <3>3, <3>5, <3>6
  <2> QED BY <2>1, <2>2, <2>3, <2>4, <1>3
<1>5. ASSUME NEW x \in T, NEW y \in T, to(x) = to(y) PROVE x = y
  <2>1. x = <<x[1], x[2]>> /\ y = <<y[1], y[2]>> /\ x[1] \in Nat /\ x[2] \in Nat /\ y[1] \in Nat /\ y[2] \in Nat
    BY PlaceIs
  <2>2. to(x)[1] = x[1] /\ to(y)[1] = y[1]
    BY <2>1
  <2>3. to(x)[2] = (IF x[1] = i /\ x[2] >= j THEN x[2] + 1 ELSE x[2])
    BY <2>1
  <2>4. to(y)[2] = (IF y[1] = i /\ y[2] >= j THEN y[2] + 1 ELSE y[2])
    BY <2>1
  <2>5. x[1] = y[1] /\ x[2] = y[2]
    <3> HIDE DEF to
    <3> QED BY <1>5, <2>1, <2>2, <2>3, <2>4, <1>3
  <2> QED BY <2>1, <2>5
<1>6. ASSUME NEW z \in S \ R PROVE \E x \in T : to(x) = z
  <2>1. z = <<z[1], z[2]>> /\ z[1] \in Nat /\ z[2] \in Nat /\ z[1] \in DOMAIN ch /\ z[2] \in DOMAIN ch[z[1]].callers
        /\ ch[z[1]].callers[z[2]].evidence \in kinds /\ z \in Nat \X Nat
    BY PlaceIs
  <2>2. CASE z[1] # i
    <3>1. z \in T
      BY <2>1, <2>2, <1>1, PlaceIs
    <3>2. to(z) = z
      BY <2>2
    <3> QED BY <3>1, <3>2
  <2>3. CASE z[1] = i
    <3>1. z[2] \in 1 .. Len(c) /\ c[z[2]].evidence \in kinds
      BY <2>1, <2>3, <1>3 DEF c
    <3>2. z[2] # j
      BY <2>1, <2>3, <3>1
    <3>3. CASE z[2] < j
      <4>1. z[2] \in 1 .. j - 1 /\ z[2] \in DOMAIN c2 /\ c2[z[2]] = c[z[2]]
        BY <3>1, <3>3, <1>2, <1>3
      <4>2. z \in T
        BY <4>1, <2>1, <2>3, <3>1, <1>1, PlaceIs DEF c2
      <4>3. to(z) = z
        BY <3>3, <2>1, <1>3
      <4> QED BY <4>2, <4>3
    <3>4. CASE z[2] > j
      <4> DEFINE x == <<i, z[2] - 1>>
      <4>1. z[2] - 1 \in j .. Len(c) - 1 /\ z[2] - 1 \in DOMAIN c2 /\ c2[z[2] - 1] = c[z[2]]
        BY <3>1, <3>4, <1>2, <1>3
      <4>2. x[1] = i /\ x[2] = z[2] - 1 /\ x \in Nat \X Nat /\ x = <<x[1], x[2]>>
        BY <4>1, <1>3
      <4>3. x[2] \in DOMAIN c2 /\ c2[x[2]].evidence \in kinds /\ x[2] >= j /\ x[2] + 1 = z[2]
        BY <4>1, <4>2, <3>1, <1>3
      <4> HIDE DEF x
      <4>4. x \in T
        BY <4>2, <4>3, <1>1, PlaceIs DEF c2
      <4>5. to(x) = z
        BY <4>2, <4>3, <2>1, <2>3
      <4> QED BY <4>4, <4>5
    <3> QED BY <3>1, <3>2, <3>3, <3>4, <1>3
  <2> QED BY <2>2, <2>3
<1>7. f \in [T -> S \ R] /\ \A x \in T : f[x] = to(x)
  BY <1>4
<1>8. R \subseteq S
  <2> SUFFICES ASSUME c[j].evidence \in kinds PROVE <<i, j>> \in S
    OBVIOUS
  <2> DEFINE q == <<i, j>>
  <2>1. q[1] = i /\ q[2] = j /\ q \in Nat \X Nat /\ q = <<q[1], q[2]>>
    BY <1>3
  <2> HIDE DEF q
  <2>2. q \in S
    BY <2>1, <1>1, <1>3, PlaceIs DEF c
  <2> QED BY <2>2 DEF q
<1>9. IsFiniteSet(S)
  BY PlacesFinite
<1>10. /\ \A x, y \in T : f[x] = f[y] => x = y
       /\ \A z \in S \ R : \E x \in T : f[x] = z
  <2> HIDE DEF f, S, T, R, to
  <2> QED BY <1>5, <1>6, <1>7
<1>11. Cardinality(T) + Cardinality(R) = Cardinality(S)
  <2> HIDE DEF f, S, T, R, to
  <2> QED BY <1>7, <1>8, <1>9, <1>10, Embedded
<1>12. Cardinality(R) = IF c[j].evidence \in kinds THEN 1 ELSE 0
  BY FS_Singleton, FS_EmptySet
<1> QED BY <1>11, <1>12 DEF c

LEMMA SymbolCount ==
    ASSUME NEW ch \in Seq(Symbols), NEW ch2, NEW i, SymbolLost(ch2, ch, i), NEW kinds
    PROVE  Cardinality(Places(ch2, kinds)) + Cardinality({p \in Places(ch, kinds) : p[1] = i})
             = Cardinality(Places(ch, kinds))
<1> DEFINE S == Places(ch, kinds)  T == Places(ch2, kinds)
           R == {p \in S : p[1] = i}
           to(p) == IF p[1] >= i THEN <<p[1] + 1, p[2]>> ELSE p
           f == [p \in T |-> to(p)]
<1>1. /\ ch2 \in Seq(Symbols) /\ Len(ch2) = Len(ch) - 1 /\ i \in 1 .. Len(ch) /\ i \in Nat /\ Len(ch) \in Nat
      /\ DOMAIN ch = 1 .. Len(ch) /\ DOMAIN ch2 = 1 .. Len(ch) - 1
      /\ \A k \in 1 .. i - 1 : ch2[k] = ch[k]
      /\ \A k \in i .. Len(ch) - 1 : ch2[k] = ch[k + 1]
  BY DEF SymbolLost, IsWithout
<1>2. ASSUME NEW p \in T PROVE to(p) \in S \ R
  <2>1. p = <<p[1], p[2]>> /\ p[1] \in Nat /\ p[2] \in Nat /\ p[1] \in DOMAIN ch2 /\ p[2] \in DOMAIN ch2[p[1]].callers
        /\ ch2[p[1]].callers[p[2]].evidence \in kinds
    BY PlaceIs
  <2>2. CASE p[1] < i
    <3>1. p[1] \in 1 .. i - 1 /\ p[1] \in DOMAIN ch /\ ch2[p[1]] = ch[p[1]]
      BY <2>1, <2>2, <1>1
    <3>2. p \in S
      BY <2>1, <3>1, PlaceIs
    <3>3. to(p) = p /\ p[1] # i
      BY <2>1, <2>2, <1>1
    <3> QED BY <3>2, <3>3
  <2>3. CASE p[1] >= i
    <3> DEFINE q == <<p[1] + 1, p[2]>>
    <3>1. p[1] \in i .. Len(ch) - 1 /\ p[1] + 1 \in DOMAIN ch /\ ch2[p[1]] = ch[p[1] + 1]
      BY <2>1, <2>3, <1>1
    <3>2. q[1] = p[1] + 1 /\ q[2] = p[2] /\ q = <<q[1], q[2]>> /\ q \in Nat \X Nat /\ q[1] # i
      BY <2>1, <2>3, <1>1
    <3>3. to(p) = q
      BY <2>3
    <3> HIDE DEF q
    <3>4. q[1] \in DOMAIN ch /\ q[2] \in DOMAIN ch[q[1]].callers /\ ch[q[1]].callers[q[2]].evidence \in kinds
      BY <2>1, <3>1, <3>2
    <3>5. q \in S
      BY <3>2, <3>4, PlaceIs
    <3> QED BY <3>2, <3>3, <3>5
  <2> QED BY <2>1, <2>2, <2>3, <1>1
<1>3. ASSUME NEW x \in T, NEW y \in T, to(x) = to(y) PROVE x = y
  <2>1. x = <<x[1], x[2]>> /\ y = <<y[1], y[2]>> /\ x[1] \in Nat /\ x[2] \in Nat /\ y[1] \in Nat /\ y[2] \in Nat
    BY PlaceIs
  <2>2. to(x)[2] = x[2] /\ to(y)[2] = y[2]
    BY <2>1
  <2>3. to(x)[1] = IF x[1] >= i THEN x[1] + 1 ELSE x[1]
    BY <2>1
  <2>4. to(y)[1] = IF y[1] >= i THEN y[1] + 1 ELSE y[1]
    BY <2>1
  <2>5. x[1] = y[1] /\ x[2] = y[2]
    <3> HIDE DEF to
    <3> QED BY <1>3, <2>1, <2>2, <2>3, <2>4, <1>1
  <2> QED BY <2>1, <2>5
<1>4. ASSUME NEW z \in S \ R PROVE \E x \in T : to(x) = z
  <2>1. z = <<z[1], z[2]>> /\ z[1] \in Nat /\ z[2] \in Nat /\ z[1] \in DOMAIN ch /\ z[2] \in DOMAIN ch[z[1]].callers
        /\ ch[z[1]].callers[z[2]].evidence \in kinds /\ z \in Nat \X Nat /\ z[1] # i
    BY PlaceIs
  <2>2. CASE z[1] < i
    <3>1. z[1] \in 1 .. i - 1 /\ z[1] \in DOMAIN ch2 /\ ch2[z[1]] = ch[z[1]]
      BY <2>1, <2>2, <1>1
    <3>2. z \in T
      BY <2>1, <3>1, PlaceIs
    <3>3. to(z) = z
      BY <2>1, <2>2, <1>1
    <3> QED BY <3>2, <3>3
  <2>3. CASE z[1] > i
    <3> DEFINE x == <<z[1] - 1, z[2]>>
    <3>1. z[1] - 1 \in i .. Len(ch) - 1 /\ (z[1] - 1) + 1 = z[1]
      BY <2>1, <2>3, <1>1
    <3>2. z[1] - 1 \in DOMAIN ch2 /\ ch2[z[1] - 1] = ch[z[1]] /\ z[1] - 1 \in Nat
      BY <3>1, <1>1
    <3>3. x[1] = z[1] - 1 /\ x[2] = z[2] /\ x = <<x[1], x[2]>> /\ x \in Nat \X Nat /\ x[1] >= i /\ x[1] + 1 = z[1]
      BY <2>1, <3>1, <3>2
    <3> HIDE DEF x
    <3>4. x[1] \in DOMAIN ch2 /\ x[2] \in DOMAIN ch2[x[1]].callers /\ ch2[x[1]].callers[x[2]].evidence \in kinds
      BY <2>1, <3>2, <3>3
    <3>5. x \in T
      BY <3>3, <3>4, PlaceIs
    <3>6. to(x) = z
      BY <3>3, <2>1
    <3> QED BY <3>5, <3>6
  <2> QED BY <2>1, <2>2, <2>3, <1>1
<1>5. f \in [T -> S \ R] /\ \A x \in T : f[x] = to(x)
  <2> HIDE DEF to, T, S, R
  <2> QED BY <1>2
<1>6. R \subseteq S /\ IsFiniteSet(S)
  BY PlacesFinite
<1>7. /\ \A x, y \in T : f[x] = f[y] => x = y
      /\ \A z \in S \ R : \E x \in T : f[x] = z
  <2> HIDE DEF f, S, T, R, to
  <2> QED BY <1>3, <1>4, <1>5
<1> HIDE DEF f, S, T, R, to
<1>8. Cardinality(T) + Cardinality(R) = Cardinality(S)
  BY <1>5, <1>6, <1>7, Embedded
<1> QED BY <1>8 DEF S, T, R

\* What is lost with a symbol that has no caller, or one.
LEMMA HollowCount ==
    ASSUME NEW ch \in Seq(Symbols), NEW ch2, NEW i, SymbolLost(ch2, ch, i), NEW kinds,
           ch[i].callers = <<>>
    PROVE  Cardinality(Places(ch2, kinds)) = Cardinality(Places(ch, kinds))
<1>1. {p \in Places(ch, kinds) : p[1] = i} = {}
  BY PlaceIs
<1>2. ch2 \in Seq(Symbols)
  BY DEF SymbolLost
<1>3. Cardinality(Places(ch2, kinds)) \in Nat
  BY <1>2, PlacesFinite
<1>4. Cardinality(Places(ch2, kinds)) + 0 = Cardinality(Places(ch, kinds))
  BY <1>1, SymbolCount, FS_EmptySet
<1> QED BY <1>3, <1>4

LEMMA OnlyCallerCount ==
    ASSUME NEW ch \in Seq(Symbols), NEW ch2, NEW i, SymbolLost(ch2, ch, i), NEW kinds,
           Len(ch[i].callers) = 1
    PROVE  Cardinality(Places(ch2, kinds)) + (IF ch[i].callers[1].evidence \in kinds THEN 1 ELSE 0)
             = Cardinality(Places(ch, kinds))
<1> DEFINE c == ch[i].callers  R == {p \in Places(ch, kinds) : p[1] = i}  q == <<i, 1>>
<1>1. i \in DOMAIN ch /\ i \in Nat
  BY DEF SymbolLost
<1>2. DOMAIN c = {1}
  BY <1>1, SymbolIs
<1>3. ASSUME NEW p \in R PROVE p = q /\ c[1].evidence \in kinds
  <2>1. p = <<p[1], p[2]>> /\ p[1] = i /\ p[2] \in DOMAIN c /\ c[p[2]].evidence \in kinds
    BY PlaceIs
  <2>2. p[2] = 1
    BY <1>2, <2>1
  <2> QED BY <2>1, <2>2
<1>4. ASSUME c[1].evidence \in kinds PROVE q \in R
  <2>1. q[1] = i /\ q[2] = 1 /\ q \in Nat \X Nat /\ q = <<q[1], q[2]>>
    BY <1>1
  <2> HIDE DEF q
  <2>2. q \in Places(ch, kinds)
    BY <1>1, <1>2, <1>4, <2>1, PlaceIs
  <2> QED BY <2>1, <2>2
<1>5. R = IF c[1].evidence \in kinds THEN {q} ELSE {}
  <2> HIDE DEF q, R, c
  <2> QED BY <1>3, <1>4
<1>6. Cardinality(R) = IF c[1].evidence \in kinds THEN 1 ELSE 0
  <2> HIDE DEF q, R, c
  <2> QED BY <1>5, FS_Singleton, FS_EmptySet
<1>7. Cardinality(Places(ch2, kinds)) + Cardinality(R) = Cardinality(Places(ch, kinds))
  BY SymbolCount
<1> QED BY <1>6, <1>7

(***************************************************************************)
(* One field of an answer after another                                    *)
(***************************************************************************)

Omissions == {"filesOmitted", "untrackedOmitted", "namedOmitted", "layoutOmitted",
              "unreadOmitted", "contractsOmitted", "staleOmitted", "truncated"}
Listings == {"files", "untracked", "named", "layout", "unread", "contracts", "stale"}
Fields == {"fixed", "other", "changed", "empty", "possible", "textual", "symbolsOmitted"}
          \union Omissions \union Listings
Counters == Fields \ {"other", "changed", "empty"}
Same(p, t, F) == \A f \in Fields \ F : p[f] = t[f]

LEMMA FieldsAre == ASSUME NEW t \in Outputs PROVE DOMAIN t = Fields
BY DEF Outputs, Fields, Omissions, Listings

LEMMA CounterIs == ASSUME NEW t \in Outputs, NEW f \in Counters PROVE t[f] \in Nat
BY DEF Outputs, Counters, Fields, Omissions, Listings

LEMMA Written ==
    ASSUME NEW t \in Outputs, NEW f \in Counters, NEW a \in Nat, NEW p, p = [t EXCEPT ![f] = a]
    PROVE  p \in Outputs
BY DEF Outputs, Counters, Fields, Omissions, Listings

LEMMA Spared ==
    ASSUME NEW t \in Outputs, NEW f \in Fields, NEW a, NEW p, p = [t EXCEPT ![f] = a]
    PROVE  Same(p, t, {f})
BY DEF Outputs, Same, Fields, Omissions, Listings

WithTwo(t, f, a, g, b) == [[t EXCEPT ![f] = a] EXCEPT ![g] = b]

LEMMA TwoWritten ==
    ASSUME NEW t \in Outputs, NEW f \in Counters, NEW g \in Counters, f # g, NEW a \in Nat, NEW b \in Nat,
           NEW p, p = WithTwo(t, f, a, g, b)
    PROVE  p \in Outputs /\ p[f] = a /\ p[g] = b /\ Same(p, t, {f, g})
<1>1. f \in Fields /\ g \in Fields
  BY DEF Counters
<1>2. PICK q : q = [t EXCEPT ![f] = a]
  OBVIOUS
<1>3. q \in Outputs
  BY <1>2, Written, Zenon
<1>4. q[f] = a
  BY <1>1, <1>2, FieldsAre
<1>5. Same(q, t, {f})
  BY <1>1, <1>2, Spared, Zenon
<1>6. p = [q EXCEPT ![g] = b]
  BY <1>2 DEF WithTwo
<1>7. p \in Outputs
  BY <1>3, <1>6, Written, Zenon
<1>8. p[g] = b
  BY <1>1, <1>3, <1>6, FieldsAre
<1>9. Same(p, q, {g})
  BY <1>1, <1>3, <1>6, Spared
<1>10. p[f] = a
  BY <1>1, <1>4, <1>9 DEF Same
<1>11. Same(p, t, {f, g})
  BY <1>5, <1>9 DEF Same
<1> QED BY <1>7, <1>8, <1>10, <1>11

(***************************************************************************)
(* What a step leaves to shed                                              *)
(***************************************************************************)

LEMMA Sums ==
    ASSUME NEW a1 \in Nat, NEW a2 \in Nat, NEW a3 \in Nat, NEW a4 \in Nat, NEW a5 \in Nat, NEW a6 \in Nat,
           NEW a7 \in Nat, NEW a8 \in Nat, NEW a9 \in Nat,
           NEW b1 \in 0 .. a1, NEW b2 \in 0 .. a2, NEW b3 \in 0 .. a3, NEW b4 \in 0 .. a4, NEW b5 \in 0 .. a5,
           NEW b6 \in 0 .. a6, NEW b7 \in 0 .. a7, NEW b8 \in 0 .. a8, NEW b9 \in 0 .. a9,
           NEW r, r = a1 + a2 + a3 + a4 + a5 + a6 + a7 + a8 + a9,
           NEW q, q = b1 + b2 + b3 + b4 + b5 + b6 + b7 + b8 + b9
    PROVE  /\ r \in Nat /\ q \in Nat /\ q <= r
           /\ (b1 < a1 \/ b2 < a2 \/ b3 < a3 \/ b4 < a4 \/ b5 < a5 \/ b6 < a6 \/ b7 < a7 \/ b8 < a8 \/ b9 < a9)
                => q <= r - 1
OBVIOUS
LEMMA CountersNat ==
    ASSUME NEW o \in Outputs
    PROVE  /\ o.fixed \in Nat
           /\ o.files \in Nat /\ o.untracked \in Nat /\ o.named \in Nat /\ o.layout \in Nat /\ o.unread \in Nat
           /\ o.contracts \in Nat /\ o.stale \in Nat /\ o.changed \in Seq(Symbols) /\ Len(o.changed) \in Nat
           /\ Callers(o, Kinds) \in Nat
<1>1. o.changed \in Seq(Symbols)
  BY DEF Outputs
<1>2. Len(o.changed) \in Nat
  BY <1>1
<1>3. Callers(o, Kinds) \in Nat
  BY CallersIs
<1> QED BY <1>1, <1>2, <1>3 DEF Outputs

LEMMA RowsLess ==
    ASSUME NEW o \in Outputs, NEW p \in Outputs,
           p.files <= o.files, p.untracked <= o.untracked, p.named <= o.named, p.layout <= o.layout,
           p.unread <= o.unread, p.contracts <= o.contracts, p.stale <= o.stale,
           Len(p.changed) <= Len(o.changed), Callers(p, Kinds) <= Callers(o, Kinds)
    PROVE  /\ Rows(o) \in Nat /\ Rows(p) \in Nat /\ Rows(p) <= Rows(o)
           /\ \/ p.files < o.files \/ p.untracked < o.untracked \/ p.named < o.named \/ p.layout < o.layout
              \/ p.unread < o.unread \/ p.contracts < o.contracts \/ p.stale < o.stale
              \/ Len(p.changed) < Len(o.changed) \/ Callers(p, Kinds) < Callers(o, Kinds)
              => Rows(p) <= Rows(o) - 1
<1> DEFINE a1 == o.files  a2 == o.untracked  a3 == o.named  a4 == o.layout  a5 == o.unread  a6 == o.contracts
           a7 == o.stale  a8 == Len(o.changed)  a9 == Callers(o, Kinds)
           b1 == p.files  b2 == p.untracked  b3 == p.named  b4 == p.layout  b5 == p.unread  b6 == p.contracts
           b7 == p.stale  b8 == Len(p.changed)  b9 == Callers(p, Kinds)
           r == Rows(o)  q == Rows(p)
<1>1. /\ a1 \in Nat /\ a2 \in Nat /\ a3 \in Nat /\ a4 \in Nat /\ a5 \in Nat /\ a6 \in Nat /\ a7 \in Nat
      /\ a8 \in Nat /\ a9 \in Nat
  BY CountersNat
<1>2. /\ b1 \in 0 .. a1 /\ b2 \in 0 .. a2 /\ b3 \in 0 .. a3 /\ b4 \in 0 .. a4 /\ b5 \in 0 .. a5
      /\ b6 \in 0 .. a6 /\ b7 \in 0 .. a7 /\ b8 \in 0 .. a8 /\ b9 \in 0 .. a9
  <2>1. /\ b1 \in Nat /\ b2 \in Nat /\ b3 \in Nat /\ b4 \in Nat /\ b5 \in Nat /\ b6 \in Nat /\ b7 \in Nat
        /\ b8 \in Nat /\ b9 \in Nat
    BY CountersNat
  <2> QED BY <1>1, <2>1
<1>3. r = a1 + a2 + a3 + a4 + a5 + a6 + a7 + a8 + a9 /\ q = b1 + b2 + b3 + b4 + b5 + b6 + b7 + b8 + b9
  BY DEF Rows
<1>4. /\ r \in Nat /\ q \in Nat /\ q <= r
      /\ (b1 < a1 \/ b2 < a2 \/ b3 < a3 \/ b4 < a4 \/ b5 < a5 \/ b6 < a6 \/ b7 < a7 \/ b8 < a8 \/ b9 < a9)
           => q <= r - 1
  <2> HIDE DEF a1, a2, a3, a4, a5, a6, a7, a8, a9, b1, b2, b3, b4, b5, b6, b7, b8, b9, r, q
  <2> QED BY <1>1, <1>2, <1>3, Sums
<1> QED BY <1>4

Named(o) == o.named > 0 \/ o.namedOmitted > 0
Potential(o) == Rows(o) + (IF Named(o) THEN 1 ELSE 0)
Shrinks(p, o) == Potential(p) < Potential(o)

LEMMA RowsNat == ASSUME NEW o \in Outputs PROVE Rows(o) \in Nat /\ Potential(o) \in Nat
<1>1. Rows(o) \in Nat
  BY CountersNat, RowsLess
<1> QED BY <1>1 DEF Potential

LEMMA ShrinksByRow ==
    ASSUME NEW o \in Outputs, NEW p \in Outputs, Rows(p) <= Rows(o) - 1, Named(p) => Named(o)
    PROVE  Shrinks(p, o)
<1>1. Rows(p) \in Nat /\ Rows(o) \in Nat
  BY RowsNat
<1> QED BY <1>1 DEF Potential, Shrinks

\* A listing shrinks and what left it is counted.
LEMMA ListingShrinks ==
    ASSUME NEW o \in Outputs, NEW p \in Outputs, NEW f \in Listings, NEW g \in Omissions,
           Same(p, o, {f, g}), p[f] < o[f], g = "namedOmitted" => f = "named"
    PROVE  Shrinks(p, o)
<1>1. \A h \in Listings : p[h] <= o[h]
  <2> SUFFICES ASSUME NEW h \in Listings PROVE p[h] <= o[h]
    OBVIOUS
  <2>1. o[h] \in Nat /\ p[h] \in Nat
    BY CounterIs DEF Counters, Fields, Listings, Omissions
  <2>2. h # g /\ h \in Fields
    BY DEF Fields, Listings, Omissions
  <2>3. CASE h = f
    BY <2>1, <2>3
  <2>4. CASE h # f
    BY <2>1, <2>2, <2>4 DEF Same
  <2> QED BY <2>3, <2>4
<1>2. /\ p.files <= o.files /\ p.untracked <= o.untracked /\ p.named <= o.named /\ p.layout <= o.layout
      /\ p.unread <= o.unread /\ p.contracts <= o.contracts /\ p.stale <= o.stale
  BY <1>1 DEF Listings
<1>3. \/ p.files < o.files \/ p.untracked < o.untracked \/ p.named < o.named \/ p.layout < o.layout
      \/ p.unread < o.unread \/ p.contracts < o.contracts \/ p.stale < o.stale
  BY DEF Listings
<1>4. p.changed = o.changed
  BY DEF Same, Fields, Listings, Omissions
<1>5. Len(p.changed) <= Len(o.changed) /\ Callers(p, Kinds) <= Callers(o, Kinds)
  BY <1>4, CallersIs, CountersNat
<1>6. Rows(p) <= Rows(o) - 1
  BY <1>2, <1>3, <1>5, RowsLess
<1>8. Named(p) => Named(o)
  <2>1. CASE f = "named"
    <3>1. p.named < o.named /\ o.named \in Nat /\ p.named \in Nat
      BY <2>1, CountersNat
    <3> QED BY <3>1 DEF Named
  <2>2. CASE f # "named"
    <3>1. g # "namedOmitted"
      BY <2>2
    <3>2. p.named = o.named /\ p.namedOmitted = o.namedOmitted
      BY <2>2, <3>1 DEF Same, Fields, Listings, Omissions
    <3> QED BY <3>2 DEF Named
  <2> QED BY <2>1, <2>2
<1> QED BY <1>6, <1>8, ShrinksByRow

(***************************************************************************)
(* What a step takes from                                                  *)
(***************************************************************************)

Aside == {"empty", "untracked", "untrackedOmitted"}

LEMMA SourceIs ==
    /\ DOMAIN Sources = 1 .. 11
    /\ Sources[1] = "files" /\ Sources[2] = "named" /\ Sources[3] = "namedCount" /\ Sources[4] = "layout"
    /\ Sources[5] = "unread" /\ Sources[6] = "textual" /\ Sources[7] = "possible" /\ Sources[8] = "contracts"
    /\ Sources[9] = "hollow" /\ Sources[10] = "weakest" /\ Sources[11] = "stale"
BY DEF Sources

LEMMA SamePlaces ==
    ASSUME NEW o, NEW t, t.changed = o.changed
    PROVE  /\ \A e : With(t, e) = With(o, e)
           /\ Hollow(t) = Hollow(o)
           /\ \A n : CalledBy(t, n) = CalledBy(o, n)
           /\ Weakest(t) = Weakest(o)
           /\ \A i : SymbolMayGo(t, i) = SymbolMayGo(o, i)
<1>1. \A n : CalledBy(t, n) = CalledBy(o, n)
  BY DEF CalledBy
<1>2. Weakest(t) = Weakest(o)
  BY <1>1 DEF Weakest
<1> QED BY <1>1, <1>2 DEF With, Hollow, SymbolMayGo

LEMMA SameGiving ==
    ASSUME NEW o, NEW t, Same(t, o, Aside)
    PROVE  Giving(t) = Giving(o)
<1>1. /\ t.changed = o.changed /\ t.files = o.files /\ t.named = o.named /\ t.namedOmitted = o.namedOmitted
      /\ t.layout = o.layout /\ t.unread = o.unread /\ t.contracts = o.contracts /\ t.stale = o.stale
  BY DEF Same, Aside, Fields, Listings, Omissions
<1>2. ASSUME NEW i \in DOMAIN Sources PROVE CanGive(t, Sources[i]) = CanGive(o, Sources[i])
  BY <1>1, SamePlaces DEF CanGive
<1> QED BY <1>2 DEF Giving

LEMMA Trimmed ==
    ASSUME NEW o \in Outputs, NEW t, t = TrimUntracked(o)
    PROVE  /\ t \in Outputs /\ Same(t, o, {"untracked", "untrackedOmitted"})
           /\ TrimUntracked(t) = t /\ Giving(t) = Giving(o)
           /\ Potential(t) <= Potential(o)
<1>0. FilesListed \in Nat /\ o.untracked \in Nat /\ o.untrackedOmitted \in Nat
  BY ListsAreShort, CounterIs DEF Outputs
<1>1. CASE o.untracked <= FilesListed
  <2>1. t = o
    BY <1>1 DEF TrimUntracked
  <2>2. TrimUntracked(t) = t
    BY <2>1
  <2>3. Potential(t) <= Potential(o)
    BY <2>1, RowsNat
  <2> QED BY <2>1, <2>2, <2>3 DEF Same
<1>2. CASE ~(o.untracked <= FilesListed)
  <2> DEFINE f == "untracked"  g == "untrackedOmitted"
             a == FilesListed  b == o.untrackedOmitted + o.untracked - FilesListed
  <2>1. t = WithTwo(o, f, a, g, b)
    BY <1>2 DEF TrimUntracked, WithTwo
  <2>2. f \in Counters /\ g \in Counters /\ f # g /\ f \in Listings /\ g \in Omissions /\ g # "namedOmitted"
    BY DEF Counters, Fields, Listings, Omissions
  <2>3. a \in Nat /\ b \in Nat
    BY <1>0, <1>2
  <2>4. o[f] > a /\ o[f] = o.untracked
    BY <1>0, <1>2
  <2> HIDE DEF f, g, a, b
  <2>5. t \in Outputs /\ t[f] = a /\ t[g] = b /\ Same(t, o, {f, g})
    BY <2>1, <2>2, <2>3, TwoWritten
  <2>6. Shrinks(t, o)
    <3>1. t[f] < o[f]
      BY <2>3, <2>4, <2>5
    <3> QED BY <2>2, <2>5, <3>1, ListingShrinks
  <2>7. TrimUntracked(t) = t
    <3>1. t.untracked = FilesListed
      BY <2>5 DEF f, a
    <3> QED BY <1>0, <3>1 DEF TrimUntracked
  <2>8. Giving(t) = Giving(o)
    <3>1. Same(t, o, Aside)
      BY <2>5 DEF Same, Aside, f, g
    <3> QED BY <3>1, SameGiving
  <2> QED BY <2>5, <2>6, <2>7, <2>8, RowsNat DEF Shrinks, f, g
<1> QED BY <1>1, <1>2

Unnamed(o) == o.named = 0 /\ o.namedOmitted = 0
NoGuess(o) == With(o, "name") = {} /\ With(o, "candidate") = {}

\* The source is the first of the list that has something to give.
LEMMA FirstGives ==
    ASSUME NEW o, Giving(o) # {}, NEW n, n = Min(Giving(o))
    PROVE  n \in 1 .. 11 /\ CanGive(o, Sources[n]) /\ \A k \in 1 .. n - 1 : ~CanGive(o, Sources[k])
<1>1. Giving(o) \subseteq Nat /\ \A k : k \in Giving(o) <=> k \in 1 .. 11 /\ CanGive(o, Sources[k])
  BY SourceIs DEF Giving
<1>2. n \in Giving(o) /\ \A m \in Giving(o) : n <= m
  BY <1>1, MinIs
<1>3. ASSUME NEW k \in 1 .. n - 1 PROVE ~CanGive(o, Sources[k])
  <2>1. k \in 1 .. 11 /\ ~(n <= k)
    BY <1>1, <1>2
  <2> QED BY <1>1, <1>2, <2>1
<1> QED BY <1>1, <1>2, <1>3

LEMMA Gives ==
    ASSUME NEW o
    PROVE  /\ CanGive(o, "files") <=> (o.files > FilesListed)
           /\ CanGive(o, "named") <=> (o.named > 0)
           /\ CanGive(o, "namedCount") <=> (o.namedOmitted > 0)
           /\ CanGive(o, "layout") <=> (o.layout > LayoutListed)
           /\ CanGive(o, "unread") <=> (o.unread > UnreadListed)
           /\ CanGive(o, "textual") <=> (With(o, "name") # {})
           /\ CanGive(o, "possible") <=> (With(o, "candidate") # {})
           /\ CanGive(o, "contracts") <=> (o.contracts > 0)
           /\ CanGive(o, "hollow") <=> (Hollow(o) # {})
           /\ CanGive(o, "weakest") <=> (CalledBy(o, 1) # {} /\
                                  (CalledBy(o, 2) # {} \/ SymbolMayGo(o, Weakest(o))))
           /\ CanGive(o, "stale") <=> (o.stale > 0)
BY DEF CanGive

LEMMA Given ==
    ASSUME NEW o
    PROVE  /\ Give(o, "files") = [o EXCEPT !.files = FilesListed, !.filesOmitted = @ + o.files - FilesListed]
           /\ Give(o, "named") = [o EXCEPT !.named = @ - 1, !.namedOmitted = @ + 1]
           /\ Give(o, "namedCount") = [o EXCEPT !.namedOmitted = 0]
           /\ Give(o, "layout") = [o EXCEPT !.layout = LayoutListed, !.layoutOmitted = @ + o.layout - LayoutListed]
           /\ Give(o, "unread") = [o EXCEPT !.unread = UnreadListed, !.unreadOmitted = @ + o.unread - UnreadListed]
           /\ Give(o, "textual") = DropRow(o, "name")
           /\ Give(o, "possible") = DropRow(o, "candidate")
           /\ Give(o, "contracts") = [o EXCEPT !.contracts = @ - 1, !.contractsOmitted = @ + 1]
           /\ Give(o, "hollow") = DropSymbol(o, Max(Hollow(o)))
           /\ Give(o, "weakest") = ShedWeakest(o)
           /\ Give(o, "stale") = [o EXCEPT !.stale = @ - 1, !.staleOmitted = @ + 1]
BY DEF Give

\* A listing gave way; the count of the naming lines did; a caller or a symbol.
ListingGives(p, t) ==
    \/ t.files > FilesListed /\
       p = [t EXCEPT !.files = FilesListed, !.filesOmitted = @ + t.files - FilesListed]
    \/ t.named > 0 /\ p = [t EXCEPT !.named = @ - 1, !.namedOmitted = @ + 1]
    \/ t.layout > LayoutListed /\
       p = [t EXCEPT !.layout = LayoutListed, !.layoutOmitted = @ + t.layout - LayoutListed]
    \/ t.unread > UnreadListed /\
       p = [t EXCEPT !.unread = UnreadListed, !.unreadOmitted = @ + t.unread - UnreadListed]
    \/ t.contracts > 0 /\ p = [t EXCEPT !.contracts = @ - 1, !.contractsOmitted = @ + 1]
    \/ t.stale > 0 /\ p = [t EXCEPT !.stale = @ - 1, !.staleOmitted = @ + 1]
CountGives(p, t) == t.named = 0 /\ t.namedOmitted > 0 /\ p = [t EXCEPT !.namedOmitted = 0]
GuessGives(p, t) ==
    Unnamed(t) /\ \E e \in {"name", "candidate"} : With(t, e) # {} /\ p = DropRow(t, e)
HollowGives(p, t) == Unnamed(t) /\ Hollow(t) # {} /\ p = DropSymbol(t, Max(Hollow(t)))
CallerGives(p, t) ==
    /\ Unnamed(t) /\ NoGuess(t) /\ t.contracts = 0
    /\ CalledBy(t, 1) # {} /\ (CalledBy(t, 2) # {} \/ SymbolMayGo(t, Weakest(t)))
    /\ p = ShedWeakest(t)

LEMMA StepIs ==
    ASSUME NEW o \in Outputs, ~Bare(o), NEW t, t = TrimUntracked(o), NEW p, p = ShedOne(o)
    PROVE  ListingGives(p, t) \/ CountGives(p, t) \/ GuessGives(p, t) \/ HollowGives(p, t) \/ CallerGives(p, t)
<1>1. t \in Outputs /\ Giving(t) = Giving(o) /\ Giving(t) # {}
  BY Trimmed DEF Bare
<1>2. PICK n : n = Min(Giving(t))
  OBVIOUS
<1>3. n \in 1 .. 11 /\ CanGive(t, Sources[n]) /\ \A k \in 1 .. n - 1 : ~CanGive(t, Sources[k])
  BY <1>1, <1>2, FirstGives
<1>4. p = Give(t, Sources[n])
  BY <1>1, <1>2 DEF ShedOne
<1>5. t.named \in Nat /\ t.namedOmitted \in Nat /\ t.contracts \in Nat
  BY <1>1 DEF Outputs
<1>6. n > 2 => t.named = 0
  <2>1. n > 2 => ~CanGive(t, "named")
    BY <1>3, SourceIs
  <2> QED BY <1>5, <2>1, Gives
<1>7. n > 3 => Unnamed(t)
  <2>1. n > 3 => ~CanGive(t, "namedCount")
    BY <1>3, SourceIs
  <2> QED BY <1>3, <1>5, <1>6, <2>1, Gives DEF Unnamed
<1>8. n > 7 => NoGuess(t)
  <2>1. n > 7 => ~CanGive(t, "textual") /\ ~CanGive(t, "possible")
    BY <1>3, SourceIs
  <2> QED BY <2>1, Gives DEF NoGuess
<1>9. n > 8 => t.contracts = 0
  <2>1. n > 8 => ~CanGive(t, "contracts")
    BY <1>3, SourceIs
  <2> QED BY <1>5, <2>1, Gives
<1>10. CASE n = 1
  <2>1. CanGive(t, "files") /\ p = Give(t, "files")
    BY <1>3, <1>4, <1>10, SourceIs
  <2> QED BY <2>1, Gives, Given DEF ListingGives
<1>11. CASE n = 2
  <2>1. CanGive(t, "named") /\ p = Give(t, "named")
    BY <1>3, <1>4, <1>11, SourceIs
  <2> QED BY <2>1, Gives, Given DEF ListingGives
<1>12. CASE n = 3
  <2>1. CanGive(t, "namedCount") /\ p = Give(t, "namedCount")
    BY <1>3, <1>4, <1>12, SourceIs
  <2>2. t.named = 0
    BY <1>6, <1>12
  <2> QED BY <2>1, <2>2, Gives, Given DEF CountGives
<1>13. CASE n = 4
  <2>1. CanGive(t, "layout") /\ p = Give(t, "layout")
    BY <1>3, <1>4, <1>13, SourceIs
  <2> QED BY <2>1, Gives, Given DEF ListingGives
<1>14. CASE n = 5
  <2>1. CanGive(t, "unread") /\ p = Give(t, "unread")
    BY <1>3, <1>4, <1>14, SourceIs
  <2> QED BY <2>1, Gives, Given DEF ListingGives
<1>15. CASE n = 6
  <2>1. CanGive(t, "textual") /\ p = Give(t, "textual")
    BY <1>3, <1>4, <1>15, SourceIs
  <2>2. Unnamed(t)
    BY <1>7, <1>15
  <2> QED BY <2>1, <2>2, Gives, Given DEF GuessGives
<1>16. CASE n = 7
  <2>1. CanGive(t, "possible") /\ p = Give(t, "possible")
    BY <1>3, <1>4, <1>16, SourceIs
  <2>2. Unnamed(t)
    BY <1>7, <1>16
  <2> QED BY <2>1, <2>2, Gives, Given DEF GuessGives
<1>17. CASE n = 8
  <2>1. CanGive(t, "contracts") /\ p = Give(t, "contracts")
    BY <1>3, <1>4, <1>17, SourceIs
  <2> QED BY <2>1, Gives, Given DEF ListingGives
<1>18. CASE n = 9
  <2>1. CanGive(t, "hollow") /\ p = Give(t, "hollow")
    BY <1>3, <1>4, <1>18, SourceIs
  <2>2. Unnamed(t)
    BY <1>7, <1>18
  <2> QED BY <2>1, <2>2, Gives, Given DEF HollowGives
<1>19. CASE n = 10
  <2>1. CanGive(t, "weakest") /\ p = Give(t, "weakest")
    BY <1>3, <1>4, <1>19, SourceIs
  <2>2. Unnamed(t) /\ NoGuess(t) /\ t.contracts = 0
    BY <1>7, <1>8, <1>9, <1>19
  <2> QED BY <2>1, <2>2, Gives, Given DEF CallerGives
<1>20. CASE n = 11
  <2>1. CanGive(t, "stale") /\ p = Give(t, "stale")
    BY <1>3, <1>4, <1>20, SourceIs
  <2> QED BY <2>1, Gives, Given DEF ListingGives
<1> QED BY <1>3, <1>10, <1>11, <1>12, <1>13, <1>14, <1>15, <1>16, <1>17, <1>18, <1>19, <1>20

(***************************************************************************)
(* What a step takes                                                       *)
(***************************************************************************)

Tallies == {"changed", "truncated", "possible", "textual", "symbolsOmitted"}
GuessesGone(o) == Unnamed(o) /\ NoGuess(o) /\ o.contracts = 0

\* Nothing of `changed`; a row; a symbol.
RowsUntouched(p, t) ==
    /\ \A f \in Tallies : p[f] = t[f]
    /\ Unnamed(t) => Unnamed(p)
    /\ p.contracts <= t.contracts
RowGone(p, t, i, j) ==
    /\ Same(p, t, Tallies)
    /\ RowLost(p.changed, t.changed, i, j)
    /\ p.truncated = t.truncated + 1 /\ p.symbolsOmitted = t.symbolsOmitted
    /\ p.possible = t.possible + (IF t.changed[i].callers[j].evidence = "candidate" THEN 1 ELSE 0)
    /\ p.textual = t.textual + (IF t.changed[i].callers[j].evidence = "name" THEN 1 ELSE 0)
SymbolGone(p, t, i) ==
    /\ Same(p, t, Tallies)
    /\ SymbolLost(p.changed, t.changed, i)
    /\ p.truncated = t.truncated + Len(t.changed[i].callers) /\ p.symbolsOmitted = t.symbolsOmitted + 1
    /\ p.possible = t.possible /\ p.textual = t.textual

GuessGone(p, t, i, j) ==
    /\ Unnamed(t) /\ RowGone(p, t, i, j)
    /\ t.changed[i].callers[j].evidence \in {"name", "candidate"}
TailGone(p, t, i) ==
    /\ GuessesGone(t) /\ i \in DOMAIN t.changed /\ Len(t.changed[i].callers) > 1
    /\ RowGone(p, t, i, Len(t.changed[i].callers))
HollowGone(p, t, i) == Unnamed(t) /\ i \in Hollow(t) /\ SymbolGone(p, t, i)
OnlyGone(p, t, i) ==
    /\ GuessesGone(t) /\ CalledBy(t, 2) = {} /\ i \in DOMAIN t.changed /\ Len(t.changed[i].callers) = 1
    /\ ~t.changed[i].unresolved
    /\ SymbolGone(p, t, i)

Outcome(p, t) ==
    \/ RowsUntouched(p, t)
    \/ \E i, j : GuessGone(p, t, i, j)
    \/ \E i : TailGone(p, t, i) \/ HollowGone(p, t, i) \/ OnlyGone(p, t, i)

LEMMA ChangedIs ==
    ASSUME NEW o \in Outputs
    PROVE  /\ o.changed \in Seq(Symbols) /\ o.truncated \in Nat /\ o.possible \in Nat /\ o.textual \in Nat
           /\ o.symbolsOmitted \in Nat /\ o.contracts \in Nat /\ o.named \in Nat /\ o.namedOmitted \in Nat
BY DEF Outputs

LEMMA RowWritten ==
    ASSUME NEW ch \in Seq(Symbols), NEW i \in DOMAIN ch, NEW j \in DOMAIN ch[i].callers,
           NEW c, c \in Seq([evidence : Kinds, weight : Nat]), IsWithout(c, ch[i].callers, j),
           NEW ch2, ch2 = [ch EXCEPT ![i] = [@ EXCEPT !.callers = c]]
    PROVE  RowLost(ch2, ch, i, j)
<1> DEFINE x == [ch[i] EXCEPT !.callers = c]
<1>1. ch[i] \in Symbols /\ i \in 1 .. Len(ch)
  BY SymbolIs
<1>2. /\ x \in Symbols /\ x.callers = c
      /\ x.id = ch[i].id /\ x.unresolved = ch[i].unresolved /\ x.compatible = ch[i].compatible
  BY <1>1 DEF Symbols
<1>3. ch2 = [ch EXCEPT ![i] = x]
  OBVIOUS
<1> HIDE DEF x
<1>4. ch2 \in Seq(Symbols) /\ Len(ch2) = Len(ch) /\ ch2[i] = x /\ \A k \in DOMAIN ch \ {i} : ch2[k] = ch[k]
  <2> DEFINE n == Len(ch)
  <2>1. n \in Nat /\ DOMAIN ch = 1 .. n /\ ch \in [1 .. n -> Symbols]
    OBVIOUS
  <2>2. ch2 \in [1 .. n -> Symbols] /\ ch2[i] = x /\ \A k \in DOMAIN ch \ {i} : ch2[k] = ch[k]
    <3> HIDE DEF n
    <3> QED BY <2>1, <1>1, <1>2, <1>3
  <2>3. ch2 \in Seq(Symbols) /\ Len(ch2) = n
    <3> HIDE DEF n
    <3> QED BY <2>1, <2>2
  <2> QED BY <2>2, <2>3
<1> QED BY <1>2, <1>4 DEF RowLost

LEMMA SameBeside ==
    ASSUME NEW p, NEW t, Same(p, t, Tallies)
    PROVE  /\ p.fixed = t.fixed /\ p.named = t.named /\ p.namedOmitted = t.namedOmitted /\ p.contracts = t.contracts
           /\ p.files = t.files /\ p.untracked = t.untracked /\ p.layout = t.layout /\ p.unread = t.unread
           /\ p.stale = t.stale
           /\ \A g \in Omissions \ {"truncated"} : p[g] = t[g]
BY DEF Same, Tallies, Fields, Listings, Omissions

LEMMA ChangeShrinks ==
    ASSUME NEW p \in Outputs, NEW t \in Outputs, Same(p, t, Tallies),
           Len(p.changed) <= Len(t.changed), Callers(p, Kinds) <= Callers(t, Kinds),
           Len(p.changed) < Len(t.changed) \/ Callers(p, Kinds) < Callers(t, Kinds)
    PROVE  Shrinks(p, t)
<1>1. Rows(p) <= Rows(t) - 1
  <2>1. /\ p.files <= t.files /\ p.untracked <= t.untracked /\ p.named <= t.named /\ p.layout <= t.layout
        /\ p.unread <= t.unread /\ p.contracts <= t.contracts /\ p.stale <= t.stale
    BY SameBeside, CountersNat
  <2> QED BY <2>1, RowsLess
<1>2. Named(p) => Named(t)
  BY SameBeside DEF Named
<1> QED BY <1>1, <1>2, ShrinksByRow

LEMMA RowShrinks ==
    ASSUME NEW p \in Outputs, NEW t \in Outputs, NEW i, NEW j, RowGone(p, t, i, j)
    PROVE  Shrinks(p, t)
<1>1. RowLost(p.changed, t.changed, i, j) /\ Same(p, t, Tallies) /\ i \in DOMAIN t.changed
      /\ j \in DOMAIN t.changed[i].callers /\ Len(p.changed) = Len(t.changed)
  BY DEF RowGone, RowLost
<1>2. t.changed[i].callers[j].evidence \in Kinds /\ t.changed \in Seq(Symbols)
  BY <1>1, ChangedIs, SymbolIs
<1>3. Cardinality(Places(p.changed, Kinds)) + 1 = Cardinality(Places(t.changed, Kinds))
  BY <1>1, <1>2, RowCount
<1>4. Callers(p, Kinds) + 1 = Callers(t, Kinds) /\ Callers(p, Kinds) \in Nat /\ Len(t.changed) \in Nat
  BY <1>3, CallersIs, CountersNat
<1>5. Callers(p, Kinds) < Callers(t, Kinds) /\ Len(p.changed) <= Len(t.changed) /\ Callers(p, Kinds) <= Callers(t, Kinds)
  BY <1>1, <1>4
<1> QED BY <1>1, <1>5, ChangeShrinks

LEMMA SymbolShrinks ==
    ASSUME NEW p \in Outputs, NEW t \in Outputs, NEW i, SymbolGone(p, t, i)
    PROVE  Shrinks(p, t)
<1>1. SymbolLost(p.changed, t.changed, i) /\ Same(p, t, Tallies) /\ Len(p.changed) = Len(t.changed) - 1
  BY DEF SymbolGone, SymbolLost, IsWithout
<1> DEFINE R == {q \in Places(t.changed, Kinds) : q[1] = i}
<1>2. Cardinality(Places(p.changed, Kinds)) + Cardinality(R) = Cardinality(Places(t.changed, Kinds))
  BY <1>1, ChangedIs, SymbolCount
<1>3. Cardinality(R) \in Nat
  <2>1. IsFiniteSet(Places(t.changed, Kinds)) /\ R \subseteq Places(t.changed, Kinds)
    BY PlacesFinite, ChangedIs
  <2> QED BY <2>1, FS_Subset, FS_CardinalityType
<1> HIDE DEF R
<1>4. Callers(p, Kinds) <= Callers(t, Kinds) /\ Len(p.changed) < Len(t.changed) /\ Len(p.changed) <= Len(t.changed)
  BY <1>1, <1>2, <1>3, CallersIs, CountersNat
<1> QED BY <1>1, <1>4, ChangeShrinks

(***************************************************************************)
(* Each source in turn                                                     *)
(***************************************************************************)

LEMMA ListingOut ==
    ASSUME NEW t \in Outputs, NEW p \in Outputs, NEW f \in Listings \ {"untracked"}, NEW g \in Omissions \ {"truncated"},
           Same(p, t, {f, g}), p[f] < t[f], (g = "namedOmitted") <=> (f = "named")
    PROVE  Shrinks(p, t) /\ RowsUntouched(p, t)
<1>2. Same(p, t, {f, g})
  OBVIOUS
<1>3. Shrinks(p, t)
  BY <1>2, ListingShrinks
<1>4. \A h \in Tallies : p[h] = t[h]
  BY <1>2 DEF Same, Tallies, Fields, Listings, Omissions
<1>5. Unnamed(t) => Unnamed(p)
  <2>1. CASE f = "named"
    <3>1. t.named \in Nat /\ p.named \in Nat /\ p.named < t.named
      BY <2>1, ChangedIs
    <3> QED BY <3>1 DEF Unnamed
  <2>2. CASE f # "named"
    <3>1. g # "namedOmitted"
      BY <2>2
    <3>2. p.named = t.named /\ p.namedOmitted = t.namedOmitted
      BY <1>2, <2>2, <3>1 DEF Same, Fields, Listings, Omissions
    <3> QED BY <3>2 DEF Unnamed
  <2> QED BY <2>1, <2>2
<1>6. p.contracts <= t.contracts
  <2>1. CASE f = "contracts"
    <3>1. p.contracts < t.contracts /\ t.contracts \in Nat /\ p.contracts \in Nat
      BY <1>2, <2>1, ChangedIs
    <3> QED BY <3>1
  <2>2. CASE f # "contracts"
    <3>1. p.contracts = t.contracts
      BY <1>2, <2>2 DEF Same, Fields, Listings, Omissions
    <3> QED BY <3>1, ChangedIs
  <2> QED BY <2>1, <2>2
<1> QED BY <1>2, <1>3, <1>4, <1>5, <1>6 DEF RowsUntouched

LEMMA ListingGone ==
    ASSUME NEW t \in Outputs, NEW f \in Listings \ {"untracked"}, NEW g \in Omissions \ {"truncated"},
           (g = "namedOmitted") <=> (f = "named"),
           NEW a \in Nat, NEW b \in Nat, a < t[f], NEW p, p = WithTwo(t, f, a, g, b)
    PROVE  p \in Outputs /\ Shrinks(p, t) /\ RowsUntouched(p, t)
<1>1. f \in Counters /\ g \in Counters /\ f # g
  BY DEF Counters, Fields, Listings, Omissions
<1>2. p \in Outputs /\ p[f] = a /\ p[g] = b /\ Same(p, t, {f, g})
  BY <1>1, TwoWritten
<1> QED BY <1>2, ListingOut

LEMMA ListingsOut ==
    ASSUME NEW t \in Outputs, NEW p, ListingGives(p, t)
    PROVE  p \in Outputs /\ Shrinks(p, t) /\ RowsUntouched(p, t)
<1>1. FilesListed \in Nat /\ LayoutListed \in Nat /\ UnreadListed \in Nat
  BY ListsAreShort
<1>2. /\ t.files \in Nat /\ t.named \in Nat /\ t.layout \in Nat /\ t.unread \in Nat /\ t.contracts \in Nat
      /\ t.stale \in Nat /\ t.filesOmitted \in Nat /\ t.namedOmitted \in Nat /\ t.layoutOmitted \in Nat
      /\ t.unreadOmitted \in Nat /\ t.contractsOmitted \in Nat /\ t.staleOmitted \in Nat
  BY DEF Outputs
<1>3. CASE t.files > FilesListed /\ p = [t EXCEPT !.files = FilesListed, !.filesOmitted = t.filesOmitted + t.files - FilesListed]
  <2> DEFINE f == "files"  g == "filesOmitted"  a == FilesListed  b == t.filesOmitted + t.files - FilesListed
  <2>1. p = WithTwo(t, f, a, g, b)
    BY <1>3 DEF WithTwo
  <2>2. f \in Listings \ {"untracked"} /\ g \in Omissions \ {"truncated"} /\ ((g = "namedOmitted") <=> (f = "named"))
    BY DEF Listings, Omissions
  <2>3. a \in Nat /\ b \in Nat /\ a < t[f]
    BY <1>1, <1>2, <1>3
  <2> HIDE DEF f, g, a, b
  <2> QED BY <2>1, <2>2, <2>3, ListingGone
<1>4. CASE t.named > 0 /\ p = [t EXCEPT !.named = t.named - 1, !.namedOmitted = t.namedOmitted + 1]
  <2> DEFINE f == "named"  g == "namedOmitted"  a == t.named - 1  b == t.namedOmitted + 1
  <2>1. p = WithTwo(t, f, a, g, b)
    BY <1>4 DEF WithTwo
  <2>2. f \in Listings \ {"untracked"} /\ g \in Omissions \ {"truncated"} /\ ((g = "namedOmitted") <=> (f = "named"))
    BY DEF Listings, Omissions
  <2>3. a \in Nat /\ b \in Nat /\ a < t[f]
    BY <1>1, <1>2, <1>4
  <2> HIDE DEF f, g, a, b
  <2> QED BY <2>1, <2>2, <2>3, ListingGone
<1>5. CASE t.layout > LayoutListed /\ p = [t EXCEPT !.layout = LayoutListed, !.layoutOmitted = t.layoutOmitted + t.layout - LayoutListed]
  <2> DEFINE f == "layout"  g == "layoutOmitted"  a == LayoutListed  b == t.layoutOmitted + t.layout - LayoutListed
  <2>1. p = WithTwo(t, f, a, g, b)
    BY <1>5 DEF WithTwo
  <2>2. f \in Listings \ {"untracked"} /\ g \in Omissions \ {"truncated"} /\ ((g = "namedOmitted") <=> (f = "named"))
    BY DEF Listings, Omissions
  <2>3. a \in Nat /\ b \in Nat /\ a < t[f]
    BY <1>1, <1>2, <1>5
  <2> HIDE DEF f, g, a, b
  <2> QED BY <2>1, <2>2, <2>3, ListingGone
<1>6. CASE t.unread > UnreadListed /\ p = [t EXCEPT !.unread = UnreadListed, !.unreadOmitted = t.unreadOmitted + t.unread - UnreadListed]
  <2> DEFINE f == "unread"  g == "unreadOmitted"  a == UnreadListed  b == t.unreadOmitted + t.unread - UnreadListed
  <2>1. p = WithTwo(t, f, a, g, b)
    BY <1>6 DEF WithTwo
  <2>2. f \in Listings \ {"untracked"} /\ g \in Omissions \ {"truncated"} /\ ((g = "namedOmitted") <=> (f = "named"))
    BY DEF Listings, Omissions
  <2>3. a \in Nat /\ b \in Nat /\ a < t[f]
    BY <1>1, <1>2, <1>6
  <2> HIDE DEF f, g, a, b
  <2> QED BY <2>1, <2>2, <2>3, ListingGone
<1>7. CASE t.contracts > 0 /\ p = [t EXCEPT !.contracts = t.contracts - 1, !.contractsOmitted = t.contractsOmitted + 1]
  <2> DEFINE f == "contracts"  g == "contractsOmitted"  a == t.contracts - 1  b == t.contractsOmitted + 1
  <2>1. p = WithTwo(t, f, a, g, b)
    BY <1>7 DEF WithTwo
  <2>2. f \in Listings \ {"untracked"} /\ g \in Omissions \ {"truncated"} /\ ((g = "namedOmitted") <=> (f = "named"))
    BY DEF Listings, Omissions
  <2>3. a \in Nat /\ b \in Nat /\ a < t[f]
    BY <1>1, <1>2, <1>7
  <2> HIDE DEF f, g, a, b
  <2> QED BY <2>1, <2>2, <2>3, ListingGone
<1>8. CASE t.stale > 0 /\ p = [t EXCEPT !.stale = t.stale - 1, !.staleOmitted = t.staleOmitted + 1]
  <2> DEFINE f == "stale"  g == "staleOmitted"  a == t.stale - 1  b == t.staleOmitted + 1
  <2>1. p = WithTwo(t, f, a, g, b)
    BY <1>8 DEF WithTwo
  <2>2. f \in Listings \ {"untracked"} /\ g \in Omissions \ {"truncated"} /\ ((g = "namedOmitted") <=> (f = "named"))
    BY DEF Listings, Omissions
  <2>3. a \in Nat /\ b \in Nat /\ a < t[f]
    BY <1>1, <1>2, <1>8
  <2> HIDE DEF f, g, a, b
  <2> QED BY <2>1, <2>2, <2>3, ListingGone
<1> QED BY <1>3, <1>4, <1>5, <1>6, <1>7, <1>8 DEF ListingGives

WithGuess(t, ch, a, b, c) == [t EXCEPT !.changed = ch, !.truncated = a, !.possible = b, !.textual = c]
Rewritten(p, t, ch, a, b, c, d) ==
    /\ p \in Outputs /\ p.changed = ch /\ p.truncated = a /\ p.possible = b /\ p.textual = c
    /\ p.symbolsOmitted = d /\ Same(p, t, Tallies)
WithTail(t, ch, a) == [t EXCEPT !.changed = ch, !.truncated = a]
WithSymbol(t, ch, a, b) == [t EXCEPT !.changed = ch, !.truncated = a, !.symbolsOmitted = b]

LEMMA GuessWritten ==
    ASSUME NEW t \in Outputs, NEW ch \in Seq(Symbols), NEW a \in Nat, NEW b \in Nat, NEW c \in Nat,
           NEW p, p = WithGuess(t, ch, a, b, c)
    PROVE  Rewritten(p, t, ch, a, b, c, t.symbolsOmitted)
<1>1. WithGuess(t, ch, a, b, c) \in Outputs
  BY DEF Outputs, WithGuess
<1>2. p.changed = ch /\ p.truncated = a /\ p.possible = b /\ p.textual = c /\ p.symbolsOmitted = t.symbolsOmitted
  BY DEF Outputs, WithGuess
<1>3. Same(p, t, Tallies)
  BY DEF Outputs, WithGuess, Same, Tallies, Fields, Listings, Omissions
<1> QED BY <1>1, <1>2, <1>3 DEF Rewritten

LEMMA TailWritten ==
    ASSUME NEW t \in Outputs, NEW ch \in Seq(Symbols), NEW a \in Nat,
           NEW p, p = WithTail(t, ch, a)
    PROVE  Rewritten(p, t, ch, a, t.possible, t.textual, t.symbolsOmitted)
<1>1. WithTail(t, ch, a) \in Outputs
  BY DEF Outputs, WithTail
<1>2. /\ p.changed = ch /\ p.truncated = a /\ p.possible = t.possible /\ p.textual = t.textual
      /\ p.symbolsOmitted = t.symbolsOmitted
  BY DEF Outputs, WithTail
<1>3. Same(p, t, Tallies)
  BY DEF Outputs, WithTail, Same, Tallies, Fields, Listings, Omissions
<1> QED BY <1>1, <1>2, <1>3 DEF Rewritten

LEMMA SymbolWritten ==
    ASSUME NEW t \in Outputs, NEW ch \in Seq(Symbols), NEW a \in Nat, NEW b \in Nat,
           NEW p, p = WithSymbol(t, ch, a, b)
    PROVE  Rewritten(p, t, ch, a, t.possible, t.textual, b)
<1>1. WithSymbol(t, ch, a, b) \in Outputs
  BY DEF Outputs, WithSymbol
<1>2. /\ p.changed = ch /\ p.truncated = a /\ p.possible = t.possible /\ p.textual = t.textual
      /\ p.symbolsOmitted = b
  BY DEF Outputs, WithSymbol
<1>3. Same(p, t, Tallies)
  BY DEF Outputs, WithSymbol, Same, Tallies, Fields, Listings, Omissions
<1> QED BY <1>1, <1>2, <1>3 DEF Rewritten

LEMMA CountOut ==
    ASSUME NEW t \in Outputs, NEW p, CountGives(p, t)
    PROVE  p \in Outputs /\ Shrinks(p, t) /\ RowsUntouched(p, t)
<1> DEFINE f == "namedOmitted"  a == 0
<1>1. p = [t EXCEPT ![f] = a] /\ f \in Counters /\ f \in Fields /\ a \in Nat
  BY DEF CountGives, Counters, Fields, Omissions
<1> HIDE DEF f, a
<1>2. p \in Outputs
  BY <1>1, Written, Zenon
<1>3. Same(p, t, {f})
  BY <1>1, Spared, Zenon
<1>4. p[f] = a
  BY <1>1, FieldsAre
<1>5. /\ \A h \in Listings : p[h] = t[h]
      /\ \A h \in Tallies : p[h] = t[h]
      /\ \A h \in Omissions \ {f} : p[h] = t[h]
      /\ p.fixed = t.fixed
  BY <1>3 DEF Same, f, Fields, Listings, Tallies, Omissions
<1>6. /\ p.files <= t.files /\ p.untracked <= t.untracked /\ p.named <= t.named /\ p.layout <= t.layout
      /\ p.unread <= t.unread /\ p.contracts <= t.contracts /\ p.stale <= t.stale
  BY <1>5, CountersNat DEF Listings
<1>7. p.changed = t.changed
  BY <1>5 DEF Tallies
<1>8. Rows(p) <= Rows(t)
  <2>1. Callers(p, Kinds) = Callers(t, Kinds)
    BY <1>7 DEF Callers
  <2>2. Len(t.changed) \in Nat /\ Callers(t, Kinds) \in Nat
    BY CountersNat
  <2>3. Len(p.changed) <= Len(t.changed) /\ Callers(p, Kinds) <= Callers(t, Kinds)
    BY <1>7, <2>1, <2>2
  <2> QED BY <1>2, <1>6, <2>3, RowsLess
<1>10. t.named = 0 /\ t.namedOmitted > 0 /\ p.named = 0 /\ p.namedOmitted = 0
  <2>1. p.namedOmitted = 0
    BY <1>4 DEF f, a
  <2> QED BY <2>1, <1>5 DEF CountGives, Listings
<1>12. Potential(p) < Potential(t)
  <2>1. Named(t) /\ ~Named(p)
    BY <1>10 DEF Named
  <2> QED BY <1>2, <1>8, <2>1, RowsNat DEF Potential
<1> QED BY <1>2, <1>5, <1>6, <1>10, <1>12 DEF Shrinks, RowsUntouched, Unnamed

LEMMA WithIs ==
    ASSUME NEW t \in Outputs, NEW e, With(t, e) # {}, NEW i, i = Min(With(t, e)), NEW j, j = LastOf(t, i, e)
    PROVE  i \in DOMAIN t.changed /\ j \in DOMAIN t.changed[i].callers /\ t.changed[i].callers[j].evidence = e
<1>0. t.changed \in Seq(Symbols)
  BY ChangedIs
<1>1. With(t, e) \subseteq Nat /\ With(t, e) \subseteq DOMAIN t.changed
  BY <1>0 DEF With
<1>2. i \in With(t, e)
  BY <1>1, MinIs
<1>3. i \in DOMAIN t.changed
  BY <1>1, <1>2
<1> DEFINE c == t.changed[i].callers  J == {k \in DOMAIN c : c[k].evidence = e}
<1>4. DOMAIN c = 1 .. Len(c) /\ Len(c) \in Nat
  BY <1>0, <1>3, SymbolIs
<1>5. J # {}
  BY <1>2 DEF With
<1>6. J \subseteq Nat /\ \A m \in J : m <= Len(c)
  BY <1>4
<1>7. j = Max(J)
  BY DEF LastOf
<1>8. Max(J) \in J
  <2> HIDE DEF J
  <2> QED BY <1>4, <1>5, <1>6, MaxIs
<1> QED BY <1>3, <1>7, <1>8

LEMMA GuessOut ==
    ASSUME NEW t \in Outputs, NEW p, GuessGives(p, t)
    PROVE  p \in Outputs /\ Shrinks(p, t) /\ \E i, j : GuessGone(p, t, i, j)
<1>1. PICK e \in {"name", "candidate"} : With(t, e) # {} /\ p = DropRow(t, e)
  BY DEF GuessGives
<1>2. PICK i : i = Min(With(t, e))
  OBVIOUS
<1>3. PICK j : j = LastOf(t, i, e)
  OBVIOUS
<1>4. i \in DOMAIN t.changed /\ j \in DOMAIN t.changed[i].callers /\ t.changed[i].callers[j].evidence = e
  BY <1>1, <1>2, <1>3, WithIs
<1>5. /\ t.changed \in Seq(Symbols) /\ t.truncated \in Nat /\ t.possible \in Nat /\ t.textual \in Nat
  BY ChangedIs
<1> DEFINE c == RemoveAt(t.changed[i].callers, j)
           ch == [t.changed EXCEPT ![i] = [@ EXCEPT !.callers = c]]
           a == t.truncated + 1
           b == t.possible + (IF e = "candidate" THEN 1 ELSE 0)
           d == t.textual + (IF e = "name" THEN 1 ELSE 0)
<1>6. p = WithGuess(t, ch, a, b, d)
  BY <1>1, <1>2, <1>3 DEF DropRow, WithGuess
<1>7. c \in Seq([evidence : Kinds, weight : Nat]) /\ IsWithout(c, t.changed[i].callers, j)
  <2>1. t.changed[i].callers \in Seq([evidence : Kinds, weight : Nat]) /\ j \in 1 .. Len(t.changed[i].callers)
    BY <1>4, <1>5, SymbolIs
  <2> QED BY <2>1, Removed
<1>8. RowLost(ch, t.changed, i, j)
  <2> HIDE DEF c
  <2> QED BY <1>4, <1>5, <1>7, RowWritten
<1>9. ch \in Seq(Symbols) /\ a \in Nat /\ b \in Nat /\ d \in Nat
  BY <1>5, <1>8 DEF RowLost
<1>10. /\ p \in Outputs /\ p.changed = ch /\ p.truncated = a /\ p.possible = b /\ p.textual = d
       /\ p.symbolsOmitted = t.symbolsOmitted /\ Same(p, t, Tallies)
  <2>1. Rewritten(p, t, ch, a, b, d, t.symbolsOmitted)
    <3> HIDE DEF ch, a, b, d
    <3> QED BY <1>6, <1>9, GuessWritten
  <2> HIDE DEF ch
  <2> QED BY <2>1 DEF Rewritten
<1>11. RowGone(p, t, i, j)
  <2> HIDE DEF ch
  <2> QED BY <1>4, <1>8, <1>10 DEF RowGone
<1>12. GuessGone(p, t, i, j)
  BY <1>4, <1>11 DEF GuessGone, GuessGives
<1>13. p \in Outputs
  BY <1>10
<1>14. Shrinks(p, t)
  BY <1>11, <1>13, RowShrinks
<1> QED BY <1>12, <1>13, <1>14

LEMMA DropSymbolIs ==
    ASSUME NEW t \in Outputs, NEW i \in DOMAIN t.changed, NEW p, p = DropSymbol(t, i)
    PROVE  p \in Outputs /\ Shrinks(p, t) /\ SymbolGone(p, t, i)
<1>1. /\ t.changed \in Seq(Symbols) /\ t.truncated \in Nat /\ t.symbolsOmitted \in Nat
  BY ChangedIs
<1>2. i \in 1 .. Len(t.changed) /\ Len(t.changed[i].callers) \in Nat
  BY <1>1, SymbolIs
<1> DEFINE ch == RemoveAt(t.changed, i)  a == t.truncated + Len(t.changed[i].callers)  b == t.symbolsOmitted + 1
<1>3. p = WithSymbol(t, ch, a, b)
  BY DEF DropSymbol, WithSymbol
<1>4. ch \in Seq(Symbols) /\ IsWithout(ch, t.changed, i)
  BY <1>1, <1>2, Removed
<1>5. a \in Nat /\ b \in Nat
  BY <1>1, <1>2
<1>6. /\ p \in Outputs /\ p.changed = ch /\ p.truncated = a /\ p.possible = t.possible /\ p.textual = t.textual
      /\ p.symbolsOmitted = b /\ Same(p, t, Tallies)
  <2>1. Rewritten(p, t, ch, a, t.possible, t.textual, b)
    <3> HIDE DEF ch, a, b
    <3> QED BY <1>3, <1>4, <1>5, SymbolWritten
  <2> HIDE DEF ch
  <2> QED BY <2>1 DEF Rewritten
<1>7. SymbolGone(p, t, i)
  <2> HIDE DEF ch
  <2> QED BY <1>4, <1>6 DEF SymbolGone, SymbolLost
<1> QED BY <1>6, <1>7, SymbolShrinks

LEMMA HollowOut ==
    ASSUME NEW t \in Outputs, NEW p, HollowGives(p, t)
    PROVE  p \in Outputs /\ Shrinks(p, t) /\ \E i : HollowGone(p, t, i)
<1>0. t.changed \in Seq(Symbols) /\ Len(t.changed) \in Nat
  BY CountersNat
<1>1. PICK i : i = Max(Hollow(t))
  OBVIOUS
<1>2. Hollow(t) \subseteq Nat /\ Hollow(t) # {} /\ \A m \in Hollow(t) : m <= Len(t.changed)
  BY <1>0 DEF HollowGives, Hollow
<1>3. i \in Hollow(t)
  BY <1>0, <1>1, <1>2, MaxIs
<1>4. i \in DOMAIN t.changed
  BY <1>3 DEF Hollow
<1>5. p = DropSymbol(t, i)
  BY <1>1 DEF HollowGives
<1>6. p \in Outputs /\ Shrinks(p, t) /\ SymbolGone(p, t, i)
  BY <1>4, <1>5, DropSymbolIs
<1> QED BY <1>3, <1>6 DEF HollowGone, HollowGives

LEMMA WeakestIs ==
    ASSUME NEW t \in Outputs, CalledBy(t, 1) # {}, NEW i, i = Weakest(t)
    PROVE  i \in IF CalledBy(t, 2) # {} THEN CalledBy(t, 2) ELSE CalledBy(t, 1)
<1> DEFINE among == IF CalledBy(t, 2) # {} THEN CalledBy(t, 2) ELSE CalledBy(t, 1)
           weight(k) == Last(t.changed[k].callers).weight
           W == {weight(k) : k \in among}
           U == {k \in among : \A j \in among : weight(k) <= weight(j)}
<1>0. t.changed \in Seq(Symbols)
  BY ChangedIs
<1>1. among # {} /\ \A k \in among : k \in DOMAIN t.changed /\ Len(t.changed[k].callers) >= 1
  <2>1. \A k \in CalledBy(t, 2) \union CalledBy(t, 1) : k \in DOMAIN t.changed /\ Len(t.changed[k].callers) >= 1
    BY <1>0, SymbolIs DEF CalledBy
  <2> QED BY <2>1
<1> HIDE DEF among
<1>2. ASSUME NEW k \in among PROVE weight(k) \in Nat /\ k \in Nat
  <2> DEFINE c == t.changed[k].callers
  <2>1. Len(c) \in DOMAIN c
    BY <1>0, <1>1, SymbolIs
  <2>2. c[Len(c)].weight \in Nat
    BY <1>0, <1>1, <2>1, SymbolIs
  <2>3. k \in Nat
    BY <1>0, <1>1
  <2> QED BY <2>2, <2>3 DEF Last
<1> HIDE DEF weight
<1>3. W \subseteq Nat /\ W # {}
  BY <1>1, <1>2
<1>4. \E n \in W : \A m \in W : n <= m
  <2> HIDE DEF W
  <2> QED BY <1>3, Least
<1>5. U # {} /\ U \subseteq Nat
  BY <1>2, <1>4
<1>6. Min(U) \in U
  <2> HIDE DEF U
  <2> QED BY <1>5, MinIs
<1>7. Weakest(t) = Min(U)
  BY DEF Weakest, among, weight
<1>8. i \in among
  BY <1>6, <1>7
<1> QED BY <1>8 DEF among

LEMMA CallerOut ==
    ASSUME NEW t \in Outputs, NEW p, CallerGives(p, t)
    PROVE  p \in Outputs /\ Shrinks(p, t) /\ \E i : TailGone(p, t, i) \/ OnlyGone(p, t, i)
<1>1. /\ GuessesGone(t) /\ CalledBy(t, 1) # {} /\ (CalledBy(t, 2) # {} \/ SymbolMayGo(t, Weakest(t)))
      /\ p = ShedWeakest(t)
  BY DEF CallerGives, GuessesGone
<1>2. PICK i : i = Weakest(t)
  OBVIOUS
<1>3. i \in IF CalledBy(t, 2) # {} THEN CalledBy(t, 2) ELSE CalledBy(t, 1)
  BY <1>1, <1>2, WeakestIs
<1>4. t.changed \in Seq(Symbols) /\ t.truncated \in Nat
  BY ChangedIs
<1>5. i \in DOMAIN t.changed
  BY <1>3 DEF CalledBy
<1> DEFINE r == t.changed[i].callers
<1>9. r \in Seq([evidence : Kinds, weight : Nat]) /\ Len(r) \in Nat /\ DOMAIN r = 1 .. Len(r)
  BY <1>4, <1>5, SymbolIs
<1>10. Len(r) >= 1 /\ (CalledBy(t, 2) # {} => Len(r) >= 2)
  BY <1>3, <1>9 DEF CalledBy
<1>6. /\ r \in Seq([evidence : Kinds, weight : Nat]) /\ Len(r) \in Nat /\ DOMAIN r = 1 .. Len(r) /\ Len(r) >= 1
      /\ (CalledBy(t, 2) # {} => Len(r) > 1)
  BY <1>9, <1>10
<1>7. CASE Len(r) > 1
  <2> DEFINE c == Front(r)
             ch == [t.changed EXCEPT ![i] = [@ EXCEPT !.callers = c]]
             a == t.truncated + 1
  <2>1. p = WithTail(t, ch, a)
    BY <1>1, <1>2, <1>7 DEF ShedWeakest, WithTail
  <2>2. c \in Seq([evidence : Kinds, weight : Nat]) /\ IsWithout(c, r, Len(r))
    BY <1>6, FrontRemoved
  <2>3. Len(r) \in DOMAIN r
    BY <1>6
  <2>4. RowLost(ch, t.changed, i, Len(r))
    <3> HIDE DEF c
    <3> QED BY <1>4, <1>5, <2>2, <2>3, RowWritten
  <2>5. ch \in Seq(Symbols) /\ a \in Nat
    BY <1>4, <2>4 DEF RowLost
  <2>6. /\ p \in Outputs /\ p.changed = ch /\ p.truncated = a /\ p.possible = t.possible /\ p.textual = t.textual
        /\ p.symbolsOmitted = t.symbolsOmitted /\ Same(p, t, Tallies)
    <3> HIDE DEF ch, a
    <3> QED BY <2>1, <2>5, TailWritten DEF Rewritten
  <2>7. r[Len(r)].evidence \notin {"name", "candidate"}
    BY <1>1, <1>5, <2>3 DEF GuessesGone, NoGuess, With
  <2>8. RowGone(p, t, i, Len(r))
    <3>1. t.possible \in Nat /\ t.textual \in Nat
      BY ChangedIs
    <3> HIDE DEF ch
    <3> QED BY <2>4, <2>6, <2>7, <3>1 DEF RowGone
  <2>9. TailGone(p, t, i)
    BY <1>1, <1>5, <1>7, <2>8 DEF TailGone
  <2>10. p \in Outputs
    BY <2>6
  <2>11. Shrinks(p, t)
    BY <2>8, <2>10, RowShrinks
  <2> QED BY <2>9, <2>10, <2>11
<1>8. CASE ~(Len(r) > 1)
  <2>1. Len(r) = 1 /\ CalledBy(t, 2) = {}
    <3> HIDE DEF r
    <3> QED BY <1>6, <1>8
  <2>2. p = DropSymbol(t, i)
    BY <1>1, <1>2, <1>8 DEF ShedWeakest
  <2>3. p \in Outputs /\ Shrinks(p, t) /\ SymbolGone(p, t, i)
    BY <1>5, <2>2, DropSymbolIs
  <2>4. ~t.changed[i].unresolved
    BY <1>1, <1>2, <2>1 DEF SymbolMayGo
  <2>5. OnlyGone(p, t, i)
    BY <1>1, <1>5, <2>1, <2>3, <2>4 DEF OnlyGone
  <2> QED BY <2>3, <2>5
<1> QED BY <1>7, <1>8

LEMMA StepOut ==
    ASSUME NEW o \in Outputs, ~Bare(o), NEW t, t = TrimUntracked(o), NEW p, p = ShedOne(o)
    PROVE  t \in Outputs /\ p \in Outputs /\ Shrinks(p, t) /\ Outcome(p, t)
<1>1. t \in Outputs
  BY Trimmed
<1>2. ListingGives(p, t) \/ CountGives(p, t) \/ GuessGives(p, t) \/ HollowGives(p, t) \/ CallerGives(p, t)
  BY StepIs
<1> QED BY <1>1, <1>2, ListingsOut, CountOut, GuessOut, HollowOut, CallerOut DEF Outcome

LEMMA UntrackedStays ==
    ASSUME NEW t \in Outputs, NEW p \in Outputs, NEW o \in Outputs, ~Bare(o), t = TrimUntracked(o), p = ShedOne(o)
    PROVE  p.untracked = t.untracked
<1>1. ListingGives(p, t) \/ CountGives(p, t) \/ GuessGives(p, t) \/ HollowGives(p, t) \/ CallerGives(p, t)
  BY StepIs
<1>2. CASE ListingGives(p, t)
  BY <1>2 DEF ListingGives, Outputs
<1>3. CASE CountGives(p, t)
  BY <1>3 DEF CountGives, Outputs
<1>4. CASE GuessGives(p, t)
  <2>1. \E i, j : GuessGone(p, t, i, j)
    BY <1>4, GuessOut
  <2> QED BY <2>1, SameBeside DEF GuessGone, RowGone
<1>5. CASE HollowGives(p, t)
  <2>1. \E i : HollowGone(p, t, i)
    BY <1>5, HollowOut
  <2> QED BY <2>1, SameBeside DEF HollowGone, SymbolGone
<1>6. CASE CallerGives(p, t)
  <2>1. \E i : TailGone(p, t, i) \/ OnlyGone(p, t, i)
    BY <1>6, CallerOut
  <2> QED BY <2>1, SameBeside DEF TailGone, OnlyGone, RowGone, SymbolGone
<1> QED BY <1>1, <1>2, <1>3, <1>4, <1>5, <1>6

\* A step leaves less to shed; once nothing but the untracked files can go,
\* the next step changes nothing.
LEMMA OneStep ==
    ASSUME NEW o \in Outputs, NEW p, p = ShedOne(o)
    PROVE  /\ p \in Outputs
           /\ ~Bare(o) => Potential(p) < Potential(o)
           /\ Bare(o) => Bare(p)
           /\ Bare(p) => ShedOne(p) = p
<1>1. PICK t : t = TrimUntracked(o)
  OBVIOUS
<1>2. /\ t \in Outputs /\ Giving(t) = Giving(o) /\ TrimUntracked(t) = t
      /\ Potential(t) <= Potential(o)
  BY <1>1, Trimmed
<1>3. CASE Bare(o)
  <2>1. p = t
    BY <1>1, <1>3 DEF ShedOne
  <2>2. Bare(p)
    BY <1>2, <1>3, <2>1 DEF Bare
  <2>3. ShedOne(p) = p
    BY <1>2, <2>1, <2>2 DEF ShedOne
  <2> QED BY <1>2, <1>3, <2>1, <2>2, <2>3
<1>4. CASE ~Bare(o)
  <2>1. p \in Outputs /\ Shrinks(p, t)
    BY <1>1, <1>4, StepOut
  <2>2. Potential(p) < Potential(o)
    BY <1>2, <2>1, RowsNat DEF Shrinks
  <2>3. p.untracked = t.untracked
    BY <1>1, <1>2, <1>4, <2>1, UntrackedStays
  <2>4. TrimUntracked(p) = p
    <3>1. t.untracked <= FilesListed
      <4>1. FilesListed \in Nat /\ o.untracked \in Nat
        BY ListsAreShort, CountersNat
      <4>2. CASE o.untracked <= FilesListed
        BY <1>1, <4>2 DEF TrimUntracked
      <4>3. CASE ~(o.untracked <= FilesListed)
        <5>1. t = [o EXCEPT !.untracked = FilesListed, !.untrackedOmitted = o.untrackedOmitted + o.untracked - FilesListed]
          BY <1>1, <4>3 DEF TrimUntracked
        <5>2. t.untracked = FilesListed
          BY <5>1 DEF Outputs
        <5> QED BY <4>1, <5>2
      <4> QED BY <4>2, <4>3
    <3> QED BY <2>3, <3>1 DEF TrimUntracked
  <2>5. Bare(p) => ShedOne(p) = p
    BY <2>4 DEF ShedOne
  <2> QED BY <1>4, <2>1, <2>2, <2>5
<1> QED BY <1>3, <1>4

(***************************************************************************)
(* One step after another                                                  *)
(***************************************************************************)

LEMMA SheddingIs ==
    ASSUME NEW o \in Outputs, NEW N \in Nat, NEW after, after = Shedding(o, N)
    PROVE  /\ after \in [0 .. N -> Outputs] /\ after[0] = o
           /\ \A i \in 1 .. N : after[i] = ShedOne(after[i - 1])
<1> DEFINE
      step == [i \in 1 .. N |-> [u \in Outputs |-> ShedOne(u)]]
      Step(f) == [n \in 0 .. N |-> IF n = 0 THEN o ELSE ShedOne(f[n - 1])]
      all == CHOOSE f : f = Step(f)
<1>1. \A u \in Outputs : ShedOne(u) \in Outputs
  BY OneStep
<1>2. step \in [1 .. N -> [Outputs -> Outputs]]
  BY <1>1
<1>3. \E g : Iterates(g, N, Outputs, o, step)
  <2> HIDE DEF step
  <2> QED BY <1>2, Recursion
<1>4. PICK g : Iterates(g, N, Outputs, o, step)
  BY <1>3
<1>5. g \in [0 .. N -> Outputs] /\ g[0] = o /\ \A i \in 1 .. N : g[i] = step[i][g[i - 1]]
  BY <1>4 DEF Iterates
<1>6. g = Step(g)
  <2>1. ASSUME NEW n \in 0 .. N
        PROVE  g[n] = IF n = 0 THEN o ELSE ShedOne(g[n - 1])
    <3>1. CASE n = 0
      BY <3>1, <1>5
    <3>2. CASE n # 0
      <4>1. n \in 1 .. N /\ n - 1 \in 0 .. N
        BY <3>2
      <4>2. g[n - 1] \in Outputs /\ g[n] = step[n][g[n - 1]]
        BY <4>1, <1>5
      <4> QED BY <3>2, <4>1, <4>2
    <3> QED BY <3>1, <3>2
  <2> QED BY <2>1, <1>5
<1>7. all = Step(all)
  <2> HIDE DEF Step
  <2> QED BY <1>6
<1>8. after = all
  BY DEF Shedding
<1> HIDE DEF all, step
<1>9. after[0] = o
  BY <1>7, <1>8
<1>10. ASSUME NEW n \in 1 .. N PROVE after[n] = ShedOne(after[n - 1])
  <2>1. n \in 0 .. N /\ n # 0
    OBVIOUS
  <2> QED BY <2>1, <1>7, <1>8
<1>11. DOMAIN after = 0 .. N /\ after = [n \in 0 .. N |-> after[n]]
  BY <1>7, <1>8
<1> HIDE DEF Step
<1> DEFINE T == {n \in 0 .. N : after[n] \in Outputs}
<1>12. 0 \in T
  BY <1>9
<1>13. ASSUME NEW n \in 0 .. N - 1, n \in T PROVE n + 1 \in T
  <2>1. n + 1 \in 1 .. N /\ (n + 1) - 1 = n
    OBVIOUS
  <2> QED BY <2>1, <1>1, <1>10, <1>13
<1>14. \A n \in 0 .. N : n \in T
  <2> HIDE DEF T
  <2> QED BY <1>12, <1>13, UpTo
<1> QED BY <1>9, <1>10, <1>11, <1>14

\* A longer run begins as a shorter one that starts where it passes.
LEMMA SameRun ==
    ASSUME NEW o \in Outputs, NEW N \in Nat, NEW a \in 0 .. N, NEW M \in 0 .. N - a,
           NEW q, q = Shedding(o, N)[a]
    PROVE  Shed(q, M) = Shedding(o, N)[a + M]
<1> DEFINE g == Shedding(o, N)  h == Shedding(q, M)
           T == {n \in 0 .. M : h[n] = g[a + n]}
<1>1. g \in [0 .. N -> Outputs] /\ g[0] = o /\ \A i \in 1 .. N : g[i] = ShedOne(g[i - 1])
  BY SheddingIs
<1>2. q \in Outputs
  BY <1>1
<1>3. M \in Nat /\ a \in Nat /\ N \in Nat /\ a + M <= N
  OBVIOUS
<1>4. h[0] = q /\ \A i \in 1 .. M : h[i] = ShedOne(h[i - 1])
  BY <1>2, <1>3, SheddingIs
<1>5. q = g[a]
  OBVIOUS
<1> HIDE DEF g, h
<1>6. 0 \in T
  BY <1>3, <1>4, <1>5
<1>7. ASSUME NEW n \in 0 .. M - 1, n \in T PROVE n + 1 \in T
  <2>1. n + 1 \in 1 .. M /\ (n + 1) - 1 = n /\ a + (n + 1) \in 1 .. N /\ (a + (n + 1)) - 1 = a + n
    BY <1>3
  <2>2. h[n] = g[a + n]
    BY <1>7
  <2>3. h[n + 1] = ShedOne(h[n])
    BY <1>4, <2>1
  <2>4. g[a + (n + 1)] = ShedOne(g[a + n])
    BY <1>1, <2>1
  <2> QED BY <2>1, <2>2, <2>3, <2>4
<1>8. \A n \in 0 .. M : n \in T
  <2> HIDE DEF T
  <2> QED BY <1>3, <1>6, <1>7, UpTo
<1>9. h[M] = g[a + M]
  BY <1>3, <1>8
<1> QED BY <1>9 DEF Shed, g, h

LEMMA ShedIs ==
    ASSUME NEW o \in Outputs, NEW n \in Nat
    PROVE  /\ Shed(o, n) \in Outputs /\ Shed(o, 0) = o
           /\ Shed(o, n + 1) = ShedOne(Shed(o, n))
           /\ \A m \in 0 .. n : Shed(o, m) = Shedding(o, n)[m]
           /\ \A m \in Nat : Shed(Shed(o, n), m) = Shed(o, n + m)
<1>1. ASSUME NEW N \in Nat, NEW m \in 0 .. N PROVE Shed(o, m) = Shedding(o, N)[m]
  <2>1. o = Shedding(o, N)[0]
    BY SheddingIs
  <2>2. 0 \in 0 .. N /\ m \in 0 .. N - 0 /\ 0 + m = m
    OBVIOUS
  <2>3. Shed(o, m) = Shedding(o, N)[0 + m]
    BY <2>1, <2>2, SameRun
  <2> QED BY <2>2, <2>3
<1>2. Shed(o, n) \in Outputs
  BY SheddingIs DEF Shed
<1>3. Shed(o, 0) = o
  BY SheddingIs DEF Shed
<1>4. Shed(o, n + 1) = ShedOne(Shed(o, n))
  <2>1. n + 1 \in Nat /\ n + 1 \in 1 .. n + 1 /\ (n + 1) - 1 = n /\ n \in 0 .. n + 1 /\ n + 1 \in 0 .. n + 1
    OBVIOUS
  <2>2. Shedding(o, n + 1)[n + 1] = ShedOne(Shedding(o, n + 1)[n])
    BY <2>1, SheddingIs
  <2> QED BY <1>1, <2>1, <2>2
<1>5. ASSUME NEW m \in Nat PROVE Shed(Shed(o, n), m) = Shed(o, n + m)
  <2>1. n + m \in Nat /\ n \in 0 .. n + m /\ m \in 0 .. (n + m) - n /\ n + m \in 0 .. n + m
    OBVIOUS
  <2>2. Shed(o, n) = Shedding(o, n + m)[n] /\ Shed(o, n + m) = Shedding(o, n + m)[n + m]
    BY <1>1, <2>1
  <2> QED BY <2>1, <2>2, SameRun
<1> QED BY <1>1, <1>2, <1>3, <1>4, <1>5

\* Once nothing but the untracked files can go, one more step is the last.
LEMMA BareStays ==
    ASSUME NEW o \in Outputs, Bare(o), NEW n \in Nat, n > 0
    PROVE  Shed(o, n) = Shed(o, 1) /\ Bare(Shed(o, n))
<1> DEFINE N == n - 1
           T == {k \in 0 .. N : Shed(o, k + 1) = Shed(o, 1)}
           p == ShedOne(o)
<1>1. Shed(o, 0 + 1) = p /\ Shed(o, 1) = p
  <2>1. Shed(o, 0 + 1) = ShedOne(Shed(o, 0)) /\ Shed(o, 0) = o
    BY ShedIs
  <2> QED BY <2>1
<1>2. p \in Outputs /\ Bare(p) /\ ShedOne(p) = p
  BY OneStep
<1> HIDE DEF p
<1>3. 0 \in T
  BY <1>1
<1>4. ASSUME NEW k \in 0 .. N - 1, k \in T PROVE k + 1 \in T
  <2>1. k + 1 \in Nat
    OBVIOUS
  <2>2. Shed(o, (k + 1) + 1) = ShedOne(Shed(o, k + 1))
    BY <2>1, ShedIs
  <2> QED BY <1>1, <1>2, <1>4, <2>2
<1>5. N \in Nat
  OBVIOUS
<1>6. \A k \in 0 .. N : k \in T
  <2> HIDE DEF T, N
  <2> QED BY <1>3, <1>4, <1>5, UpTo
<1>7. N \in 0 .. N /\ N + 1 = n
  OBVIOUS
<1>8. Shed(o, n) = Shed(o, 1)
  BY <1>6, <1>7
<1> QED BY <1>1, <1>2, <1>8

LEMMA TakenIs ==
    ASSUME NEW o \in Outputs, NEW s \in Nat, s > 0, NEW m, m = Taken(o, s)
    PROVE  /\ m \in 0 .. s
           /\ m < s => Bare(Shed(o, s)) /\ (m > 0 => Shed(o, m) = Shed(o, s))
           /\ m = 0 => Shed(o, s) = Shed(o, 1)
<1> DEFINE after == Shedding(o, s)
           D == {0} \union {n \in 1 .. s : ~Bare(after[n - 1])}
<1>1. \A n \in 0 .. s : after[n] = Shed(o, n)
  BY ShedIs
<1>2. m = Max(D)
  BY DEF Taken
<1> HIDE DEF after
<1>3. D \subseteq Nat /\ D # {} /\ \A n \in D : n <= s
  OBVIOUS
<1>4. m \in D /\ \A n \in D : n <= m
  <2> HIDE DEF D
  <2> QED BY <1>2, <1>3, MaxIs
<1>5. m \in 0 .. s
  BY <1>4
<1>6. ASSUME m < s PROVE Bare(Shed(o, m))
  <2>1. m + 1 \in 1 .. s /\ (m + 1) - 1 = m /\ ~(m + 1 <= m)
    BY <1>5, <1>6
  <2>2. m + 1 \notin D
    BY <1>4, <2>1
  <2>3. Bare(after[m])
    BY <2>1, <2>2
  <2> QED BY <1>1, <1>5, <2>3
<1>7. ASSUME m < s PROVE Bare(Shed(o, s)) /\ Shed(o, s) = Shed(Shed(o, m), 1)
  <2>1. m \in Nat /\ s - m \in Nat /\ s - m > 0 /\ m + (s - m) = s
    BY <1>5, <1>7
  <2>2. Shed(o, m) \in Outputs /\ Shed(Shed(o, m), s - m) = Shed(o, s)
    BY <2>1, ShedIs
  <2> QED BY <1>6, <1>7, <2>1, <2>2, BareStays
<1>8. ASSUME m < s, m > 0 PROVE Shed(o, m) = Shed(o, s)
  <2> DEFINE q == Shed(o, m - 1)  p == Shed(o, m)
  <2>1. m - 1 \in Nat /\ (m - 1) + 1 = m /\ m \in Nat
    BY <1>5, <1>8
  <2>2. q \in Outputs /\ p = ShedOne(q)
    BY <2>1, ShedIs
  <2>3. p \in Outputs /\ ShedOne(p) = p
    BY <1>6, <1>8, <2>2, OneStep
  <2>4. Shed(p, 0 + 1) = ShedOne(Shed(p, 0)) /\ Shed(p, 0) = p /\ 0 + 1 = 1
    BY <2>3, ShedIs
  <2> QED BY <1>7, <1>8, <2>3, <2>4
<1>9. ASSUME m = 0 PROVE Shed(o, s) = Shed(o, 1)
  <2>1. m < s
    BY <1>9
  <2>2. Shed(o, 0) = o
    BY ShedIs
  <2> QED BY <1>7, <1>9, <2>1, <2>2
<1> QED BY <1>5, <1>7, <1>8, <1>9

\* No answer takes more steps than it has entries: those beyond change nothing.
LEMMA FewSteps ==
    ASSUME NEW o \in Outputs, NEW n \in Nat
    PROVE  \E k \in 0 .. n :
              /\ k <= Potential(o) + 1 /\ Shed(o, k) = Shed(o, n)
              /\ k = n \/ Shed(o, n - 1) = Shed(o, n)
<1> DEFINE P == Potential(o)
           Going(i) == Potential(Shed(o, i)) + i <= P
           Over(i) == \E k \in 0 .. i :
               /\ k <= P + 1 /\ Shed(o, k) = Shed(o, i) /\ ShedOne(Shed(o, i)) = Shed(o, i)
               /\ k = i \/ Shed(o, i - 1) = Shed(o, i)
           T == {i \in 0 .. n : Going(i) \/ Over(i)}
<1>1. P \in Nat
  BY RowsNat
<1>2. 0 \in T
  <2>1. Shed(o, 0) = o
    BY ShedIs
  <2> QED BY <1>1, <2>1
<1>3. ASSUME NEW i \in 0 .. n - 1, i \in T PROVE i + 1 \in T
  <2>1. i \in Nat /\ i + 1 \in Nat /\ i + 1 \in 0 .. n
    OBVIOUS
  <2> DEFINE q == Shed(o, i)  p == Shed(o, i + 1)
  <2>2. q \in Outputs /\ p = ShedOne(q)
    BY <2>1, ShedIs
  <2>3. p \in Outputs /\ (~Bare(q) => Potential(p) < Potential(q)) /\ (Bare(q) => Bare(p)) /\ (Bare(p) => ShedOne(p) = p)
    BY <2>2, OneStep
  <2>4. Potential(p) \in Nat /\ Potential(q) \in Nat
    BY <2>2, <2>3, RowsNat
  <2>5. CASE Going(i) /\ ~Bare(q)
    <3>1. Potential(q) + i <= P /\ Potential(p) < Potential(q)
      BY <2>3, <2>5
    <3> HIDE DEF P, p, q
    <3>2. Potential(p) + (i + 1) <= P
      BY <1>1, <2>1, <2>4, <3>1
    <3> QED BY <2>1, <3>2 DEF p
  <2>6. CASE Going(i) /\ Bare(q)
    <3>1. Potential(q) + i <= P /\ ShedOne(p) = p
      BY <2>3, <2>6
    <3>2. i + 1 <= P + 1 /\ i + 1 \in 0 .. i + 1
      <4> HIDE DEF P, q
      <4> QED BY <1>1, <2>1, <2>4, <3>1
    <3>3. Over(i + 1)
      BY <3>1, <3>2
    <3> QED BY <2>1, <3>3
  <2>7. CASE Over(i)
    <3>1. PICK k \in 0 .. i : k <= P + 1 /\ Shed(o, k) = q /\ ShedOne(q) = q
      BY <2>7
    <3>2. p = q /\ k \in 0 .. i + 1 /\ (i + 1) - 1 = i
      BY <2>1, <2>2, <3>1
    <3>3. Over(i + 1)
      BY <3>1, <3>2
    <3> QED BY <2>1, <3>3
  <2> QED BY <1>3, <2>5, <2>6, <2>7
<1>4. \A i \in 0 .. n : i \in T
  <2> HIDE DEF T
  <2> QED BY <1>2, <1>3, UpTo
<1>5. Going(n) \/ Over(n)
  BY <1>4
<1>6. CASE Going(n)
  <2>1. Potential(Shed(o, n)) \in Nat
    BY ShedIs, RowsNat
  <2>2. n <= P + 1 /\ n \in 0 .. n
    <3> HIDE DEF P
    <3> QED BY <1>1, <1>6, <2>1
  <2> QED BY <2>2
<1>7. CASE Over(n)
  BY <1>7
<1> QED BY <1>5, <1>6, <1>7

(***************************************************************************)
(* What every answer shed from g keeps                                     *)
(***************************************************************************)

HasDirect(o, i) == \E j \in DOMAIN o.changed[i].callers : o.changed[i].callers[j].evidence = "direct"

Tallied(p, g) ==
    /\ Len(p.changed) + p.symbolsOmitted = Len(g.changed)
    /\ Callers(p, Kinds) + p.truncated = Callers(g, Kinds)
    /\ Callers(p, {"candidate"}) + p.possible = Callers(g, {"candidate"})
    /\ Callers(p, {"name"}) + p.textual = Callers(g, {"name"})
StillUnresolved(p, g) ==
    \A i \in DOMAIN g.changed : g.changed[i].unresolved =>
        \E k \in DOMAIN p.changed : p.changed[k].id = g.changed[i].id /\ p.changed[k].unresolved
CutUnnamed(p) == p.truncated > 0 => Unnamed(p)
DirectLast(p, g) == Callers(p, {"direct"}) < Callers(g, {"direct"}) => GuessesGone(p)
SymbolsLast(p, g) ==
    \/ CalledBy(p, 2) = {}
    \/ \A i \in DOMAIN g.changed : HasDirect(g, i) =>
           \E k \in DOMAIN p.changed : p.changed[k].id = g.changed[i].id /\ HasDirect(p, k)
Honest(p, g) ==
    Tallied(p, g) /\ StillUnresolved(p, g) /\ CutUnnamed(p) /\ DirectLast(p, g) /\ SymbolsLast(p, g)

\* None of it reads what a step puts aside.
LEMMA KeptAside ==
    ASSUME NEW t, NEW g, Honest(t, g), NEW p, Same(p, t, Aside)
    PROVE  Honest(p, g)
<1>1. /\ p.changed = t.changed /\ p.named = t.named /\ p.namedOmitted = t.namedOmitted /\ p.contracts = t.contracts
      /\ p.truncated = t.truncated /\ p.possible = t.possible /\ p.textual = t.textual
      /\ p.symbolsOmitted = t.symbolsOmitted
  BY DEF Same, Aside, Fields, Listings, Omissions
<1>2. \A kinds : Callers(p, kinds) = Callers(t, kinds)
  BY <1>1 DEF Callers
<1>3. CalledBy(p, 2) = CalledBy(t, 2) /\ (GuessesGone(t) => GuessesGone(p)) /\ (Unnamed(t) => Unnamed(p))
  BY <1>1, SamePlaces DEF GuessesGone, Unnamed, NoGuess
<1>4. Tallied(p, g)
  BY <1>1, <1>2 DEF Honest, Tallied
<1>5. StillUnresolved(p, g) /\ CutUnnamed(p)
  BY <1>1, <1>3 DEF Honest, StillUnresolved, CutUnnamed
<1>6. DirectLast(p, g)
  BY <1>2, <1>3 DEF Honest, DirectLast
<1>7. SymbolsLast(p, g)
  BY <1>1, <1>3 DEF Honest, SymbolsLast, HasDirect
<1> QED BY <1>4, <1>5, <1>6, <1>7 DEF Honest

LEMMA KeptUntouched ==
    ASSUME NEW t \in Outputs, NEW g, Honest(t, g), NEW p \in Outputs, RowsUntouched(p, t)
    PROVE  Honest(p, g)
<1>1. /\ p.changed = t.changed /\ p.truncated = t.truncated /\ p.possible = t.possible /\ p.textual = t.textual
      /\ p.symbolsOmitted = t.symbolsOmitted /\ (Unnamed(t) => Unnamed(p))
  BY DEF RowsUntouched, Tallies
<1>2. \A kinds : Callers(p, kinds) = Callers(t, kinds)
  BY <1>1 DEF Callers
<1>3. CalledBy(p, 2) = CalledBy(t, 2) /\ (NoGuess(t) => NoGuess(p))
  BY <1>1, SamePlaces DEF NoGuess
<1>4. t.contracts = 0 => p.contracts = 0
  BY ChangedIs DEF RowsUntouched
<1>5. Tallied(p, g)
  BY <1>1, <1>2 DEF Honest, Tallied
<1>6. StillUnresolved(p, g) /\ CutUnnamed(p)
  BY <1>1 DEF Honest, StillUnresolved, CutUnnamed
<1>7. DirectLast(p, g)
  BY <1>1, <1>2, <1>3, <1>4 DEF Honest, DirectLast, GuessesGone
<1>8. SymbolsLast(p, g)
  BY <1>1, <1>3 DEF Honest, SymbolsLast, HasDirect
<1> QED BY <1>5, <1>6, <1>7, <1>8 DEF Honest

\* The rows and the symbols of what is left are among those before.
RowsAmong(p, t, i, j) ==
    /\ DOMAIN p.changed = DOMAIN t.changed
    /\ \A k \in DOMAIN t.changed :
         /\ p.changed[k].id = t.changed[k].id /\ p.changed[k].unresolved = t.changed[k].unresolved
         /\ Len(p.changed[k].callers) <= Len(t.changed[k].callers)
         /\ \A m \in DOMAIN p.changed[k].callers :
              \E n \in DOMAIN t.changed[k].callers : p.changed[k].callers[m] = t.changed[k].callers[n]
         /\ \A n \in DOMAIN t.changed[k].callers : (k = i /\ n = j) \/
              \E m \in DOMAIN p.changed[k].callers : p.changed[k].callers[m] = t.changed[k].callers[n]
SymbolsAmong(p, t, i) ==
    /\ \A k \in DOMAIN p.changed : \E l \in DOMAIN t.changed : p.changed[k] = t.changed[l]
    /\ \A l \in DOMAIN t.changed \ {i} : \E k \in DOMAIN p.changed : p.changed[k] = t.changed[l]

LEMMA RowsLeft ==
    ASSUME NEW t \in Outputs, NEW p \in Outputs, NEW i, NEW j, RowLost(p.changed, t.changed, i, j)
    PROVE  RowsAmong(p, t, i, j)
<1>1. t.changed \in Seq(Symbols) /\ p.changed \in Seq(Symbols) /\ Len(p.changed) = Len(t.changed)
  BY ChangedIs DEF RowLost
<1>2. DOMAIN p.changed = DOMAIN t.changed
  BY <1>1
<1> SUFFICES ASSUME NEW k \in DOMAIN t.changed
             PROVE  /\ p.changed[k].id = t.changed[k].id /\ p.changed[k].unresolved = t.changed[k].unresolved
                    /\ Len(p.changed[k].callers) <= Len(t.changed[k].callers)
                    /\ \A m \in DOMAIN p.changed[k].callers :
                         \E n \in DOMAIN t.changed[k].callers : p.changed[k].callers[m] = t.changed[k].callers[n]
                    /\ \A n \in DOMAIN t.changed[k].callers : (k = i /\ n = j) \/
                         \E m \in DOMAIN p.changed[k].callers : p.changed[k].callers[m] = t.changed[k].callers[n]
  BY <1>2 DEF RowsAmong
<1> DEFINE c == t.changed[k].callers  c2 == p.changed[k].callers
<1>3. Len(c) \in Nat /\ DOMAIN c = 1 .. Len(c) /\ Len(c2) \in Nat /\ DOMAIN c2 = 1 .. Len(c2)
  BY <1>1, <1>2, SymbolIs
<1>4. CASE k # i
  <2>1. p.changed[k] = t.changed[k]
    BY <1>4 DEF RowLost
  <2> QED BY <1>3, <2>1
<1>5. CASE k = i
  <2>1. /\ p.changed[k].id = t.changed[k].id /\ p.changed[k].unresolved = t.changed[k].unresolved
        /\ Len(c2) = Len(c) - 1 /\ j \in 1 .. Len(c)
        /\ \A m \in 1 .. j - 1 : c2[m] = c[m]
        /\ \A m \in j .. Len(c) - 1 : c2[m] = c[m + 1]
    BY <1>3, <1>5 DEF RowLost, IsWithout
  <2> HIDE DEF c, c2
  <2>2. ASSUME NEW m \in DOMAIN c2 PROVE \E n \in DOMAIN c : c2[m] = c[n]
    <3>1. CASE m < j
      <4>1. m \in 1 .. j - 1 /\ m \in DOMAIN c
        BY <1>3, <2>1, <3>1
      <4> QED BY <2>1, <4>1
    <3>2. CASE ~(m < j)
      <4>1. m \in j .. Len(c) - 1 /\ m + 1 \in DOMAIN c
        BY <1>3, <2>1, <3>2
      <4> QED BY <2>1, <4>1
    <3> QED BY <3>1, <3>2
  <2>3. ASSUME NEW n \in DOMAIN c, n # j PROVE \E m \in DOMAIN c2 : c2[m] = c[n]
    <3>1. CASE n < j
      <4>1. n \in 1 .. j - 1 /\ n \in DOMAIN c2
        BY <1>3, <2>1, <3>1
      <4> QED BY <2>1, <4>1
    <3>2. CASE n > j
      <4>1. n - 1 \in j .. Len(c) - 1 /\ n - 1 \in DOMAIN c2 /\ (n - 1) + 1 = n
        BY <1>3, <2>1, <3>2
      <4> QED BY <2>1, <4>1
    <3> QED BY <1>3, <2>1, <2>3, <3>1, <3>2
  <2>4. Len(c2) <= Len(c)
    BY <1>3, <2>1
  <2> QED BY <1>5, <2>1, <2>2, <2>3, <2>4 DEF c, c2
<1> QED BY <1>4, <1>5

LEMMA SymbolsLeft ==
    ASSUME NEW t \in Outputs, NEW p \in Outputs, NEW i, SymbolLost(p.changed, t.changed, i)
    PROVE  SymbolsAmong(p, t, i)
<1> DEFINE c == t.changed  c2 == p.changed
<1>1. c \in Seq(Symbols) /\ c2 \in Seq(Symbols) /\ i \in DOMAIN c /\ IsWithout(c2, c, i)
  BY ChangedIs DEF SymbolLost
<1>2. /\ Len(c) \in Nat /\ DOMAIN c = 1 .. Len(c) /\ Len(c2) \in Nat /\ DOMAIN c2 = 1 .. Len(c2)
      /\ Len(c2) = Len(c) - 1 /\ i \in 1 .. Len(c)
      /\ \A m \in 1 .. i - 1 : c2[m] = c[m]
      /\ \A m \in i .. Len(c) - 1 : c2[m] = c[m + 1]
  BY <1>1 DEF IsWithout
<1> HIDE DEF c, c2
<1>3. ASSUME NEW m \in DOMAIN c2 PROVE \E n \in DOMAIN c : c2[m] = c[n]
  <2>1. CASE m < i
    <3>1. m \in 1 .. i - 1 /\ m \in DOMAIN c
      BY <1>2, <2>1
    <3> QED BY <1>2, <3>1
  <2>2. CASE ~(m < i)
    <3>1. m \in i .. Len(c) - 1 /\ m + 1 \in DOMAIN c
      BY <1>2, <2>2
    <3> QED BY <1>2, <3>1
  <2> QED BY <2>1, <2>2
<1>4. ASSUME NEW n \in DOMAIN c \ {i} PROVE \E m \in DOMAIN c2 : c2[m] = c[n]
  <2>1. CASE n < i
    <3>1. n \in 1 .. i - 1 /\ n \in DOMAIN c2
      BY <1>2, <2>1
    <3> QED BY <1>2, <3>1
  <2>2. CASE n > i
    <3>1. n - 1 \in i .. Len(c) - 1 /\ n - 1 \in DOMAIN c2 /\ (n - 1) + 1 = n
      BY <1>2, <2>2
    <3> QED BY <1>2, <3>1
  <2> QED BY <1>2, <2>1, <2>2
<1> QED BY <1>3, <1>4 DEF SymbolsAmong, c, c2

LEMMA BesideKept ==
    ASSUME NEW p, NEW t, Same(p, t, Tallies)
    PROVE  (Unnamed(t) => Unnamed(p)) /\ p.contracts = t.contracts
BY SameBeside DEF Unnamed

LEMMA Moved ==
    ASSUME NEW x \in Nat, NEW e \in Nat, NEW y, x + e = y, NEW z \in Nat, NEW w, w = z + e, NEW G, y + z = G
    PROVE  x + w = G
OBVIOUS

LEMMA RowTally ==
    ASSUME NEW t \in Outputs, NEW p \in Outputs, NEW i, NEW j, RowGone(p, t, i, j), NEW g, Tallied(t, g)
    PROVE  /\ Tallied(p, g)
           /\ Callers(p, {"direct"}) + (IF t.changed[i].callers[j].evidence = "direct" THEN 1 ELSE 0)
                = Callers(t, {"direct"})
<1> DEFINE e == t.changed[i].callers[j].evidence
<1>1. /\ RowLost(p.changed, t.changed, i, j) /\ Len(p.changed) = Len(t.changed)
      /\ i \in DOMAIN t.changed /\ j \in DOMAIN t.changed[i].callers /\ t.changed \in Seq(Symbols)
  BY ChangedIs DEF RowGone, RowLost
<1>2. e \in Kinds
  BY <1>1, SymbolIs
<1>3. ASSUME NEW kinds PROVE Callers(p, kinds) + (IF e \in kinds THEN 1 ELSE 0) = Callers(t, kinds)
  BY <1>1, RowCount, CallersIs
<1>4. /\ p.truncated = t.truncated + 1 /\ p.symbolsOmitted = t.symbolsOmitted
      /\ p.possible = t.possible + (IF e = "candidate" THEN 1 ELSE 0)
      /\ p.textual = t.textual + (IF e = "name" THEN 1 ELSE 0)
  BY DEF RowGone
<1>5. \A kinds : Callers(p, kinds) \in Nat
  BY CallersIs
<1>6. t.truncated \in Nat /\ t.possible \in Nat /\ t.textual \in Nat
  BY ChangedIs
<1> HIDE DEF e
<1>7. /\ Callers(p, Kinds) + 1 = Callers(t, Kinds)
      /\ Callers(p, {"candidate"}) + (IF e = "candidate" THEN 1 ELSE 0) = Callers(t, {"candidate"})
      /\ Callers(p, {"name"}) + (IF e = "name" THEN 1 ELSE 0) = Callers(t, {"name"})
      /\ Callers(p, {"direct"}) + (IF e = "direct" THEN 1 ELSE 0) = Callers(t, {"direct"})
  BY <1>2, <1>3
<1>8. Callers(p, Kinds) + p.truncated = Callers(g, Kinds)
  <2>1. Callers(t, Kinds) + t.truncated = Callers(g, Kinds)
    BY DEF Tallied
  <2> QED BY <1>4, <1>5, <1>6, <1>7, <2>1, Moved
<1>9. Callers(p, {"candidate"}) + p.possible = Callers(g, {"candidate"})
  <2>1. Callers(t, {"candidate"}) + t.possible = Callers(g, {"candidate"})
    BY DEF Tallied
  <2> QED BY <1>4, <1>5, <1>6, <1>7, <2>1, Moved
<1>10. Callers(p, {"name"}) + p.textual = Callers(g, {"name"})
  <2>1. Callers(t, {"name"}) + t.textual = Callers(g, {"name"})
    BY DEF Tallied
  <2> QED BY <1>4, <1>5, <1>6, <1>7, <2>1, Moved
<1>11. Len(p.changed) + p.symbolsOmitted = Len(g.changed)
  BY <1>1, <1>4 DEF Tallied
<1> QED BY <1>7, <1>8, <1>9, <1>10, <1>11 DEF Tallied, e

LEMMA NoGuessIs ==
    ASSUME NEW o
    PROVE  NoGuess(o) <=> \A i \in DOMAIN o.changed : \A j \in DOMAIN o.changed[i].callers :
                             o.changed[i].callers[j].evidence \notin {"name", "candidate"}
BY DEF NoGuess, With

\* A row that goes is a guess, or no guess is left.
LEMMA KeptRow ==
    ASSUME NEW t \in Outputs, NEW g, Honest(t, g), NEW p \in Outputs, NEW i, NEW j, RowGone(p, t, i, j), Unnamed(t),
           \/ t.changed[i].callers[j].evidence \in {"name", "candidate"}
           \/ GuessesGone(t) /\ j > 1
    PROVE  Honest(p, g)
<1> DEFINE e == t.changed[i].callers[j].evidence
<1>1. RowLost(p.changed, t.changed, i, j) /\ Same(p, t, Tallies) /\ Tallied(t, g)
  BY DEF RowGone, Honest
<1>2. Tallied(p, g) /\ Callers(p, {"direct"}) + (IF e = "direct" THEN 1 ELSE 0) = Callers(t, {"direct"})
  BY <1>1, RowTally
<1>3. /\ DOMAIN p.changed = DOMAIN t.changed
      /\ \A k \in DOMAIN t.changed :
                /\ p.changed[k].id = t.changed[k].id /\ p.changed[k].unresolved = t.changed[k].unresolved
                /\ Len(p.changed[k].callers) <= Len(t.changed[k].callers)
                /\ \A m \in DOMAIN p.changed[k].callers :
                     \E n \in DOMAIN t.changed[k].callers : p.changed[k].callers[m] = t.changed[k].callers[n]
                /\ \A n \in DOMAIN t.changed[k].callers : (k = i /\ n = j) \/
                     \E m \in DOMAIN p.changed[k].callers : p.changed[k].callers[m] = t.changed[k].callers[n]
  <2>1. RowsAmong(p, t, i, j)
    BY <1>1, RowsLeft
  <2> QED BY <2>1 DEF RowsAmong
<1>4. Unnamed(p) /\ p.contracts = t.contracts
  BY <1>1, BesideKept
<1>5. StillUnresolved(p, g)
  BY <1>3 DEF Honest, StillUnresolved
<1>6. NoGuess(t) => NoGuess(p)
  <2> SUFFICES ASSUME NoGuess(t), NEW k \in DOMAIN p.changed, NEW m \in DOMAIN p.changed[k].callers
               PROVE  p.changed[k].callers[m].evidence \notin {"name", "candidate"}
    BY NoGuessIs
  <2>1. PICK n \in DOMAIN t.changed[k].callers : p.changed[k].callers[m] = t.changed[k].callers[n]
    BY <1>3
  <2> QED BY <1>3, <2>1, NoGuessIs
<1>7. DirectLast(p, g)
  <2>1. CASE GuessesGone(t)
    BY <1>4, <1>6, <2>1 DEF DirectLast, GuessesGone
  <2>2. CASE ~GuessesGone(t)
    <3>1. e # "direct"
      BY <2>2
    <3>2. Callers(p, {"direct"}) = Callers(t, {"direct"})
      BY <1>2, <3>1, CallersIs
    <3> QED BY <2>2, <3>2 DEF Honest, DirectLast
  <2> QED BY <2>1, <2>2
<1>8. ASSUME CalledBy(t, 2) = {} PROVE CalledBy(p, 2) = {}
  <2> SUFFICES ASSUME NEW k \in DOMAIN p.changed PROVE ~(Len(p.changed[k].callers) >= 2)
    BY DEF CalledBy
  <2>1. ~(Len(t.changed[k].callers) >= 2) /\ Len(p.changed[k].callers) <= Len(t.changed[k].callers)
    BY <1>3, <1>8 DEF CalledBy
  <2>2. Len(t.changed[k].callers) \in Nat /\ Len(p.changed[k].callers) \in Nat
    BY <1>3, ChangedIs, SymbolIs
  <2> QED BY <2>1, <2>2
<1>9. ASSUME NEW k \in DOMAIN t.changed, HasDirect(t, k) PROVE k \in DOMAIN p.changed /\ HasDirect(p, k)
  <2>1. PICK n \in DOMAIN t.changed[k].callers : t.changed[k].callers[n].evidence = "direct"
    BY <1>9 DEF HasDirect
  <2>2. CASE ~(k = i /\ n = j)
    <3>1. \E m \in DOMAIN p.changed[k].callers : p.changed[k].callers[m] = t.changed[k].callers[n]
      BY <1>3, <2>2
    <3> QED BY <1>3, <2>1, <3>1 DEF HasDirect
  <2>3. CASE k = i /\ n = j
    <3>1. GuessesGone(t) /\ j > 1
      BY <2>1, <2>3
    <3> DEFINE c == t.changed[k].callers
    <3>2. 1 \in DOMAIN c /\ c[1].evidence \in Kinds
      <4>1. DOMAIN c = 1 .. Len(c) /\ Len(c) \in Nat
        BY ChangedIs, SymbolIs
      <4>2. 1 \in DOMAIN c
        <5> HIDE DEF c
        <5>1. j \in DOMAIN c
          BY <2>3 DEF c
        <5> QED BY <3>1, <4>1, <5>1
      <4> QED BY <4>2, ChangedIs, SymbolIs
    <3>3. c[1].evidence \notin {"name", "candidate"}
      BY <3>1, <3>2, NoGuessIs DEF GuessesGone
    <3>4. c[1].evidence = "direct"
      BY <3>2, <3>3 DEF Kinds
    <3>5. 1 # j
      BY <3>1
    <3>6. \E m \in DOMAIN p.changed[k].callers : p.changed[k].callers[m] = c[1]
      BY <1>3, <3>2, <3>5
    <3> QED BY <1>3, <3>4, <3>6 DEF HasDirect
  <2> QED BY <2>2, <2>3
<1>10. SymbolsLast(p, g)
  BY <1>3, <1>8, <1>9 DEF Honest, SymbolsLast
<1>11. CutUnnamed(p)
  BY <1>4 DEF CutUnnamed
<1> QED BY <1>2, <1>5, <1>7, <1>10, <1>11 DEF Honest

\* A symbol that goes has no caller, or the only one it has and none has two.
LEMMA KeptSymbol ==
    ASSUME NEW t \in Outputs, NEW g, Honest(t, g), NEW p \in Outputs, NEW i, SymbolGone(p, t, i), Unnamed(t),
           ~t.changed[i].unresolved,
           \/ t.changed[i].callers = <<>>
           \/ GuessesGone(t) /\ CalledBy(t, 2) = {} /\ Len(t.changed[i].callers) = 1
    PROVE  Honest(p, g)
<1> DEFINE c == t.changed[i].callers
           d == IF c = <<>> THEN 0 ELSE 1
<1>1. SymbolLost(p.changed, t.changed, i) /\ Same(p, t, Tallies) /\ Tallied(t, g) /\ i \in DOMAIN t.changed
  BY DEF SymbolGone, SymbolLost, Honest
<1>2. /\ \A k \in DOMAIN p.changed : \E l \in DOMAIN t.changed : p.changed[k] = t.changed[l]
      /\ \A l \in DOMAIN t.changed \ {i} : \E k \in DOMAIN p.changed : p.changed[k] = t.changed[l]
  <2>1. SymbolsAmong(p, t, i)
    BY <1>1, SymbolsLeft
  <2> QED BY <2>1 DEF SymbolsAmong
<1>3. Unnamed(p) /\ p.contracts = t.contracts
  BY <1>1, BesideKept
<1>4. NoGuess(t) => NoGuess(p)
  BY <1>2, NoGuessIs
<1>5. CalledBy(t, 2) = {} => CalledBy(p, 2) = {}
  <2> SUFFICES ASSUME CalledBy(t, 2) = {}, NEW k \in DOMAIN p.changed PROVE ~(Len(p.changed[k].callers) >= 2)
    BY DEF CalledBy
  <2> QED BY <1>2 DEF CalledBy
<1>6. StillUnresolved(p, g)
  BY <1>2 DEF Honest, StillUnresolved
<1>7. ASSUME NEW kinds, c = <<>> \/ c[1].evidence \notin kinds PROVE Callers(p, kinds) = Callers(t, kinds)
  <2>1. t.changed \in Seq(Symbols)
    BY ChangedIs
  <2>2. CASE c = <<>>
    BY <1>1, <2>1, <2>2, HollowCount, CallersIs
  <2>3. CASE c # <<>>
    <3>1. Len(c) = 1 /\ c[1].evidence \notin kinds
      BY <1>7, <2>3
    <3>2. Cardinality(Places(p.changed, kinds)) + 0 = Cardinality(Places(t.changed, kinds))
      BY <1>1, <2>1, <3>1, OnlyCallerCount
    <3> QED BY <3>2, CallersIs
  <2> QED BY <2>2, <2>3
<1>8. c # <<>> => GuessesGone(t) /\ CalledBy(t, 2) = {} /\ Len(c) = 1 /\ c[1].evidence = "direct"
  <2> SUFFICES ASSUME c # <<>> PROVE c[1].evidence = "direct" /\ Len(c) = 1
    OBVIOUS
  <2>1. GuessesGone(t) /\ Len(c) = 1
    OBVIOUS
  <2>2. 1 \in DOMAIN c /\ c[1].evidence \in Kinds
    <3>1. DOMAIN c = 1 .. Len(c)
      BY <1>1, ChangedIs, SymbolIs
    <3>2. 1 \in DOMAIN c
      BY <2>1, <3>1
    <3> QED BY <1>1, <3>2, ChangedIs, SymbolIs
  <2>3. c[1].evidence \notin {"name", "candidate"}
    BY <1>1, <2>1, <2>2, NoGuessIs DEF GuessesGone
  <2> QED BY <2>1, <2>2, <2>3 DEF Kinds
<1>9. DirectLast(p, g)
  <2>1. CASE GuessesGone(t)
    BY <1>3, <1>4, <2>1 DEF DirectLast, GuessesGone
  <2>2. CASE ~GuessesGone(t)
    <3>1. Callers(p, {"direct"}) = Callers(t, {"direct"})
      BY <1>7, <1>8, <2>2
    <3> QED BY <2>2, <3>1 DEF Honest, DirectLast
  <2> QED BY <2>1, <2>2
<1>10. SymbolsLast(p, g)
  <2>1. CASE CalledBy(t, 2) = {}
    BY <1>5, <2>1 DEF SymbolsLast
  <2>2. CASE CalledBy(t, 2) # {}
    <3>1. c = <<>>
      BY <1>8, <2>2
    <3>2. DOMAIN c = {}
      BY <3>1
    <3>3. ~HasDirect(t, i)
      BY <3>2 DEF HasDirect
    <3>4. ASSUME NEW l \in DOMAIN t.changed, HasDirect(t, l)
          PROVE  \E k \in DOMAIN p.changed : p.changed[k].id = t.changed[l].id /\ HasDirect(p, k)
      <4>1. PICK k \in DOMAIN p.changed : p.changed[k] = t.changed[l]
        BY <1>2, <3>3, <3>4
      <4>2. HasDirect(p, k)
        BY <3>4, <4>1 DEF HasDirect
      <4> QED BY <4>1, <4>2
    <3> QED BY <2>2, <3>4 DEF Honest, SymbolsLast
  <2> QED BY <2>1, <2>2
<1>11. Tallied(p, g)
  <2>1. /\ p.truncated = t.truncated + Len(c) /\ p.symbolsOmitted = t.symbolsOmitted + 1
        /\ p.possible = t.possible /\ p.textual = t.textual /\ Len(p.changed) = Len(t.changed) - 1
    BY DEF SymbolGone, SymbolLost, IsWithout
  <2>2. Callers(p, {"candidate"}) = Callers(t, {"candidate"}) /\ Callers(p, {"name"}) = Callers(t, {"name"})
    BY <1>7, <1>8
  <2>3. Callers(p, Kinds) + Len(c) = Callers(t, Kinds)
    <3>1. CASE c = <<>>
      <4>1. Callers(p, Kinds) = Callers(t, Kinds) /\ Len(c) = 0
        BY <1>7, <3>1
      <4> QED BY <4>1, CallersIs
    <3>2. CASE c # <<>>
      <4>1. Len(c) = 1 /\ c[1].evidence \in Kinds
        BY <1>8, <3>2 DEF Kinds
      <4>2. Cardinality(Places(p.changed, Kinds)) + 1 = Cardinality(Places(t.changed, Kinds))
        BY <1>1, <4>1, ChangedIs, OnlyCallerCount
      <4> QED BY <4>1, <4>2, CallersIs
    <3> QED BY <3>1, <3>2
  <2>4. /\ Callers(p, Kinds) \in Nat /\ t.truncated \in Nat /\ t.symbolsOmitted \in Nat /\ Len(t.changed) \in Nat
    BY CallersIs, ChangedIs, CountersNat
  <2>5. Len(c) \in Nat
    BY <1>1, ChangedIs, SymbolIs
  <2> HIDE DEF c
  <2>6. Callers(p, Kinds) + p.truncated = Callers(g, Kinds)
    BY <1>1, <2>1, <2>3, <2>4, <2>5 DEF Tallied
  <2>7. Len(p.changed) + p.symbolsOmitted = Len(g.changed)
    <3>1. Len(t.changed) + t.symbolsOmitted = Len(g.changed)
      BY <1>1 DEF Tallied
    <3>2. Len(p.changed) \in Nat
      BY CountersNat
    <3>3. Len(p.changed) + 1 = Len(t.changed) /\ 1 \in Nat
      BY <2>1, <2>4
    <3> QED BY <2>1, <2>4, <3>1, <3>2, <3>3, Moved
  <2> QED BY <1>1, <2>1, <2>2, <2>6, <2>7 DEF Tallied
<1>12. CutUnnamed(p)
  BY <1>3 DEF CutUnnamed
<1> QED BY <1>6, <1>9, <1>10, <1>11, <1>12 DEF Honest

LEMMA KeptStep ==
    ASSUME NEW o \in Outputs, NEW g, Honest(o, g), NEW p, p = ShedOne(o)
    PROVE  Honest(p, g)
<1>1. PICK t : t = TrimUntracked(o)
  OBVIOUS
<1>2. t \in Outputs /\ Honest(t, g)
  <2>1. t \in Outputs /\ Same(t, o, {"untracked", "untrackedOmitted"})
    BY <1>1, Trimmed
  <2>2. Same(t, o, Aside)
    BY <2>1 DEF Same, Aside
  <2> QED BY <2>1, <2>2, KeptAside
<1>3. CASE Bare(o)
  BY <1>1, <1>2, <1>3 DEF ShedOne
<1>4. CASE ~Bare(o)
  <2>1. p \in Outputs /\ Outcome(p, t)
    BY <1>1, <1>4, StepOut
  <2>2. CASE RowsUntouched(p, t)
    BY <1>2, <2>1, <2>2, KeptUntouched
  <2>3. ASSUME NEW i, NEW j, GuessGone(p, t, i, j) PROVE Honest(p, g)
    <3>1. /\ RowGone(p, t, i, j) /\ Unnamed(t)
          /\ t.changed[i].callers[j].evidence \in {"name", "candidate"}
      BY <2>3 DEF GuessGone
    <3> QED BY <1>2, <2>1, <3>1, KeptRow
  <2>4. ASSUME NEW i, TailGone(p, t, i) PROVE Honest(p, g)
    <3>1. PICK j : j = Len(t.changed[i].callers)
      OBVIOUS
    <3>2. RowGone(p, t, i, j) /\ GuessesGone(t) /\ Unnamed(t) /\ j > 1
      BY <2>4, <3>1 DEF TailGone, GuessesGone
    <3> QED BY <1>2, <2>1, <3>2, KeptRow
  <2>5. ASSUME NEW i, HollowGone(p, t, i) PROVE Honest(p, g)
    <3>1. SymbolGone(p, t, i) /\ Unnamed(t) /\ ~t.changed[i].unresolved /\ t.changed[i].callers = <<>>
      BY <2>5 DEF HollowGone, Hollow
    <3> QED BY <1>2, <2>1, <3>1, KeptSymbol
  <2>6. ASSUME NEW i, OnlyGone(p, t, i) PROVE Honest(p, g)
    <3>1. /\ SymbolGone(p, t, i) /\ Unnamed(t) /\ ~t.changed[i].unresolved
          /\ GuessesGone(t) /\ CalledBy(t, 2) = {} /\ Len(t.changed[i].callers) = 1
      BY <2>6 DEF OnlyGone, GuessesGone
    <3> QED BY <1>2, <2>1, <3>1, KeptSymbol
  <2> QED BY <2>1, <2>2, <2>3, <2>4, <2>5, <2>6 DEF Outcome
<1> QED BY <1>3, <1>4

LEMMA KeptAlways ==
    ASSUME NEW g \in Answers, NEW n \in Nat
    PROVE  g \in Outputs /\ Honest(Shed(g, n), g)
<1> DEFINE T == {k \in 0 .. n : Honest(Shed(g, k), g)}
<1>1. g \in Outputs /\ g.truncated = 0 /\ g.possible = 0 /\ g.textual = 0 /\ g.symbolsOmitted = 0
  BY AnswersAreNew
<1>2. 0 \in T
  <2>1. Shed(g, 0) = g
    BY <1>1, ShedIs
  <2>2. Tallied(g, g)
    <3>1. /\ Callers(g, Kinds) \in Nat /\ Callers(g, {"candidate"}) \in Nat /\ Callers(g, {"name"}) \in Nat
          /\ Len(g.changed) \in Nat
      BY <1>1, CallersIs, CountersNat
    <3> QED BY <1>1, <3>1 DEF Tallied
  <2>3. StillUnresolved(g, g)
    BY DEF StillUnresolved
  <2>4. CutUnnamed(g)
    BY <1>1 DEF CutUnnamed
  <2>5. DirectLast(g, g)
    BY <1>1, CallersIs DEF DirectLast
  <2>6. SymbolsLast(g, g)
    BY DEF SymbolsLast
  <2> QED BY <2>1, <2>2, <2>3, <2>4, <2>5, <2>6 DEF Honest
<1>3. ASSUME NEW k \in 0 .. n - 1, k \in T PROVE k + 1 \in T
  <2>1. k \in Nat /\ k + 1 \in 0 .. n
    OBVIOUS
  <2>2. Shed(g, k) \in Outputs /\ Shed(g, k + 1) = ShedOne(Shed(g, k))
    BY <1>1, <2>1, ShedIs
  <2>3. Honest(Shed(g, k + 1), g)
    BY <1>3, <2>2, KeptStep
  <2> QED BY <2>1, <2>3
<1>4. \A k \in 0 .. n : k \in T
  <2> HIDE DEF T
  <2> QED BY <1>2, <1>3, UpTo
<1> QED BY <1>1, <1>4

(***************************************************************************)
(* The search                                                              *)
(***************************************************************************)

\* The answer striding is so many steps from the one given and, but for that
\* one, does not fit; the bounds of the halving are an answer that does not
\* fit and one that does.
Striding == \E K \in Nat : output = Shed(given, K) /\ (K = 0 \/ ~Fits(output))
Halving ==
    \E K \in Nat :
        /\ output = Shed(given, K) /\ ~Fits(Shed(given, K + lo))
        /\ IF hi = 0 THEN lo = 0 /\ Ahead = Shed(given, K + 1) /\ Fits(Ahead)
                     ELSE lo < hi /\ Fits(Shed(given, K + hi))
Enough(k) ==
    \/ Fits(Shed(given, k)) /\ (k > 0 => ~Fits(Shed(given, k - 1)))
    \/ Bare(Shed(given, k))
Settled == \E k \in Nat : output = Fitted(k) /\ Enough(k)
FitInv ==
    /\ given \in Answers /\ cap \in Caps
    /\ stride \in Nat \ {0} /\ lo \in Nat /\ hi \in Nat
    /\ phase \in {"stride", "halve", "done"}
    /\ phase = "stride" => Striding
    /\ phase = "halve" => Halving
    /\ phase = "done" => Settled

LEMMA EndKeeps ==
    ASSUME FitInv, NEW k \in Nat, NEW o, o = Shed(given, k), Enough(k), End(o)
    PROVE  FitInv'
<1>1. given \in Outputs /\ o \in Outputs
  BY AnswersAreNew, ShedIs DEF FitInv
<1>2. output' = [o EXCEPT !.empty = ProvesEmpty(o)] /\ phase' = "done"
      /\ given' = given /\ cap' = cap /\ form' = form /\ stride' = stride /\ lo' = lo /\ hi' = hi
  BY DEF End
<1>3. output'.empty = ProvesEmpty(o)
  BY <1>1, <1>2 DEF Outputs
<1>4. output' = [Shed(given, k) EXCEPT !.empty = output'.empty]
  BY <1>2, <1>3
<1>5. (output = Fitted(k))'
  BY <1>2, <1>4 DEF Fitted
<1>6. Enough(k)'
  BY <1>2 DEF Enough, Fits
<1>7. Settled'
  BY <1>5, <1>6 DEF Settled
<1> QED BY <1>2, <1>7 DEF FitInv

LEMMA EntriesEnough ==
    ASSUME NEW o \in Outputs
    PROVE  Entries(o) \in Nat /\ Potential(o) + 1 <= Entries(o)
<1>1. Rows(o) \in Nat /\ o.namedOmitted \in Nat
  BY RowsNat, ChangedIs
<1> QED BY <1>1 DEF Entries, Potential

\* The answer delivered, at a number of steps no answer exceeds.
LEMMA FitSpares == FitInv => NoneToSpare
<1> SUFFICES ASSUME FitInv, phase = "done"
             PROVE  \E k \in 0 .. Entries(given) : output = Fitted(k) /\ Enough(k)
  BY DEF NoneToSpare, Enough
<1>1. given \in Outputs
  BY AnswersAreNew DEF FitInv
<1>2. PICK n \in Nat : output = Fitted(n) /\ Enough(n)
  BY DEF FitInv, Settled
<1>3. PICK k \in 0 .. n :
        /\ k <= Potential(given) + 1 /\ Shed(given, k) = Shed(given, n)
        /\ k = n \/ Shed(given, n - 1) = Shed(given, n)
  BY <1>1, FewSteps
<1>4. k \in 0 .. Entries(given)
  BY <1>1, <1>3, EntriesEnough, RowsNat
<1>5. Fitted(k) = Fitted(n)
  BY <1>3 DEF Fitted
<1>6. CASE k = n
  BY <1>2, <1>4, <1>6
<1>7. CASE k # n
  <2>1. n > 0 /\ Shed(given, n - 1) = Shed(given, n)
    BY <1>3, <1>7
  <2>2. Bare(Shed(given, k))
    BY <1>2, <1>3, <2>1 DEF Enough
  <2> QED BY <1>2, <1>4, <1>5, <2>2 DEF Enough
<1> QED BY <1>6, <1>7

LEMMA FitKept ==
    ASSUME FitInv, phase = "done"
    PROVE  Honest(output, given)
<1>1. given \in Outputs /\ given \in Answers
  BY AnswersAreNew DEF FitInv
<1>2. PICK n \in Nat : output = Fitted(n)
  BY DEF FitInv, Settled
<1> DEFINE o == Shed(given, n)  e == output.empty
<1>3. o \in Outputs /\ Honest(o, given)
  BY <1>1, ShedIs, KeptAlways
<1>4. output = [o EXCEPT !.empty = e]
  BY <1>2 DEF Fitted
<1> HIDE DEF o
<1>5. Same(output, o, {"empty"})
  <2>1. "empty" \in Fields
    BY DEF Fields
  <2> HIDE DEF e
  <2> QED BY <1>3, <1>4, <2>1, Spared, Zenon
<1>6. Same(output, o, Aside)
  BY <1>5 DEF Same, Aside
<1>7. Honest(output, given)
  BY <1>3, <1>6, KeptAside
<1> QED BY <1>7

LEMMA FitLeast == FitInv => LeastNeededFirst
<1> SUFFICES ASSUME FitInv, phase = "done"
             PROVE  /\ output.truncated > 0 => output.named = 0 /\ output.namedOmitted = 0
                    /\ Callers(output, {"direct"}) < Callers(given, {"direct"}) =>
                          Callers(output, {"candidate", "name"}) = 0 /\ output.contracts = 0
                    /\ (\E i \in DOMAIN given.changed :
                            /\ \E j \in DOMAIN given.changed[i].callers : given.changed[i].callers[j].evidence = "direct"
                            /\ \A s \in Range(output.changed) : s.id # given.changed[i].id)
                        => CalledBy(output, 2) = {}
  BY DEF LeastNeededFirst
<1>1. Honest(output, given)
  BY FitKept
<1>2. output.truncated > 0 => output.named = 0 /\ output.namedOmitted = 0
  BY <1>1 DEF Honest, CutUnnamed, Unnamed
<1>3. ASSUME Callers(output, {"direct"}) < Callers(given, {"direct"})
      PROVE  Callers(output, {"candidate", "name"}) = 0 /\ output.contracts = 0
  <2>1. GuessesGone(output)
    BY <1>1, <1>3 DEF Honest, DirectLast
  <2>2. \A i \in DOMAIN output.changed : \A j \in DOMAIN output.changed[i].callers :
            output.changed[i].callers[j].evidence \notin {"name", "candidate"}
    BY <2>1, NoGuessIs DEF GuessesGone
  <2> DEFINE row(i) == {<<i, j>> : j \in {j \in DOMAIN output.changed[i].callers :
                            output.changed[i].callers[j].evidence \in {"candidate", "name"}}}
  <2>3. \A i \in DOMAIN output.changed : row(i) = {}
    BY <2>2
  <2>4. UNION {row(i) : i \in DOMAIN output.changed} = {}
    <3> HIDE DEF row
    <3> QED BY <2>3
  <2>5. Callers(output, {"candidate", "name"}) = 0
    BY <2>4, FS_EmptySet DEF Callers
  <2> QED BY <2>1, <2>5 DEF GuessesGone
<1>4. ASSUME NEW i \in DOMAIN given.changed,
             \E j \in DOMAIN given.changed[i].callers : given.changed[i].callers[j].evidence = "direct",
             \A s \in Range(output.changed) : s.id # given.changed[i].id
      PROVE  CalledBy(output, 2) = {}
  <2>1. HasDirect(given, i)
    BY <1>4 DEF HasDirect
  <2>2. \A k \in DOMAIN output.changed : output.changed[k].id # given.changed[i].id
    BY <1>4 DEF Range
  <2> QED BY <1>1, <2>1, <2>2 DEF Honest, SymbolsLast
<1> QED BY <1>2, <1>3, <1>4

LEMMA FitSaid == FitInv => UnknownIsSaid
<1> SUFFICES ASSUME FitInv, phase = "done"
             PROVE  /\ \A s \in Range(given.changed) : s.unresolved => \E t \in Range(output.changed) : t.id = s.id
                    /\ Tallied(output, given)
  BY DEF UnknownIsSaid, Tallied
<1>1. Honest(output, given)
  BY FitKept
<1>2. ASSUME NEW s \in Range(given.changed), s.unresolved PROVE \E t \in Range(output.changed) : t.id = s.id
  <2>1. PICK i \in DOMAIN given.changed : s = given.changed[i]
    BY DEF Range
  <2>2. PICK k \in DOMAIN output.changed : output.changed[k].id = given.changed[i].id
    BY <1>1, <1>2, <2>1 DEF Honest, StillUnresolved
  <2> QED BY <2>1, <2>2 DEF Range
<1> QED BY <1>1, <1>2 DEF Honest

LEMMA FitStart == FitInit => FitInv
<1> SUFFICES ASSUME FitInit PROVE FitInv
  OBVIOUS
<1>1. given \in Outputs
  BY AnswersAreNew DEF FitInit
<1>2. Shed(given, 0) = given
  BY <1>1, ShedIs
<1>4. Striding
  BY <1>2 DEF Striding, FitInit
<1> QED BY <1>4 DEF FitInv, FitInit

LEMMA FitStep == FitInv /\ [FitNext]_fitting => FitInv'
<1> SUFFICES ASSUME FitInv, [FitNext]_fitting PROVE FitInv'
  OBVIOUS
<1>0. given \in Outputs /\ cap \in Nat /\ stride \in Nat /\ stride > 0 /\ lo \in Nat /\ hi \in Nat
  BY AnswersAreNew, CapsAreCounts DEF FitInv
<1>1. CASE FitsAsItIs
  <2>1. PICK K \in Nat : output = Shed(given, K) /\ (K = 0 \/ ~Fits(output))
    BY <1>1 DEF FitsAsItIs, FitInv, Striding
  <2>2. K = 0 /\ Fits(output)
    BY <1>1, <2>1 DEF FitsAsItIs
  <2>3. Enough(K)
    BY <2>1, <2>2 DEF Enough
  <2> QED BY <1>1, <2>1, <2>3, EndKeeps DEF FitsAsItIs
<1>2. CASE Double
  <2>1. PICK K \in Nat : output = Shed(given, K) /\ (K = 0 \/ ~Fits(output))
    BY <1>2 DEF Double, FitInv, Striding
  <2>2. K + stride \in Nat /\ Ahead = Shed(given, K + stride)
    BY <1>0, <2>1, ShedIs DEF Ahead
  <2>3. /\ output' = Shed(given, K + stride) /\ ~Fits(Shed(given, K + stride)) /\ stride' = 2 * stride
        /\ given' = given /\ cap' = cap /\ form' = form /\ phase' = phase /\ lo' = lo /\ hi' = hi /\ phase = "stride"
    BY <1>2, <2>2 DEF Double
  <2>5. Striding'
    <3> DEFINE n == K + stride
    <3>2. n \in Nat /\ output' = Shed(given', n)
      BY <2>2, <2>3
    <3>3. ~Fits(output)'
      BY <2>3 DEF Fits
    <3> HIDE DEF n
    <3> QED BY <3>2, <3>3 DEF Striding
  <2>6. stride' \in Nat \ {0}
    BY <1>0, <2>3
  <2> QED BY <2>3, <2>5, <2>6 DEF FitInv
<1>3. CASE GiveUp
  <2>1. PICK K \in Nat : output = Shed(given, K) /\ (K = 0 \/ ~Fits(output))
    BY <1>3 DEF GiveUp, FitInv, Striding
  <2>2. K + stride \in Nat /\ Ahead = Shed(given, K + stride) /\ output \in Outputs
    BY <1>0, <2>1, ShedIs DEF Ahead
  <2>3. ~Fits(Ahead) /\ Taken(output, stride) < stride /\ End(Ahead)
    BY <1>3 DEF GiveUp, Exhausted
  <2>4. Bare(Ahead)
    BY <1>0, <2>2, <2>3, TakenIs DEF Ahead
  <2>5. Enough(K + stride)
    BY <2>2, <2>4 DEF Enough
  <2> QED BY <2>2, <2>3, <2>5, EndKeeps
<1>4. CASE Narrow
  <2>1. PICK K \in Nat : output = Shed(given, K) /\ (K = 0 \/ ~Fits(output))
    BY <1>4 DEF Narrow, FitInv, Striding
  <2>2. /\ phase' = "halve" /\ lo' = 0 /\ hi' = Taken(output, stride) /\ ~Fits(output) /\ Fits(Ahead)
        /\ given' = given /\ cap' = cap /\ form' = form /\ output' = output /\ stride' = stride
    BY <1>4 DEF Narrow
  <2>3. output \in Outputs /\ Shed(output, stride) = Shed(given, K + stride) /\ Shed(output, 1) = Shed(given, K + 1)
    BY <1>0, <2>1, ShedIs
  <2> DEFINE m == Taken(output, stride)
  <2>4. /\ m \in 0 .. stride
        /\ m < stride => Bare(Shed(output, stride)) /\ (m > 0 => Shed(output, m) = Shed(output, stride))
        /\ m = 0 => Shed(output, stride) = Shed(output, 1)
    BY <1>0, <2>3, TakenIs
  <2> HIDE DEF m
  <2>5. hi' = m
    BY <2>2 DEF m
  <2>6. m \in Nat /\ m <= stride
    BY <1>0, <2>4
  <2>7. Ahead' = Ahead /\ Ahead = Shed(given, K + stride)
    BY <2>2, <2>3 DEF Ahead
  <2>8. \A o : Fits(o)' <=> Fits(o)
    BY <2>2 DEF Fits
  <2>9. K + lo' = K /\ K + 0 = K
    BY <2>1, <2>2
  <2>10. CASE m = 0
    <3>1. Ahead = Shed(given, K + 1) /\ Fits(Ahead)
      BY <2>2, <2>3, <2>4, <2>7, <2>10
    <3>2. Fits(Ahead)'
      BY <2>2, <3>1, <2>7 DEF Fits
    <3>3. ~Fits(Shed(given, K + lo))'
      BY <2>1, <2>2, <2>9 DEF Fits
    <3>4. Halving'
      BY <2>1, <2>2, <2>5, <2>7, <2>10, <3>1, <3>2, <3>3 DEF Halving
    <3> QED BY <2>2, <2>5, <2>6, <3>4, <1>0 DEF FitInv
  <2>11. CASE m # 0
    <3>1. m > 0
      BY <2>6, <2>11
    <3>2. Shed(output, m) = Shed(output, stride)
      BY <1>0, <2>4, <2>6, <3>1
    <3>3. Shed(output, m) = Shed(given, K + m)
      BY <1>0, <2>1, <2>6, ShedIs
    <3>4. Fits(Shed(given, K + m))
      BY <2>2, <2>3, <2>7, <3>2, <3>3
    <3>5. Fits(Shed(given, K + hi))'
      BY <2>2, <2>5, <3>4 DEF Fits
    <3>6. ~Fits(Shed(given, K + lo))'
      BY <2>1, <2>2, <2>9 DEF Fits
    <3>7. lo' < hi' /\ hi' # 0
      BY <2>2, <2>5, <3>1
    <3>8. Halving'
      BY <2>1, <2>2, <3>5, <3>6, <3>7 DEF Halving
    <3> QED BY <2>2, <2>5, <2>6, <3>8, <1>0 DEF FitInv
  <2> QED BY <2>10, <2>11
<1>5. CASE Halve
  <2>1. PICK K \in Nat :
          /\ output = Shed(given, K) /\ ~Fits(Shed(given, K + lo))
          /\ IF hi = 0 THEN lo = 0 /\ Ahead = Shed(given, K + 1) /\ Fits(Ahead)
                       ELSE lo < hi /\ Fits(Shed(given, K + hi))
    BY <1>5 DEF Halve, FitInv, Halving
  <2> DEFINE mid == lo + (hi - lo) \div 2
  <2>2. /\ hi - lo > 1 /\ given' = given /\ cap' = cap /\ form' = form /\ output' = output /\ phase' = phase /\ stride' = stride
        /\ IF Fits(Shed(output, mid)) THEN hi' = mid /\ lo' = lo ELSE lo' = mid /\ hi' = hi
        /\ phase = "halve"
    BY <1>5 DEF Halve
  <2>3. hi # 0 /\ lo < hi /\ Fits(Shed(given, K + hi))
    BY <1>0, <2>1, <2>2
  <2>4. mid \in Nat /\ lo < mid /\ mid < hi
    <3>1. (hi - lo) \div 2 \in Nat /\ (hi - lo) \div 2 >= 1 /\ (hi - lo) \div 2 < hi - lo
      BY <1>0, <2>2
    <3> QED BY <1>0, <3>1
  <2> HIDE DEF mid
  <2>5. Shed(output, mid) = Shed(given, K + mid)
    BY <1>0, <2>1, <2>4, ShedIs
  <2>6. CASE Fits(Shed(output, mid))
    <3>1. hi' = mid /\ lo' = lo
      BY <2>2, <2>6
    <3>2. Fits(Shed(given, K + hi))' /\ ~Fits(Shed(given, K + lo))'
      BY <2>1, <2>2, <2>5, <2>6, <3>1 DEF Fits
    <3>3. lo' < hi' /\ hi' # 0 /\ hi' \in Nat /\ lo' \in Nat
      BY <1>0, <2>4, <3>1
    <3>4. Halving'
      BY <2>1, <2>2, <3>2, <3>3 DEF Halving
    <3> QED BY <2>2, <3>3, <3>4 DEF FitInv
  <2>7. CASE ~Fits(Shed(output, mid))
    <3>1. hi' = hi /\ lo' = mid
      BY <2>2, <2>7
    <3>2. Fits(Shed(given, K + hi))' /\ ~Fits(Shed(given, K + lo))'
      BY <2>2, <2>3, <2>5, <2>7, <3>1 DEF Fits
    <3>3. lo' < hi' /\ hi' # 0 /\ hi' \in Nat /\ lo' \in Nat
      BY <1>0, <2>4, <3>1
    <3>4. Halving'
      BY <2>1, <2>2, <3>2, <3>3 DEF Halving
    <3> QED BY <2>2, <3>3, <3>4 DEF FitInv
  <2> QED BY <2>6, <2>7
<1>6. CASE Settle
  <2>1. PICK K \in Nat :
          /\ output = Shed(given, K) /\ ~Fits(Shed(given, K + lo))
          /\ IF hi = 0 THEN lo = 0 /\ Ahead = Shed(given, K + 1) /\ Fits(Ahead)
                       ELSE lo < hi /\ Fits(Shed(given, K + hi))
    BY <1>6 DEF Settle, FitInv, Halving
  <2>2. hi - lo <= 1 /\ End(IF hi = 0 THEN Ahead ELSE Shed(output, hi))
    BY <1>6 DEF Settle
  <2>3. K + lo \in Nat
    BY <1>0, <2>1
  <2>5. CASE hi = 0
    <3>1. End(Ahead) /\ Ahead = Shed(given, K + 1) /\ Fits(Ahead)
      BY <2>1, <2>2, <2>5
    <3>2. K + 1 \in Nat /\ (K + 1) - 1 = K + lo
      BY <2>1, <2>5
    <3>3. Enough(K + 1)
      BY <2>1, <3>1, <3>2 DEF Enough
    <3> QED BY <3>1, <3>2, <3>3, EndKeeps
  <2>6. CASE hi # 0
    <3>1. (K + hi) - 1 = K + lo /\ K + hi \in Nat
      BY <1>0, <2>1, <2>2, <2>6
    <3>2. Shed(output, hi) = Shed(given, K + hi)
      BY <1>0, <2>1, ShedIs
    <3>3. End(Shed(output, hi)) /\ Fits(Shed(given, K + hi))
      BY <2>1, <2>2, <2>6
    <3>4. Enough(K + hi)
      BY <2>1, <3>1, <3>3 DEF Enough
    <3> QED BY <3>1, <3>2, <3>3, <3>4, EndKeeps
  <2> QED BY <2>5, <2>6
<1>7. CASE UNCHANGED fitting
  <2>1. /\ given' = given /\ cap' = cap /\ form' = form /\ output' = output /\ phase' = phase /\ stride' = stride
        /\ lo' = lo /\ hi' = hi
    BY <1>7 DEF fitting
  <2> QED BY <2>1 DEF FitInv, Striding, Halving, Settled, Enough, Fits, Ahead, Fitted
<1> QED BY <1>1, <1>2, <1>3, <1>4, <1>5, <1>6, <1>7 DEF FitNext

LEMMA FitAlways == FitSpec => []FitInv
<1>1. FitInit => FitInv
  BY FitStart
<1>2. FitInv /\ [FitNext]_fitting => FitInv'
  BY FitStep
<1> QED BY <1>1, <1>2, PTL DEF FitSpec

\* Doubling, then halving, ends at an answer that fits the cap and does not
\* with its last step undone, or at one from which all that can go has gone,
\* however long each answer is in the form it is delivered in.
THEOREM NothingSpared == FitSpec => []NoneToSpare
BY FitAlways, FitSpares, PTL

\* Whatever was shed, a known caller went only when no guess, no contract and
\* no line that names a file was left, and the only known caller of a symbol
\* only when no symbol had two.
THEOREM CallersLast == FitSpec => []LeastNeededFirst
BY FitAlways, FitLeast, PTL

\* A symbol whose callers are unknown is never shed, and every symbol and
\* caller of the answer given is delivered or counted.
THEOREM UnknownSaid == FitSpec => []UnknownIsSaid
BY FitAlways, FitSaid, PTL
=============================================================================
