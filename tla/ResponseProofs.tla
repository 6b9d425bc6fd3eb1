--------------------------- MODULE ResponseProofs ---------------------------
(***************************************************************************)
(* What the accumulator makes of the bytes it is fed, for every sequence   *)
(* of chunks.  Its operators fold a step over a sequence; a fold is the    *)
(* last state of a run of that step, and facts about runs are proved by    *)
(* induction on their length.                                              *)
(***************************************************************************)
EXTENDS Response, SequenceTheorems, WellFoundedInduction, TLAPS

-----------------------------------------------------------------------------
(* Induction on the naturals, for a set.                                   *)

\* A set of naturals has a least element.
LEMMA Least ==
  ASSUME NEW T \in SUBSET Nat, T # {}
  PROVE  \E x \in T : \A y \in T : x <= y
<1> DEFINE R == OpToRel(<, Nat)
<1>1. IsWellFoundedOn(R, Nat)
  BY NatLessThanWellFounded
<1>2. \A x, y \in Nat : <<y, x>> \in R <=> y < x
  BY DEF OpToRel
<1> HIDE DEF R
<1>3. PICK x \in T : \A y \in T : ~ (<<y, x>> \in R)
  BY <1>1, WFMin
<1>4. ASSUME NEW y \in T PROVE x <= y
  <2>1. ~(<<y, x>> \in R) /\ x \in Nat /\ y \in Nat
    BY <1>3
  <2> QED BY <1>2, <2>1
<1> QED BY <1>4

\* A set that has 0, and n + 1 with n, has every natural.
LEMMA Induction ==
  ASSUME NEW T \in SUBSET Nat, 0 \in T, \A n \in T : n + 1 \in T
  PROVE  T = Nat
<1> SUFFICES ASSUME Nat \ T # {} PROVE FALSE
  OBVIOUS
<1>1. PICK m \in Nat \ T : \A y \in Nat \ T : m <= y
  BY Least
<1>2. m # 0 /\ m - 1 \in Nat
  BY <1>1
<1>3. m - 1 \in T
  BY <1>1, <1>2
<1>4. (m - 1) + 1 \in T
  BY <1>3
<1> QED BY <1>1, <1>4

-----------------------------------------------------------------------------
(* Runs of a step.                                                         *)

\* A step takes a state in V and an element of C to a state in V.
IsStep(F, V, C) == F \in [V \X C -> V]

\* The runs of step F from b over s, with states in V.
Runs(F, V, b, s) ==
  {r \in [0 .. Len(s) -> V] :
     r[0] = b /\ \A k \in 1 .. Len(s) : r[k] = F[<<r[k - 1], s[k]>>]}

\* Two runs from the same state over the same sequence are the same.
LEMMA RunsAgree ==
  ASSUME NEW V, NEW C, NEW F, IsStep(F, V, C), NEW b \in V, NEW s \in Seq(C),
         NEW r \in Runs(F, V, b, s), NEW q \in Runs(F, V, b, s)
  PROVE  r[Len(s)] = q[Len(s)]
<1> USE DEF IsStep
<1> DEFINE T == {n \in Nat : n <= Len(s) => r[n] = q[n]}
<1>1. 0 \in T
  BY DEF Runs
<1>2. ASSUME NEW n \in T PROVE n + 1 \in T
  <2> SUFFICES ASSUME n + 1 <= Len(s) PROVE r[n + 1] = q[n + 1]
    OBVIOUS
  <2>1. n \in Nat /\ n + 1 \in 1 .. Len(s) /\ (n + 1) - 1 = n /\ n <= Len(s)
    OBVIOUS
  <2>2. r[n] = q[n]
    BY <2>1
  <2> QED BY <2>1, <2>2 DEF Runs
<1> HIDE DEF T
<1>3. T = Nat
  BY <1>1, <1>2, Induction DEF T
<1> QED BY <1>3 DEF T

\* A run goes on in V as long as its steps do.
LEMMA RunStaysIn ==
  ASSUME NEW V, NEW C, NEW F, IsStep(F, V, C), NEW b \in V, NEW s \in Seq(C),
         NEW r, r = [k \in 0 .. Len(s) |-> r[k]], r[0] = b,
         \A k \in 1 .. Len(s) : r[k - 1] \in V => r[k] = F[<<r[k - 1], s[k]>>]
  PROVE  r \in Runs(F, V, b, s)
<1> USE DEF IsStep
<1> DEFINE T == {n \in Nat : n <= Len(s) => r[n] \in V}
<1>1. 0 \in T
  OBVIOUS
<1>2. ASSUME NEW n \in T PROVE n + 1 \in T
  <2> SUFFICES ASSUME n + 1 <= Len(s) PROVE r[n + 1] \in V
    OBVIOUS
  <2>1. n \in Nat /\ n + 1 \in 1 .. Len(s) /\ (n + 1) - 1 = n /\ n <= Len(s)
    OBVIOUS
  <2>2. r[n] \in V /\ s[n + 1] \in C
    BY <2>1
  <2>3. r[n + 1] = F[<<r[n], s[n + 1]>>]
    BY <2>1, <2>2
  <2> QED BY <2>2, <2>3
<1> HIDE DEF T
<1>3. T = Nat
  BY <1>1, <1>2, Induction DEF T
<1>4. ASSUME NEW k \in 0 .. Len(s) PROVE r[k] \in V
  <2>1. k \in Nat /\ k <= Len(s)
    OBVIOUS
  <2> QED BY <1>3, <2>1 DEF T
<1>5. r \in [0 .. Len(s) -> V]
  BY <1>4
<1>6. ASSUME NEW k \in 1 .. Len(s) PROVE r[k] = F[<<r[k - 1], s[k]>>]
  <2>1. k - 1 \in 0 .. Len(s)
    OBVIOUS
  <2> QED BY <1>4, <2>1
<1> QED BY <1>5, <1>6 DEF Runs

\* Of the sets of positions up to n + 1, those that have n + 1 have it as
\* their greatest.
LEMMA MaxIsLast ==
  ASSUME NEW n \in Nat, NEW S \in SUBSET (1 .. n), n \in S
  PROVE  Max(S) = n
<1>1. \A x \in S : (\A y \in S : x >= y) => x = n
  OBVIOUS
<1>2. \A y \in S : n >= y
  OBVIOUS
<1> QED BY <1>1, <1>2 DEF Max

\* i is the function on sets of positions, up to n, by which a fold of F
\* over s is defined.
FoldsOver(i, n, F, V, b, s) ==
  /\ i \in [SUBSET (1 .. n) -> V]
  /\ \A S \in SUBSET (1 .. n) :
       IF S = {} THEN i[S] = b
       ELSE /\ Max(S) \in 1 .. n
            /\ S \ {Max(S)} \in SUBSET (1 .. n)
            /\ i[S] = F[<<i[S \ {Max(S)}], s[Max(S)]>>]

\* There is such a function.
LEMMA FoldIsDefined ==
  ASSUME NEW V, NEW C, NEW F, IsStep(F, V, C), NEW b \in V, NEW s \in Seq(C)
  PROVE  \E i : FoldsOver(i, Len(s), F, V, b, s)
<1> USE DEF IsStep
<1> DEFINE T == {n \in Nat : n <= Len(s) => \E i : FoldsOver(i, n, F, V, b, s)}
<1>1. 0 \in T
  <2>1. SUBSET (1 .. 0) = {{}}
    BY SMT
  <2>2. FoldsOver([S \in SUBSET (1 .. 0) |-> b], 0, F, V, b, s)
    BY <2>1 DEF FoldsOver
  <2> QED BY <2>2
<1>2. ASSUME NEW n \in T PROVE n + 1 \in T
    <2> SUFFICES ASSUME n + 1 <= Len(s) PROVE \E i : FoldsOver(i, n + 1, F, V, b, s)
    OBVIOUS
  <2>1. n \in Nat /\ n <= Len(s) /\ s[n + 1] \in C
    OBVIOUS
  <2>2. PICK i : FoldsOver(i, n, F, V, b, s)
    BY <2>1
  <2> HIDE DEF T
  <2> DEFINE j == [S \in SUBSET (1 .. n + 1) |->
                     IF n + 1 \in S THEN F[<<i[S \ {n + 1}], s[n + 1]>>] ELSE i[S]]
  <2>3. ASSUME NEW S \in SUBSET (1 .. n + 1)
        PROVE  IF n + 1 \in S THEN S \ {n + 1} \in SUBSET (1 .. n)
               ELSE S \in SUBSET (1 .. n)
    BY <2>1
  <2>4. ASSUME NEW S \in SUBSET (1 .. n) PROVE S \in SUBSET (1 .. n + 1) /\ n + 1 \notin S
    BY <2>1
  <2>5. ASSUME NEW S \in SUBSET (1 .. n) PROVE j[S] = i[S] /\ i[S] \in V
    BY <2>2, <2>4 DEF FoldsOver
  <2>6. j \in [SUBSET (1 .. n + 1) -> V]
    <3> SUFFICES ASSUME NEW S \in SUBSET (1 .. n + 1) PROVE j[S] \in V
      OBVIOUS
    <3>1. CASE n + 1 \in S
      BY <3>1, <2>1, <2>3, <2>5
    <3>2. CASE n + 1 \notin S
      BY <3>2, <2>3, <2>5
    <3> QED BY <3>1, <3>2
  <2>7. ASSUME NEW S \in SUBSET (1 .. n + 1), S # {}
        PROVE  /\ Max(S) \in 1 .. n + 1
               /\ S \ {Max(S)} \in SUBSET (1 .. n + 1)
               /\ j[S] = F[<<j[S \ {Max(S)}], s[Max(S)]>>]
    <3>1. CASE n + 1 \in S
      <4>1. Max(S) = n + 1 /\ n + 1 \in 1 .. n + 1
        BY <3>1, <2>1, MaxIsLast
      <4>2. S \ {n + 1} \in SUBSET (1 .. n)
        BY <3>1, <2>3
      <4>3. j[S \ {n + 1}] = i[S \ {n + 1}] /\ S \ {n + 1} \in SUBSET (1 .. n + 1)
        BY <4>2, <2>5, <2>4
      <4>4. j[S] = F[<<i[S \ {n + 1}], s[n + 1]>>]
        BY <3>1
      <4> HIDE DEF j
      <4> QED BY <4>1, <4>3, <4>4
    <3>2. CASE n + 1 \notin S
      <4>1. S \in SUBSET (1 .. n)
        BY <3>2, <2>3
      <4>2. /\ Max(S) \in 1 .. n
            /\ S \ {Max(S)} \in SUBSET (1 .. n)
            /\ i[S] = F[<<i[S \ {Max(S)}], s[Max(S)]>>]
        BY <4>1, <2>7, <2>2 DEF FoldsOver
      <4>3. j[S] = i[S] /\ j[S \ {Max(S)}] = i[S \ {Max(S)}]
        BY <4>1, <4>2, <2>5
      <4>4. Max(S) \in 1 .. n + 1 /\ S \ {Max(S)} \in SUBSET (1 .. n + 1)
        BY <4>2, <2>4, <2>1
      <4> HIDE DEF j
      <4> QED BY <4>2, <4>3, <4>4
    <3> QED BY <3>1, <3>2
  <2>8. {} \in SUBSET (1 .. n + 1) /\ j[{}] = b
    <3>1. i[{}] = b
      BY <2>2 DEF FoldsOver
    <3> QED BY <3>1
  <2> HIDE DEF j
  <2>9. FoldsOver(j, n + 1, F, V, b, s)
    BY <2>6, <2>7, <2>8 DEF FoldsOver
  <2> QED BY <2>9
<1> HIDE DEF T
<1>3. T = Nat
  BY <1>1, <1>2, Induction DEF T
<1>4. \E i : FoldsOver(i, Len(s), F, V, b, s)
  <2>1. Len(s) \in T /\ Len(s) <= Len(s)
    BY <1>3
    <2> QED BY <2>1 DEF T
<1> QED BY <1>4

\* A run over s \o t is one over s and then one over t.
LEMMA RunsJoin ==
  ASSUME NEW V, NEW C, NEW F, IsStep(F, V, C), NEW b \in V, NEW s \in Seq(C),
         NEW t \in Seq(C), NEW r \in Runs(F, V, b, s \o t)
  PROVE  /\ r[Len(s)] \in V
         /\ \E q \in Runs(F, V, b, s) : q[Len(s)] = r[Len(s)]
         /\ \E w \in Runs(F, V, r[Len(s)], t) : w[Len(t)] = r[Len(s \o t)]
<1> USE DEF IsStep
<1> DEFINE q == [k \in 0 .. Len(s) |-> r[k]]
           w == [k \in 0 .. Len(t) |-> r[Len(s) + k]]
<1>1. Len(s \o t) = Len(s) + Len(t) /\ Len(s) \in Nat /\ Len(t) \in Nat
  OBVIOUS
<1>2. /\ r \in [0 .. Len(s) + Len(t) -> V]
      /\ r[0] = b
      /\ \A k \in 1 .. Len(s) + Len(t) : r[k] = F[<<r[k - 1], (s \o t)[k]>>]
  BY <1>1 DEF Runs
<1>3. /\ \A k \in 1 .. Len(s) : (s \o t)[k] = s[k]
      /\ \A k \in 1 .. Len(t) : (s \o t)[Len(s) + k] = t[k]
  OBVIOUS
<1>4. q \in Runs(F, V, b, s)
  <2>1. q \in [0 .. Len(s) -> V] /\ q[0] = b
    BY <1>1, <1>2
  <2>2. ASSUME NEW k \in 1 .. Len(s) PROVE q[k] = F[<<q[k - 1], s[k]>>]
    <3>1. k \in 1 .. Len(s) + Len(t) /\ k \in 0 .. Len(s) /\ k - 1 \in 0 .. Len(s)
      BY <1>1
    <3>2. r[k] = F[<<r[k - 1], s[k]>>]
      BY <1>2, <1>3, <3>1
    <3> QED BY <3>1, <3>2
  <2> HIDE DEF q
  <2> QED BY <2>1, <2>2 DEF Runs
<1>5. w \in Runs(F, V, r[Len(s)], t)
  <2>1. w \in [0 .. Len(t) -> V] /\ w[0] = r[Len(s)]
    BY <1>1, <1>2
  <2>2. ASSUME NEW k \in 1 .. Len(t) PROVE w[k] = F[<<w[k - 1], t[k]>>]
    <3>1. /\ Len(s) + k \in 1 .. Len(s) + Len(t)
          /\ (Len(s) + k) - 1 = Len(s) + (k - 1)
          /\ k \in 0 .. Len(t) /\ k - 1 \in 0 .. Len(t)
      BY <1>1
    <3>2. r[Len(s) + k] = F[<<r[Len(s) + (k - 1)], t[k]>>]
      BY <1>2, <1>3, <3>1
    <3> QED BY <3>1, <3>2
  <2> HIDE DEF w
  <2> QED BY <2>1, <2>2 DEF Runs
<1>6. r[Len(s)] \in V /\ q[Len(s)] = r[Len(s)] /\ w[Len(t)] = r[Len(s \o t)]
  BY <1>1, <1>2
<1> HIDE DEF q, w
<1> QED BY <1>4, <1>5, <1>6

\* H takes a step to a step.
Commutes(H, F, V, C) ==
  H \in [V -> V] /\ \A v \in V, c \in C : F[<<H[v], c>>] = H[F[<<v, c>>]]

\* Then it takes a run to a run.
LEMMA RunsMap ==
  ASSUME NEW V, NEW C, NEW F, IsStep(F, V, C), NEW H, Commutes(H, F, V, C),
         NEW b \in V, NEW s \in Seq(C), NEW r \in Runs(F, V, b, s)
  PROVE  \E q \in Runs(F, V, H[b], s) : q[Len(s)] = H[r[Len(s)]]
<1> DEFINE q == [k \in 0 .. Len(s) |-> H[r[k]]]
<1>1. /\ r \in [0 .. Len(s) -> V] /\ r[0] = b /\ Len(s) \in Nat
      /\ \A k \in 1 .. Len(s) : r[k] = F[<<r[k - 1], s[k]>>]
  BY DEF Runs
<1>2. q \in [0 .. Len(s) -> V] /\ q[0] = H[b] /\ q[Len(s)] = H[r[Len(s)]]
  BY <1>1 DEF Commutes
<1>3. ASSUME NEW k \in 1 .. Len(s) PROVE q[k] = F[<<q[k - 1], s[k]>>]
  <2>1. k \in 0 .. Len(s) /\ k - 1 \in 0 .. Len(s) /\ s[k] \in C
    BY <1>1
  <2>2. r[k - 1] \in V /\ r[k] = F[<<r[k - 1], s[k]>>]
    BY <1>1, <2>1
  <2>3. F[<<H[r[k - 1]], s[k]>>] = H[r[k]]
    BY <2>1, <2>2 DEF Commutes
  <2> QED BY <2>1, <2>3
<1> HIDE DEF q
<1> QED BY <1>2, <1>3 DEF Runs

\* i agrees with a fold of F wherever the fold is in V.
FollowsFold(i, F, V, C, b, s) ==
  /\ i[{}] = b
  /\ \A S \in SUBSET (1 .. Len(s)) :
       S # {} /\ i[S \ {Max(S)}] \in V /\ s[Max(S)] \in C
         => i[S] = F[<<i[S \ {Max(S)}], s[Max(S)]>>]

\* The value such a function has for all positions is the last state of a run.
LEMMA FoldIsRun ==
  ASSUME NEW V, NEW C, NEW F, IsStep(F, V, C), NEW b \in V, NEW s \in Seq(C),
         NEW i, FollowsFold(i, F, V, C, b, s)
  PROVE  \E r \in Runs(F, V, b, s) : i[1 .. Len(s)] = r[Len(s)]
<1> DEFINE r == [k \in 0 .. Len(s) |-> i[1 .. k]]
<1>1. Len(s) \in Nat
  OBVIOUS
<1>2. r[0] = b
  <2>1. 1 .. 0 = {}
    BY SMT
  <2> QED BY <2>1, <1>1 DEF FollowsFold
<1>3. ASSUME NEW k \in 1 .. Len(s), r[k - 1] \in V
      PROVE  r[k] = F[<<r[k - 1], s[k]>>]
  <2>1. k \in Nat /\ k >= 1 /\ k <= Len(s) /\ s[k] \in C
    BY <1>1
  <2>2. 1 .. k \in SUBSET (1 .. Len(s)) /\ k \in 1 .. k /\ 1 .. k # {}
    <3>1. \A x \in 1 .. k : x \in 1 .. Len(s)
      BY <1>1, <2>1
    <3>2. k \in 1 .. k
      BY <2>1
    <3> QED BY <3>1, <3>2
  <2>3. Max(1 .. k) = k
    BY <2>1, <2>2, MaxIsLast
  <2>4. (1 .. k) \ {k} = 1 .. (k - 1)
    <3>1. \A x : x \in (1 .. k) \ {k} <=> x \in 1 .. (k - 1)
      BY <2>1
    <3> QED BY <3>1
  <2>5. k \in 0 .. Len(s) /\ k - 1 \in 0 .. Len(s)
    BY <1>1
  <2>6. i[1 .. (k - 1)] \in V
    BY <1>3, <2>5
  <2>7. i[1 .. k] = F[<<i[1 .. (k - 1)], s[k]>>]
    BY <2>1, <2>2, <2>3, <2>4, <2>6 DEF FollowsFold
  <2> QED BY <2>5, <2>7
<1>4. r = [k \in 0 .. Len(s) |-> r[k]]
  OBVIOUS
<1>5. r[Len(s)] = i[1 .. Len(s)]
  BY <1>1
<1> HIDE DEF r
<1>6. r \in Runs(F, V, b, s)
  BY <1>2, <1>3, <1>4, RunStaysIn
<1> QED BY <1>5, <1>6

-----------------------------------------------------------------------------
(* The three steps that are folded: DecodeByte, StripChar, AppendChar.     *)

DecodeStep(V, C) == [p \in V \X C |-> DecodeByte(p[1], p[2])]
StripStep(V, C) == [p \in V \X C |-> StripChar(p[1], p[2])]
AppendStep(V, C) == [p \in V \X C |-> AppendChar(p[1], p[2])]

DecodeAll(b, s) == FoldLeft(DecodeByte, b, s)
StripAll(b, s) == FoldLeft(StripChar, b, s)
AppendAll(b, s) == FoldLeft(AppendChar, b, s)

\* The fold of DecodeByte is the last state of a run of it.
LEMMA DecodeRun ==
  ASSUME NEW V, NEW C, \A v \in V, c \in C : DecodeByte(v, c) \in V,
         NEW b \in V, NEW s \in Seq(C)
  PROVE  \E r \in Runs(DecodeStep(V, C), V, b, s) : DecodeAll(b, s) = r[Len(s)]
<1> DEFINE F == DecodeStep(V, C)
           D == SUBSET (1 .. Len(s))
           P(i) == i = [S \in D |-> IF S = {} THEN b
                                    ELSE DecodeByte(i[S \ {Max(S)}], s[Max(S)])]
           i == CHOOSE x : P(x)
<1>1. IsStep(F, V, C) /\ \A v \in V, c \in C : F[<<v, c>>] = DecodeByte(v, c)
  BY DEF DecodeStep, IsStep
<1> HIDE DEF F
<1>2. \E x : P(x)
  <2> HIDE DEF P
  <2>1. PICK x : FoldsOver(x, Len(s), F, V, b, s)
    BY <1>1, FoldIsDefined
  <2>2. x[{}] = b /\ x = [S \in D |-> x[S]]
    BY <2>1 DEF FoldsOver, D
  <2>3. ASSUME NEW S \in D, S # {}
        PROVE  x[S] = DecodeByte(x[S \ {Max(S)}], s[Max(S)])
    <3>1. /\ Max(S) \in 1 .. Len(s)
          /\ S \ {Max(S)} \in D
          /\ x[S] = F[<<x[S \ {Max(S)}], s[Max(S)]>>]
      BY <2>1, <2>3 DEF FoldsOver, D
    <3>2. x[S \ {Max(S)}] \in V /\ s[Max(S)] \in C
      BY <2>1, <3>1 DEF FoldsOver, D
    <3> QED BY <3>1, <3>2, <1>1
  <2> HIDE DEF D
  <2>4. P(x)
    BY <2>2, <2>3 DEF P
  <2> QED BY <2>4
<1>3. P(i)
  BY <1>2
<1>4. DecodeAll(b, s) = i[1 .. Len(s)]
  <2>1. DOMAIN s = 1 .. Len(s)
    OBVIOUS
  <2> QED BY <2>1 DEF DecodeAll, FoldLeft, MapThenFoldSet
<1> HIDE DEF i
<1>5. i[{}] = b
  <2>1. {} \in D
    OBVIOUS
  <2> HIDE DEF D
  <2> QED BY <1>3, <2>1
<1>6. ASSUME NEW S \in D, S # {}, i[S \ {Max(S)}] \in V, s[Max(S)] \in C
      PROVE  i[S] = F[<<i[S \ {Max(S)}], s[Max(S)]>>]
  <2> HIDE DEF D
  <2>1. i[S] = DecodeByte(i[S \ {Max(S)}], s[Max(S)])
    BY <1>3, <1>6
  <2> QED BY <2>1, <1>1, <1>6
<1>7. \E r \in Runs(F, V, b, s) : i[1 .. Len(s)] = r[Len(s)]
  <2> HIDE DEF P
  <2>1. FollowsFold(i, F, V, C, b, s)
    BY <1>5, <1>6 DEF FollowsFold
  <2> HIDE DEF D
  <2> QED BY <1>1, <2>1, FoldIsRun
<1> QED BY <1>4, <1>7 DEF F

\* So the fold is in V, every run of the step ends in it, and a fold over
\* s \o t goes on over t from where it was after s.
LEMMA DecodeFold ==
  ASSUME NEW V, NEW C, \A v \in V, c \in C : DecodeByte(v, c) \in V,
         NEW b \in V, NEW s \in Seq(C)
  PROVE  /\ DecodeAll(b, s) \in V
         /\ \A q \in Runs(DecodeStep(V, C), V, b, s) : q[Len(s)] = DecodeAll(b, s)
<1>1. IsStep(DecodeStep(V, C), V, C)
  BY DEF DecodeStep, IsStep
<1>2. PICK r \in Runs(DecodeStep(V, C), V, b, s) : DecodeAll(b, s) = r[Len(s)]
  BY DecodeRun
<1>3. r[Len(s)] \in V
  BY DEF Runs
<1>4. ASSUME NEW q \in Runs(DecodeStep(V, C), V, b, s) PROVE q[Len(s)] = r[Len(s)]
  BY <1>1, <1>2, RunsAgree
<1> QED BY <1>2, <1>3, <1>4

\* Decoding a text and then another is decoding both at once.
LEMMA DecodeJoins ==
  ASSUME NEW V, NEW C, \A v \in V, c \in C : DecodeByte(v, c) \in V,
         NEW b \in V, NEW s \in Seq(C), NEW t \in Seq(C)
  PROVE  DecodeAll(b, s \o t) = DecodeAll(DecodeAll(b, s), t)
<1>1. IsStep(DecodeStep(V, C), V, C) /\ s \o t \in Seq(C)
  BY DEF DecodeStep, IsStep
<1>2. PICK r \in Runs(DecodeStep(V, C), V, b, s \o t) : DecodeAll(b, s \o t) = r[Len(s \o t)]
  BY <1>1, DecodeRun
<1>3. /\ r[Len(s)] \in V
      /\ \E q \in Runs(DecodeStep(V, C), V, b, s) : q[Len(s)] = r[Len(s)]
      /\ \E w \in Runs(DecodeStep(V, C), V, r[Len(s)], t) : w[Len(t)] = r[Len(s \o t)]
  BY <1>1, <1>2, RunsJoin
<1>4. DecodeAll(b, s) = r[Len(s)]
  BY <1>3, DecodeFold
<1>5. DecodeAll(r[Len(s)], t) = r[Len(s \o t)]
  BY <1>3, DecodeFold
<1> QED BY <1>2, <1>4, <1>5

\* Decoding nothing changes nothing.
LEMMA DecodeNothing ==
  ASSUME NEW V, NEW C, \A v \in V, c \in C : DecodeByte(v, c) \in V, NEW b \in V,
         NEW s \in Seq(C), Len(s) = 0
  PROVE  DecodeAll(b, s) = b
<1>1. PICK r \in Runs(DecodeStep(V, C), V, b, s) : DecodeAll(b, s) = r[Len(s)]
  BY DecodeRun
<1> QED BY <1>1 DEF Runs

\* A map that commutes with the step commutes with decoding.
LEMMA DecodeMaps ==
  ASSUME NEW V, NEW C, \A v \in V, c \in C : DecodeByte(v, c) \in V,
         NEW b \in V, NEW s \in Seq(C), NEW H, Commutes(H, DecodeStep(V, C), V, C)
  PROVE  DecodeAll(H[b], s) = H[DecodeAll(b, s)]
<1>1. IsStep(DecodeStep(V, C), V, C)
  BY DEF DecodeStep, IsStep
<1>2. PICK r \in Runs(DecodeStep(V, C), V, b, s) : DecodeAll(b, s) = r[Len(s)]
  BY DecodeRun
<1>3. PICK q \in Runs(DecodeStep(V, C), V, H[b], s) : q[Len(s)] = H[r[Len(s)]]
  BY <1>1, <1>2, RunsMap
<1>4. H[b] \in V
  BY DEF Commutes
<1>5. DecodeAll(H[b], s) = q[Len(s)]
  BY <1>3, <1>4, DecodeFold
<1> QED BY <1>2, <1>3, <1>5

\* The fold of StripChar is the last state of a run of it.
LEMMA StripRun ==
  ASSUME NEW V, NEW C, \A v \in V, c \in C : StripChar(v, c) \in V,
         NEW b \in V, NEW s \in Seq(C)
  PROVE  \E r \in Runs(StripStep(V, C), V, b, s) : StripAll(b, s) = r[Len(s)]
<1> DEFINE F == StripStep(V, C)
           D == SUBSET (1 .. Len(s))
           P(i) == i = [S \in D |-> IF S = {} THEN b
                                    ELSE StripChar(i[S \ {Max(S)}], s[Max(S)])]
           i == CHOOSE x : P(x)
<1>1. IsStep(F, V, C) /\ \A v \in V, c \in C : F[<<v, c>>] = StripChar(v, c)
  BY DEF StripStep, IsStep
<1> HIDE DEF F
<1>2. \E x : P(x)
  <2> HIDE DEF P
  <2>1. PICK x : FoldsOver(x, Len(s), F, V, b, s)
    BY <1>1, FoldIsDefined
  <2>2. x[{}] = b /\ x = [S \in D |-> x[S]]
    BY <2>1 DEF FoldsOver, D
  <2>3. ASSUME NEW S \in D, S # {}
        PROVE  x[S] = StripChar(x[S \ {Max(S)}], s[Max(S)])
    <3>1. /\ Max(S) \in 1 .. Len(s)
          /\ S \ {Max(S)} \in D
          /\ x[S] = F[<<x[S \ {Max(S)}], s[Max(S)]>>]
      BY <2>1, <2>3 DEF FoldsOver, D
    <3>2. x[S \ {Max(S)}] \in V /\ s[Max(S)] \in C
      BY <2>1, <3>1 DEF FoldsOver, D
    <3> QED BY <3>1, <3>2, <1>1
  <2> HIDE DEF D
  <2>4. P(x)
    BY <2>2, <2>3 DEF P
  <2> QED BY <2>4
<1>3. P(i)
  BY <1>2
<1>4. StripAll(b, s) = i[1 .. Len(s)]
  <2>1. DOMAIN s = 1 .. Len(s)
    OBVIOUS
  <2> QED BY <2>1 DEF StripAll, FoldLeft, MapThenFoldSet
<1> HIDE DEF i
<1>5. i[{}] = b
  <2>1. {} \in D
    OBVIOUS
  <2> HIDE DEF D
  <2> QED BY <1>3, <2>1
<1>6. ASSUME NEW S \in D, S # {}, i[S \ {Max(S)}] \in V, s[Max(S)] \in C
      PROVE  i[S] = F[<<i[S \ {Max(S)}], s[Max(S)]>>]
  <2> HIDE DEF D
  <2>1. i[S] = StripChar(i[S \ {Max(S)}], s[Max(S)])
    BY <1>3, <1>6
  <2> QED BY <2>1, <1>1, <1>6
<1>7. \E r \in Runs(F, V, b, s) : i[1 .. Len(s)] = r[Len(s)]
  <2> HIDE DEF P
  <2>1. FollowsFold(i, F, V, C, b, s)
    BY <1>5, <1>6 DEF FollowsFold
  <2> HIDE DEF D
  <2> QED BY <1>1, <2>1, FoldIsRun
<1> QED BY <1>4, <1>7 DEF F

\* So the fold is in V, every run of the step ends in it, and a fold over
\* s \o t goes on over t from where it was after s.
LEMMA StripFold ==
  ASSUME NEW V, NEW C, \A v \in V, c \in C : StripChar(v, c) \in V,
         NEW b \in V, NEW s \in Seq(C)
  PROVE  /\ StripAll(b, s) \in V
         /\ \A q \in Runs(StripStep(V, C), V, b, s) : q[Len(s)] = StripAll(b, s)
<1>1. IsStep(StripStep(V, C), V, C)
  BY DEF StripStep, IsStep
<1>2. PICK r \in Runs(StripStep(V, C), V, b, s) : StripAll(b, s) = r[Len(s)]
  BY StripRun
<1>3. r[Len(s)] \in V
  BY DEF Runs
<1>4. ASSUME NEW q \in Runs(StripStep(V, C), V, b, s) PROVE q[Len(s)] = r[Len(s)]
  BY <1>1, <1>2, RunsAgree
<1> QED BY <1>2, <1>3, <1>4

\* The same of the escape filter.
LEMMA StripJoins ==
  ASSUME NEW V, NEW C, \A v \in V, c \in C : StripChar(v, c) \in V,
         NEW b \in V, NEW s \in Seq(C), NEW t \in Seq(C)
  PROVE  StripAll(b, s \o t) = StripAll(StripAll(b, s), t)
<1>1. IsStep(StripStep(V, C), V, C) /\ s \o t \in Seq(C)
  BY DEF StripStep, IsStep
<1>2. PICK r \in Runs(StripStep(V, C), V, b, s \o t) : StripAll(b, s \o t) = r[Len(s \o t)]
  BY <1>1, StripRun
<1>3. /\ r[Len(s)] \in V
      /\ \E q \in Runs(StripStep(V, C), V, b, s) : q[Len(s)] = r[Len(s)]
      /\ \E w \in Runs(StripStep(V, C), V, r[Len(s)], t) : w[Len(t)] = r[Len(s \o t)]
  BY <1>1, <1>2, RunsJoin
<1>4. StripAll(b, s) = r[Len(s)]
  BY <1>3, StripFold
<1>5. StripAll(r[Len(s)], t) = r[Len(s \o t)]
  BY <1>3, StripFold
<1> QED BY <1>2, <1>4, <1>5

\* Nor does filtering or appending nothing.
LEMMA StripNothing ==
  ASSUME NEW V, NEW C, \A v \in V, c \in C : StripChar(v, c) \in V, NEW b \in V,
         NEW s \in Seq(C), Len(s) = 0
  PROVE  StripAll(b, s) = b
<1>1. PICK r \in Runs(StripStep(V, C), V, b, s) : StripAll(b, s) = r[Len(s)]
  BY StripRun
<1> QED BY <1>1 DEF Runs

\* The same of the escape filter.
LEMMA StripMaps ==
  ASSUME NEW V, NEW C, \A v \in V, c \in C : StripChar(v, c) \in V,
         NEW b \in V, NEW s \in Seq(C), NEW H, Commutes(H, StripStep(V, C), V, C)
  PROVE  StripAll(H[b], s) = H[StripAll(b, s)]
<1>1. IsStep(StripStep(V, C), V, C)
  BY DEF StripStep, IsStep
<1>2. PICK r \in Runs(StripStep(V, C), V, b, s) : StripAll(b, s) = r[Len(s)]
  BY StripRun
<1>3. PICK q \in Runs(StripStep(V, C), V, H[b], s) : q[Len(s)] = H[r[Len(s)]]
  BY <1>1, <1>2, RunsMap
<1>4. H[b] \in V
  BY DEF Commutes
<1>5. StripAll(H[b], s) = q[Len(s)]
  BY <1>3, <1>4, StripFold
<1> QED BY <1>2, <1>3, <1>5

\* The fold of AppendChar is the last state of a run of it.
LEMMA AppendRun ==
  ASSUME NEW V, NEW C, \A v \in V, c \in C : AppendChar(v, c) \in V,
         NEW b \in V, NEW s \in Seq(C)
  PROVE  \E r \in Runs(AppendStep(V, C), V, b, s) : AppendAll(b, s) = r[Len(s)]
<1> DEFINE F == AppendStep(V, C)
           D == SUBSET (1 .. Len(s))
           P(i) == i = [S \in D |-> IF S = {} THEN b
                                    ELSE AppendChar(i[S \ {Max(S)}], s[Max(S)])]
           i == CHOOSE x : P(x)
<1>1. IsStep(F, V, C) /\ \A v \in V, c \in C : F[<<v, c>>] = AppendChar(v, c)
  BY DEF AppendStep, IsStep
<1> HIDE DEF F
<1>2. \E x : P(x)
  <2> HIDE DEF P
  <2>1. PICK x : FoldsOver(x, Len(s), F, V, b, s)
    BY <1>1, FoldIsDefined
  <2>2. x[{}] = b /\ x = [S \in D |-> x[S]]
    BY <2>1 DEF FoldsOver, D
  <2>3. ASSUME NEW S \in D, S # {}
        PROVE  x[S] = AppendChar(x[S \ {Max(S)}], s[Max(S)])
    <3>1. /\ Max(S) \in 1 .. Len(s)
          /\ S \ {Max(S)} \in D
          /\ x[S] = F[<<x[S \ {Max(S)}], s[Max(S)]>>]
      BY <2>1, <2>3 DEF FoldsOver, D
    <3>2. x[S \ {Max(S)}] \in V /\ s[Max(S)] \in C
      BY <2>1, <3>1 DEF FoldsOver, D
    <3> QED BY <3>1, <3>2, <1>1
  <2> HIDE DEF D
  <2>4. P(x)
    BY <2>2, <2>3 DEF P
  <2> QED BY <2>4
<1>3. P(i)
  BY <1>2
<1>4. AppendAll(b, s) = i[1 .. Len(s)]
  <2>1. DOMAIN s = 1 .. Len(s)
    OBVIOUS
  <2> QED BY <2>1 DEF AppendAll, FoldLeft, MapThenFoldSet
<1> HIDE DEF i
<1>5. i[{}] = b
  <2>1. {} \in D
    OBVIOUS
  <2> HIDE DEF D
  <2> QED BY <1>3, <2>1
<1>6. ASSUME NEW S \in D, S # {}, i[S \ {Max(S)}] \in V, s[Max(S)] \in C
      PROVE  i[S] = F[<<i[S \ {Max(S)}], s[Max(S)]>>]
  <2> HIDE DEF D
  <2>1. i[S] = AppendChar(i[S \ {Max(S)}], s[Max(S)])
    BY <1>3, <1>6
  <2> QED BY <2>1, <1>1, <1>6
<1>7. \E r \in Runs(F, V, b, s) : i[1 .. Len(s)] = r[Len(s)]
  <2> HIDE DEF P
  <2>1. FollowsFold(i, F, V, C, b, s)
    BY <1>5, <1>6 DEF FollowsFold
  <2> HIDE DEF D
  <2> QED BY <1>1, <2>1, FoldIsRun
<1> QED BY <1>4, <1>7 DEF F

\* So the fold is in V, every run of the step ends in it, and a fold over
\* s \o t goes on over t from where it was after s.
LEMMA AppendFold ==
  ASSUME NEW V, NEW C, \A v \in V, c \in C : AppendChar(v, c) \in V,
         NEW b \in V, NEW s \in Seq(C)
  PROVE  /\ AppendAll(b, s) \in V
         /\ \A q \in Runs(AppendStep(V, C), V, b, s) : q[Len(s)] = AppendAll(b, s)
<1>1. IsStep(AppendStep(V, C), V, C)
  BY DEF AppendStep, IsStep
<1>2. PICK r \in Runs(AppendStep(V, C), V, b, s) : AppendAll(b, s) = r[Len(s)]
  BY AppendRun
<1>3. r[Len(s)] \in V
  BY DEF Runs
<1>4. ASSUME NEW q \in Runs(AppendStep(V, C), V, b, s) PROVE q[Len(s)] = r[Len(s)]
  BY <1>1, <1>2, RunsAgree
<1> QED BY <1>2, <1>3, <1>4

\* The same of the accumulator's characters.
LEMMA AppendJoins ==
  ASSUME NEW V, NEW C, \A v \in V, c \in C : AppendChar(v, c) \in V,
         NEW b \in V, NEW s \in Seq(C), NEW t \in Seq(C)
  PROVE  AppendAll(b, s \o t) = AppendAll(AppendAll(b, s), t)
<1>1. IsStep(AppendStep(V, C), V, C) /\ s \o t \in Seq(C)
  BY DEF AppendStep, IsStep
<1>2. PICK r \in Runs(AppendStep(V, C), V, b, s \o t) : AppendAll(b, s \o t) = r[Len(s \o t)]
  BY <1>1, AppendRun
<1>3. /\ r[Len(s)] \in V
      /\ \E q \in Runs(AppendStep(V, C), V, b, s) : q[Len(s)] = r[Len(s)]
      /\ \E w \in Runs(AppendStep(V, C), V, r[Len(s)], t) : w[Len(t)] = r[Len(s \o t)]
  BY <1>1, <1>2, RunsJoin
<1>4. AppendAll(b, s) = r[Len(s)]
  BY <1>3, AppendFold
<1>5. AppendAll(r[Len(s)], t) = r[Len(s \o t)]
  BY <1>3, AppendFold
<1> QED BY <1>2, <1>4, <1>5

\* Nor does filtering or appending nothing.
LEMMA AppendNothing ==
  ASSUME NEW V, NEW C, \A v \in V, c \in C : AppendChar(v, c) \in V, NEW b \in V,
         NEW s \in Seq(C), Len(s) = 0
  PROVE  AppendAll(b, s) = b
<1>1. PICK r \in Runs(AppendStep(V, C), V, b, s) : AppendAll(b, s) = r[Len(s)]
  BY AppendRun
<1> QED BY <1>1 DEF Runs

\* The same of the accumulator's characters.
LEMMA AppendMaps ==
  ASSUME NEW V, NEW C, \A v \in V, c \in C : AppendChar(v, c) \in V,
         NEW b \in V, NEW s \in Seq(C), NEW H, Commutes(H, AppendStep(V, C), V, C)
  PROVE  AppendAll(H[b], s) = H[AppendAll(b, s)]
<1>1. IsStep(AppendStep(V, C), V, C)
  BY DEF AppendStep, IsStep
<1>2. PICK r \in Runs(AppendStep(V, C), V, b, s) : AppendAll(b, s) = r[Len(s)]
  BY AppendRun
<1>3. PICK q \in Runs(AppendStep(V, C), V, H[b], s) : q[Len(s)] = H[r[Len(s)]]
  BY <1>1, <1>2, RunsMap
<1>4. H[b] \in V
  BY DEF Commutes
<1>5. AppendAll(H[b], s) = q[Len(s)]
  BY <1>3, <1>4, AppendFold
<1> QED BY <1>2, <1>3, <1>5

-----------------------------------------------------------------------------
(* What they fold over.                                                    *)

\* The escape filter's states, the characters a decoder yields, and those that
\* the filter lets through.
AnsiStates == {"text", "esc", "csi", "osc", "osc-esc", "esc-int"}
Chars == Kinds \cup {"more", "bad", "wide"}
Plain == Chars \ {"ESC"}

\* Each CR is followed by something, which is not an LF.
Tidy(text) == \A i \in DOMAIN text : text[i] = "CR" => i < Len(text) /\ text[i + 1] # "LF"

\* The states of the decoder, of the filter and of the accumulator.
Decodings == [partial : BOOLEAN, text : Seq(Chars)]
Strippings == [ansi : AnsiStates, out : Seq(Plain)]
Accumulators ==
  [parts : {p \in Seq(Plain) : Tidy(p)}, line : Seq(Plain), col : Nat, crs : Nat,
   partial : BOOLEAN, ansi : AnsiStates]

\* A byte decoded leaves a decoding.
LEMMA DecodeCloses ==
  \A v \in Decodings, c \in Chars : DecodeByte(v, c) \in Decodings
<1> SUFFICES ASSUME NEW v \in Decodings, NEW c \in Chars PROVE DecodeByte(v, c) \in Decodings
  OBVIOUS
<1>1. v.text \in Seq(Chars) /\ v.partial \in BOOLEAN
  BY DEF Decodings
<1> DEFINE broken == IF v.partial THEN <<"bad">> ELSE <<>>
<1>2. broken \in Seq(Chars) /\ <<c>> \in Seq(Chars)
  <2>1. "bad" \in Chars
    BY DEF Chars
  <2> QED BY <2>1
<1> HIDE DEF broken
<1>3. v.text \o broken \in Seq(Chars)
  BY <1>1, <1>2
<1>4. (v.text \o broken) \o <<c>> \in Seq(Chars)
  BY <1>2, <1>3
<1>5. Append(v.text, IF v.partial THEN "wide" ELSE "bad") \in Seq(Chars)
  <2>1. (IF v.partial THEN "wide" ELSE "bad") \in Chars
    BY DEF Chars
  <2> QED BY <1>1, <2>1
<1> QED BY <1>1, <1>3, <1>4, <1>5 DEF DecodeByte, Decodings, broken

\* A character filtered leaves a filtering: no escape is let through.
LEMMA StripCloses ==
  \A v \in Strippings, c \in Chars : StripChar(v, c) \in Strippings
<1> SUFFICES ASSUME NEW v \in Strippings, NEW c \in Chars PROVE StripChar(v, c) \in Strippings
  OBVIOUS
<1>1. v = [ansi |-> v.ansi, out |-> v.out] /\ v.ansi \in AnsiStates /\ v.out \in Seq(Plain)
  BY DEF Strippings
<1>2. \A x \in AnsiStates : [v EXCEPT !.ansi = x] \in Strippings
  BY <1>1 DEF Strippings
<1>3. AsText(v, c) \in Strippings
  <2>1. CASE c = "ESC"
    BY <2>1, <1>2 DEF AsText, AnsiStates
  <2>2. CASE c # "ESC"
    <3>1. Append(v.out, c) \in Seq(Plain)
      BY <2>2, <1>1 DEF Plain
    <3> QED BY <2>2, <3>1 DEF AsText, AnsiStates, Strippings
  <2> QED BY <2>1, <2>2
<1>4. CASE v.ansi = "text"
  BY <1>3, <1>4 DEF StripChar
<1>5. CASE v.ansi = "esc"
  BY <1>2, <1>3, <1>5 DEF StripChar, AnsiStates
<1>6. CASE v.ansi = "esc-int"
  BY <1>2, <1>3, <1>6 DEF StripChar, AnsiStates
<1>7. CASE v.ansi = "csi"
  BY <1>2, <1>7 DEF StripChar, AnsiStates
<1>8. CASE v.ansi = "osc"
  BY <1>2, <1>8 DEF StripChar, AnsiStates
<1>9. CASE v.ansi = "osc-esc"
  BY <1>2, <1>9 DEF StripChar, AnsiStates
<1> QED BY <1>1, <1>4, <1>5, <1>6, <1>7, <1>8, <1>9 DEF AnsiStates

\* The carriage returns that are put back are as many as were held.
LEMMA RepeatIs ==
  ASSUME NEW n \in Nat
  PROVE  /\ Repeat("CR", n) \in Seq(Plain)
         /\ Len(Repeat("CR", n)) = n
         /\ \A i \in 1 .. n : Repeat("CR", n)[i] = "CR"
<1> DEFINE r == [i \in 1 .. n |-> "CR"]
<1>1. "CR" \in Plain
  BY DEF Plain, Chars, Kinds
<1>2. r \in [1 .. n -> Plain]
  BY <1>1
<1>3. r \in Seq(Plain)
  BY <1>2
<1>4. Len(r) = n
  BY <1>2, <1>3, LenProperties
<1>5. \A i \in 1 .. n : r[i] = "CR"
  OBVIOUS
<1> HIDE DEF r
<1>6. r = Repeat("CR", n)
  BY DEF r, Repeat
<1> QED BY <1>3, <1>4, <1>5, <1>6

\* What is put after CRs.
LEMMA TidyAppend ==
  ASSUME NEW p \in Seq(Plain), Tidy(p), NEW n \in Nat, NEW c \in Plain, c # "CR",
         n = 0 \/ c # "LF"
  PROVE  LET q == Append(p \o Repeat("CR", n), c) IN q \in Seq(Plain) /\ Tidy(q)
<1> DEFINE rep == Repeat("CR", n)
           pr == p \o rep
           q == Append(pr, c)
<1>1. rep \in Seq(Plain) /\ Len(rep) = n /\ \A i \in 1 .. n : rep[i] = "CR"
  BY RepeatIs
<1> HIDE DEF rep
<1>2. /\ pr \in Seq(Plain) /\ Len(pr) = Len(p) + n
      /\ \A i \in 1 .. Len(p) : pr[i] = p[i]
      /\ \A i \in 1 .. Len(p) + n : i > Len(p) => pr[i] = "CR"
  BY <1>1
<1> HIDE DEF pr
<1>3. /\ q \in Seq(Plain) /\ Len(q) = Len(p) + n + 1 /\ q[Len(p) + n + 1] = c
      /\ \A i \in 1 .. Len(p) + n : q[i] = pr[i]
  BY <1>2
<1> HIDE DEF q
<1>4. ASSUME NEW i \in DOMAIN q, q[i] = "CR" PROVE i < Len(q) /\ q[i + 1] # "LF"
  <2>1. i \in Nat /\ 1 <= i /\ i <= Len(p) + n + 1 /\ Len(p) \in Nat
    BY <1>3
  <2>2. i # Len(p) + n + 1
    BY <1>3, <1>4
  <2>3. CASE i < Len(p)
    <3>1. i \in 1 .. Len(p) /\ i + 1 \in 1 .. Len(p) /\ i \in 1 .. Len(p) + n /\ i + 1 \in 1 .. Len(p) + n
      BY <2>1, <2>3
    <3>2. p[i] = "CR" /\ q[i + 1] = p[i + 1]
      BY <1>2, <1>3, <1>4, <3>1
    <3> QED BY <3>1, <3>2, <1>3, <2>1, <2>3 DEF Tidy
  <2>4. i # Len(p)
    <3> SUFFICES ASSUME i = Len(p) PROVE FALSE
      OBVIOUS
    <3>1. p[i] = "CR" /\ i \in DOMAIN p
      BY <1>2, <1>3, <1>4, <2>1
    <3> QED BY <3>1 DEF Tidy
  <2>5. CASE Len(p) < i /\ i < Len(p) + n
    BY <1>2, <1>3, <2>1, <2>5
  <2>6. CASE i = Len(p) + n
    BY <1>3, <2>1, <2>4, <2>6
  <2> QED BY <2>1, <2>2, <2>3, <2>4, <2>5, <2>6
<1> QED BY <1>3, <1>4 DEF Tidy, q, pr, rep

\* With none held, none is put back.
LEMMA NoCrs ==
  ASSUME NEW p \in Seq(Plain)
  PROVE  p \o Repeat("CR", 0) = p
<1>1. Repeat("CR", 0) \in Seq(Plain) /\ Len(Repeat("CR", 0)) = 0
  BY RepeatIs
<1>2. Repeat("CR", 0) = <<>>
  BY <1>1
<1> QED BY <1>2

\* A character written on the display leaves a line of plain characters.
LEMMA WriteDisplayCloses ==
  ASSUME NEW l \in Seq(Plain), NEW k \in Nat, NEW c \in Plain
  PROVE  /\ WriteDisplay([line |-> l, col |-> k], c).line \in Seq(Plain)
         /\ WriteDisplay([line |-> l, col |-> k], c).col = k + 1
<1>1. CASE k < Len(l)
  <2>1. k + 1 \in 1 .. Len(l)
    BY <1>1
  <2>2. [l EXCEPT ![k + 1] = c] \in Seq(Plain)
    BY <2>1, ExceptSeq
  <2> QED BY <1>1, <2>2 DEF WriteDisplay
<1>2. CASE ~(k < Len(l))
  <2>1. Append(l, c) \in Seq(Plain)
    OBVIOUS
  <2> QED BY <1>2, <2>1 DEF WriteDisplay
<1> QED BY <1>1, <1>2

\* w is v with c appended, field by field.
Appends(v, c, w) ==
  LET k == IF v.crs = 0 THEN v.col ELSE 0
      d == WriteDisplay([line |-> v.line, col |-> k], c)
  IN /\ w.partial = v.partial /\ w.ansi = v.ansi
     /\ w = [parts |-> w.parts, line |-> w.line, col |-> w.col, crs |-> w.crs,
             partial |-> w.partial, ansi |-> w.ansi]
     /\ c = "CR" => /\ w.parts = v.parts /\ w.line = v.line /\ w.col = v.col
                    /\ w.crs = v.crs + 1
     /\ c = "LF" => /\ w.parts = Append(v.parts, "LF") /\ w.line = <<>> /\ w.col = 0
                    /\ w.crs = 0
     /\ c \notin LineEnds =>
          /\ w.parts = Append(v.parts \o Repeat("CR", v.crs), c)
          /\ w.line = d.line /\ w.col = d.col /\ w.crs = 0

\* appendChar() does what Appends says, case by case.
LEMMA AppendCharIs ==
  ASSUME NEW v \in Accumulators, NEW c \in Plain
  PROVE  Appends(v, c, AppendChar(v, c))
<1> USE DEF Appends
<1>1. /\ v = [parts |-> v.parts, line |-> v.line, col |-> v.col, crs |-> v.crs,
              partial |-> v.partial, ansi |-> v.ansi]
      /\ v.parts \in Seq(Plain) /\ v.crs \in Nat
  BY DEF Accumulators
<1>2. CASE c = "CR"
  BY <1>1, <1>2 DEF AppendChar, LineEnds
<1>3. CASE c = "LF"
  BY <1>1, <1>3 DEF AppendChar, NewLine, LineEnds
<1>4. CASE c \notin LineEnds
  <2>1. c # "CR" /\ c # "LF"
    BY <1>4 DEF LineEnds
  <2> DEFINE at == PendingCrs(v)
             d  == WriteDisplay([line |-> at.line, col |-> at.col], c)
  <2>2. /\ at = [parts |-> at.parts, line |-> at.line, col |-> at.col, crs |-> at.crs,
                 partial |-> at.partial, ansi |-> at.ansi]
        /\ at.parts = v.parts \o Repeat("CR", v.crs)
        /\ at.line = v.line /\ at.col = (IF v.crs = 0 THEN v.col ELSE 0) /\ at.crs = 0
        /\ at.partial = v.partial /\ at.ansi = v.ansi
    <3>1. CASE v.crs = 0
      BY <1>1, <3>1, NoCrs DEF PendingCrs
    <3>2. CASE v.crs # 0
      BY <1>1, <3>2 DEF PendingCrs
    <3> QED BY <3>1, <3>2
  <2>3. AppendChar(v, c) = [at EXCEPT !.parts = Append(at.parts, c), !.line = d.line, !.col = d.col]
    BY <2>1 DEF AppendChar
  <2> HIDE DEF at
  <2> QED BY ZenonT(40), <1>4, <2>1, <2>2, <2>3
<1> QED BY <1>2, <1>3, <1>4 DEF LineEnds

\* A plain character appended leaves an accumulator with a tidy text.
LEMMA AppendCloses ==
  \A v \in Accumulators, c \in Plain : AppendChar(v, c) \in Accumulators
<1> SUFFICES ASSUME NEW v \in Accumulators, NEW c \in Plain
             PROVE  AppendChar(v, c) \in Accumulators
  OBVIOUS
<1>1. /\ v.parts \in Seq(Plain) /\ Tidy(v.parts) /\ v.line \in Seq(Plain)
      /\ v.col \in Nat /\ v.crs \in Nat /\ v.partial \in BOOLEAN /\ v.ansi \in AnsiStates
  BY DEF Accumulators
<1> DEFINE w == AppendChar(v, c)
           k == IF v.crs = 0 THEN v.col ELSE 0
           d == WriteDisplay([line |-> v.line, col |-> k], c)
<1>2. /\ w.partial = v.partial /\ w.ansi = v.ansi
      /\ w = [parts |-> w.parts, line |-> w.line, col |-> w.col, crs |-> w.crs,
              partial |-> w.partial, ansi |-> w.ansi]
      /\ c = "CR" => /\ w.parts = v.parts /\ w.line = v.line /\ w.col = v.col
                     /\ w.crs = v.crs + 1
      /\ c = "LF" => /\ w.parts = Append(v.parts, "LF") /\ w.line = <<>> /\ w.col = 0
                     /\ w.crs = 0
      /\ c \notin LineEnds =>
           /\ w.parts = Append(v.parts \o Repeat("CR", v.crs), c)
           /\ w.line = d.line /\ w.col = d.col /\ w.crs = 0
  BY AppendCharIs DEF Appends
<1>3. k \in Nat
  BY <1>1
<1> HIDE DEF k
<1>4. d.line \in Seq(Plain) /\ d.col = k + 1
  BY <1>1, <1>3, WriteDisplayCloses
<1> HIDE DEF w, d
<1>5. /\ w.parts \in Seq(Plain) /\ Tidy(w.parts) /\ w.line \in Seq(Plain)
      /\ w.col \in Nat /\ w.crs \in Nat
  <2>1. CASE c = "CR"
    BY <1>1, <1>2, <2>1
  <2>2. CASE c = "LF"
    <3>1. w.parts = Append(v.parts \o Repeat("CR", 0), c)
      BY <1>1, <1>2, <2>2, NoCrs
    <3>2. w.parts \in Seq(Plain) /\ Tidy(w.parts)
      BY <1>1, <2>2, <3>1, TidyAppend
    <3>3. <<>> \in Seq(Plain) /\ c \notin {"CR"}
      BY <2>2
    <3>4. w.line = <<>> /\ w.col = 0 /\ w.crs = 0
      BY <1>2, <2>2
    <3> QED BY <3>2, <3>3, <3>4
  <2>3. CASE c \notin LineEnds
    <3>1. w.parts \in Seq(Plain) /\ Tidy(w.parts)
      BY <1>1, <1>2, <2>3, TidyAppend DEF LineEnds
    <3> QED BY <1>2, <1>3, <1>4, <2>3, <3>1
  <2> QED BY <2>1, <2>2, <2>3 DEF LineEnds
<1> QED BY <1>1, <1>2, <1>5 DEF Accumulators, w

-----------------------------------------------------------------------------
(* A text decoded before, a text stripped before, and the fields that      *)
(* AppendChar does not read only pass through.                             *)

Texts == Seq(Chars)
PlainTexts == Seq(Plain)

\* A character appended to a join is appended to its second part.
LEMMA AppendAssociates ==
  /\ \A x, t \in Texts, c \in Chars : Append(x \o t, c) = x \o Append(t, c)
  /\ \A x, t \in PlainTexts, c \in Plain : Append(x \o t, c) = x \o Append(t, c)
<1>1. ASSUME NEW x \in Seq(Chars), NEW t \in Seq(Chars), NEW c \in Chars
      PROVE  Append(x \o t, c) = x \o Append(t, c)
  <2> DEFINE l == Append(x \o t, c)
             r == x \o Append(t, c)
  <2>1. l \in Seq(Chars) /\ r \in Seq(Chars) /\ Len(l) = Len(r)
    OBVIOUS
  <2>2. \A i \in 1 .. Len(l) : l[i] = r[i]
    OBVIOUS
  <2> HIDE DEF l, r
  <2>3. l = r
    BY <2>1, <2>2, SeqEqual
  <2> QED BY <2>3 DEF l, r
<1>2. ASSUME NEW x \in Seq(Plain), NEW t \in Seq(Plain), NEW c \in Plain
      PROVE  Append(x \o t, c) = x \o Append(t, c)
  <2> DEFINE l == Append(x \o t, c)
             r == x \o Append(t, c)
  <2>1. l \in Seq(Plain) /\ r \in Seq(Plain) /\ Len(l) = Len(r)
    OBVIOUS
  <2>2. \A i \in 1 .. Len(l) : l[i] = r[i]
    OBVIOUS
  <2> HIDE DEF l, r
  <2>3. l = r
    BY <2>1, <2>2, SeqEqual
  <2> QED BY <2>3 DEF l, r
<1> QED BY <1>1, <1>2 DEF Texts, PlainTexts

\* Joins of texts are texts, and associate.
LEMMA JoinAssociates ==
  /\ \A s, t, u \in Texts : s \o t \in Texts /\ (s \o t) \o u = s \o (t \o u)
  /\ \A s, t, u \in PlainTexts : s \o t \in PlainTexts /\ (s \o t) \o u = s \o (t \o u)
<1>1. \A s, t, u \in Seq(Chars) : s \o t \in Seq(Chars) /\ (s \o t) \o u = s \o (t \o u)
  OBVIOUS
<1>2. \A s, t, u \in Seq(Plain) : s \o t \in Seq(Plain) /\ (s \o t) \o u = s \o (t \o u)
  OBVIOUS
<1> QED BY <1>1, <1>2 DEF Texts, PlainTexts

\* What was decoded before stays in front, and changes nothing after it.
LEMMA DecodeShift ==
  ASSUME NEW p \in BOOLEAN, NEW x \in Seq(Chars), NEW s \in Seq(Chars)
  PROVE  LET d == DecodeAll([partial |-> p, text |-> <<>>], s)
         IN /\ d \in Decodings
            /\ DecodeAll([partial |-> p, text |-> x], s)
                 = [partial |-> d.partial, text |-> x \o d.text]
<1> DEFINE H == [v \in Decodings |-> [partial |-> v.partial, text |-> x \o v.text]]
           b == [partial |-> p, text |-> <<>>]
<1>1. H \in [Decodings -> Decodings]
  BY DEF Decodings
<1>2. ASSUME NEW v \in Decodings, NEW c \in Chars
      PROVE  DecodeByte(H[v], c) = H[DecodeByte(v, c)]
  <2>1. v.text \in Seq(Chars) /\ v.partial \in BOOLEAN
    BY DEF Decodings
  <2>2. H[v] = [partial |-> v.partial, text |-> x \o v.text]
    OBVIOUS
  <2>3. DecodeByte(v, c) \in Decodings
    BY DecodeCloses
  <2>4. H[DecodeByte(v, c)] =
          [partial |-> DecodeByte(v, c).partial, text |-> x \o DecodeByte(v, c).text]
    BY <2>3
  <2> HIDE DEF H
  <2> DEFINE broken == IF v.partial THEN <<"bad">> ELSE <<>>
             wide == IF v.partial THEN "wide" ELSE "bad"
  <2>5. broken \in Seq(Chars) /\ <<c>> \in Seq(Chars) /\ wide \in Chars
    <3>1. "bad" \in Chars /\ "wide" \in Chars
      BY DEF Chars
    <3> QED BY <3>1
  <2> HIDE DEF broken, wide
  <2>6. /\ (x \o v.text) \o broken = x \o (v.text \o broken)
        /\ ((x \o v.text) \o broken) \o <<c>> = x \o ((v.text \o broken) \o <<c>>)
        /\ Append(x \o v.text, wide) = x \o Append(v.text, wide)
    <3> DEFINE t == v.text
    <3>1. x \in Texts /\ t \in Texts /\ broken \in Texts /\ <<c>> \in Texts
      BY <2>1, <2>5 DEF Texts
    <3> HIDE DEF t
    <3>2. (x \o t) \o broken = x \o (t \o broken) /\ t \o broken \in Texts
      BY <3>1, JoinAssociates
    <3>3. (x \o (t \o broken)) \o <<c>> = x \o ((t \o broken) \o <<c>>)
      BY ZenonT(40), <3>1, <3>2, JoinAssociates
    <3>4. Append(x \o t, wide) = x \o Append(t, wide)
      BY <2>5, <3>1, AppendAssociates
    <3> QED BY <3>2, <3>3, <3>4 DEF t
  <2>7. DecodeByte(v, c) =
          IF c = "lead" THEN [partial |-> TRUE, text |-> v.text \o broken]
          ELSE IF c = "cont" THEN [partial |-> FALSE, text |-> Append(v.text, wide)]
          ELSE [partial |-> FALSE, text |-> (v.text \o broken) \o <<c>>]
    BY DEF DecodeByte, broken, wide
  <2>8. DecodeByte(H[v], c) =
          IF c = "lead" THEN [partial |-> TRUE, text |-> (x \o v.text) \o broken]
          ELSE IF c = "cont" THEN [partial |-> FALSE, text |-> Append(x \o v.text, wide)]
          ELSE [partial |-> FALSE, text |-> ((x \o v.text) \o broken) \o <<c>>]
    <3>1. H[v].text = x \o v.text /\ H[v].partial = v.partial
      BY <2>2
    <3> QED BY <3>1 DEF DecodeByte, broken, wide
  <2>9. CASE c = "lead"
    BY <2>4, <2>6, <2>7, <2>8, <2>9
  <2>10. CASE c = "cont"
    BY <2>4, <2>6, <2>7, <2>8, <2>10
  <2>11. CASE c # "lead" /\ c # "cont"
    <3>1. DecodeByte(v, c) = [partial |-> FALSE, text |-> (v.text \o broken) \o <<c>>]
      BY <2>7, <2>11
    <3>2. DecodeByte(H[v], c) = [partial |-> FALSE, text |-> ((x \o v.text) \o broken) \o <<c>>]
      BY <2>8, <2>11
    <3> DEFINE o == (v.text \o broken) \o <<c>>
    <3>3. DecodeByte(v, c) = [partial |-> FALSE, text |-> o]
      BY <3>1
    <3>4. DecodeByte(H[v], c) = [partial |-> FALSE, text |-> x \o o]
      BY <2>6, <3>2
    <3> HIDE DEF o
    <3> QED BY <2>4, <3>3, <3>4
  <2> QED BY <2>9, <2>10, <2>11
<1>3. b \in Decodings
  BY DEF Decodings
<1>4. DecodeAll(b, s) \in Decodings
  BY <1>3, DecodeCloses, DecodeFold
<1>5. H[b] = [partial |-> p, text |-> x]
  BY SMTT(20), <1>3
<1>6. H[DecodeAll(b, s)] =
        [partial |-> DecodeAll(b, s).partial, text |-> x \o DecodeAll(b, s).text]
  BY <1>4
<1> HIDE DEF H, b
<1>7. DecodeAll(H[b], s) = H[DecodeAll(b, s)]
  <2>1. Commutes(H, DecodeStep(Decodings, Chars), Decodings, Chars)
    BY <1>1, <1>2, DecodeCloses DEF Commutes, DecodeStep
  <2> QED BY <2>1, <1>3, DecodeCloses, DecodeMaps
<1> QED BY <1>4, <1>5, <1>6, <1>7 DEF b

\* The same of what the filter let through.
LEMMA StripShift ==
  ASSUME NEW m \in AnsiStates, NEW x \in Seq(Plain), NEW s \in Seq(Chars)
  PROVE  LET d == StripAll([ansi |-> m, out |-> <<>>], s)
         IN /\ d \in Strippings
            /\ StripAll([ansi |-> m, out |-> x], s) = [ansi |-> d.ansi, out |-> x \o d.out]
<1> DEFINE H == [v \in Strippings |-> [ansi |-> v.ansi, out |-> x \o v.out]]
           b == [ansi |-> m, out |-> <<>>]
<1>1. H \in [Strippings -> Strippings]
  BY DEF Strippings
<1>2. ASSUME NEW v \in Strippings, NEW c \in Chars
      PROVE  StripChar(H[v], c) = H[StripChar(v, c)]
  <2>1. v = [ansi |-> v.ansi, out |-> v.out] /\ v.out \in Seq(Plain) /\ v.ansi \in AnsiStates
    BY DEF Strippings
  <2>2. H[v] = [ansi |-> v.ansi, out |-> x \o v.out]
    OBVIOUS
  <2>3. StripChar(v, c) \in Strippings
    BY StripCloses
  <2>4. H[StripChar(v, c)] =
          [ansi |-> StripChar(v, c).ansi, out |-> x \o StripChar(v, c).out]
    BY <2>3
  <2> HIDE DEF H
  <2>5. c # "ESC" => Append(x \o v.out, c) = x \o Append(v.out, c)
    <3>1. c # "ESC" => c \in Plain
      BY DEF Plain
    <3>2. x \in PlainTexts /\ v.out \in PlainTexts
      BY <2>1 DEF PlainTexts
    <3> QED BY <3>1, <3>2, AppendAssociates
  <2>6. ASSUME NEW z
        PROVE  /\ [v EXCEPT !.ansi = z] = [ansi |-> z, out |-> v.out]
               /\ [H[v] EXCEPT !.ansi = z] = [ansi |-> z, out |-> x \o v.out]
    <3> DEFINE o == x \o v.out
    <3> HIDE DEF o
    <3>1. H[v] = [ansi |-> v.ansi, out |-> o]
      BY <2>2 DEF o
    <3>2. [H[v] EXCEPT !.ansi = z] = [ansi |-> z, out |-> o]
      BY <3>1
    <3>3. [v EXCEPT !.ansi = z] = [ansi |-> z, out |-> v.out]
      BY <2>1
    <3> QED BY <3>2, <3>3 DEF o
  <2>7. LET w == AsText(v, c)
            y == AsText(H[v], c)
        IN y = [ansi |-> w.ansi, out |-> x \o w.out]
    <3>1. CASE c = "ESC"
      BY <2>6, <3>1 DEF AsText
    <3>2. CASE c # "ESC"
      <4>1. AsText(v, c) = [ansi |-> "text", out |-> Append(v.out, c)]
        BY <3>2 DEF AsText
      <4>2. AsText(H[v], c) = [ansi |-> "text", out |-> Append(x \o v.out, c)]
        BY <2>2, <3>2 DEF AsText
      <4> DEFINE o == Append(v.out, c)
      <4>3. AsText(v, c) = [ansi |-> "text", out |-> o]
        BY <4>1
      <4>4. AsText(H[v], c) = [ansi |-> "text", out |-> x \o o]
        BY <2>5, <3>2, <4>2
      <4> HIDE DEF o
      <4> QED BY <4>3, <4>4
    <3> QED BY <3>1, <3>2
  <2>8. H[v].ansi = v.ansi
    BY <2>2
  <2>9. StripChar(H[v], c) = [ansi |-> StripChar(v, c).ansi, out |-> x \o StripChar(v, c).out]
    <3>1. CASE v.ansi = "text"
      BY <2>7, <2>8, <3>1 DEF StripChar
    <3>2. CASE v.ansi = "esc"
      BY ZenonT(40), <2>6, <2>7, <2>8, <3>2 DEF StripChar
    <3>3. CASE v.ansi = "esc-int"
      BY <2>1, <2>2, <2>6, <2>7, <2>8, <3>3 DEF StripChar
    <3>4. CASE v.ansi = "csi"
      BY <2>1, <2>2, <2>6, <2>8, <3>4 DEF StripChar
    <3>5. CASE v.ansi = "osc"
      BY <2>1, <2>2, <2>6, <2>8, <3>5 DEF StripChar
    <3>6. CASE v.ansi = "osc-esc"
      BY <2>6, <2>8, <3>6 DEF StripChar
    <3> QED BY <2>1, <3>1, <3>2, <3>3, <3>4, <3>5, <3>6 DEF AnsiStates
  <2> QED BY <2>4, <2>9
<1>3. b \in Strippings
  BY DEF Strippings
<1>4. StripAll(b, s) \in Strippings
  BY <1>3, StripCloses, StripFold
<1>5. H[b] = [ansi |-> m, out |-> x]
  BY <1>3
<1>6. H[StripAll(b, s)] =
        [ansi |-> StripAll(b, s).ansi, out |-> x \o StripAll(b, s).out]
  BY <1>4
<1> HIDE DEF H, b
<1>7. StripAll(H[b], s) = H[StripAll(b, s)]
  <2>1. Commutes(H, StripStep(Strippings, Chars), Strippings, Chars)
    BY <1>1, <1>2, StripCloses DEF Commutes, StripStep
  <2> QED BY <2>1, <1>3, StripCloses, StripMaps
<1> QED BY <1>4, <1>5, <1>6, <1>7 DEF b

With(v, p, m) == [v EXCEPT !.partial = p, !.ansi = m]

\* The characters appended do not look at the decoder's and the filter's states.
LEMMA AppendShift ==
  ASSUME NEW a \in Accumulators, NEW p \in BOOLEAN, NEW m \in AnsiStates, NEW s \in Seq(Plain)
  PROVE  /\ AppendAll(a, s) \in Accumulators
         /\ With(a, p, m) \in Accumulators
         /\ AppendAll(With(a, p, m), s) = With(AppendAll(a, s), p, m)
<1> DEFINE H == [v \in Accumulators |-> With(v, p, m)]
<1>1. H \in [Accumulators -> Accumulators]
  BY DEF Accumulators, With
<1>2. ASSUME NEW v \in Accumulators, NEW c \in Plain
      PROVE  AppendChar(H[v], c) = H[AppendChar(v, c)]
  <2>1. H[v] = With(v, p, m) /\ H[v] \in Accumulators
    BY <1>1
  <2>2. AppendChar(v, c) \in Accumulators
    BY AppendCloses
  <2>3. H[AppendChar(v, c)] = With(AppendChar(v, c), p, m)
    BY <2>2
  <2> DEFINE w == AppendChar(v, c)
             y == AppendChar(H[v], c)
  <2>4. /\ H[v].parts = v.parts /\ H[v].line = v.line /\ H[v].col = v.col
        /\ H[v].crs = v.crs /\ H[v].partial = p /\ H[v].ansi = m
    BY <2>1 DEF Accumulators, With
  <2> HIDE DEF H
  <2>5. /\ y.parts = w.parts /\ y.line = w.line /\ y.col = w.col /\ y.crs = w.crs
        /\ y.partial = p /\ y.ansi = m
        /\ y = [parts |-> y.parts, line |-> y.line, col |-> y.col, crs |-> y.crs,
                partial |-> y.partial, ansi |-> y.ansi]
        /\ w = [parts |-> w.parts, line |-> w.line, col |-> w.col, crs |-> w.crs,
                partial |-> w.partial, ansi |-> w.ansi]
    <3>1. Appends(v, c, w) /\ Appends(H[v], c, y)
      BY <2>1, AppendCharIs
    <3> HIDE DEF w, y
    <3>2. c = "CR" \/ c = "LF" \/ c \notin LineEnds
      BY DEF LineEnds
    <3> QED BY <2>4, <3>1, <3>2 DEF Appends
  <2> HIDE DEF w, y
  <2>6. y = With(w, p, m)
    BY <2>5 DEF With
  <2> QED BY <2>3, <2>6 DEF w, y
<1>3. AppendAll(a, s) \in Accumulators
  BY AppendCloses, AppendFold
<1>4. H[a] = With(a, p, m) /\ H[a] \in Accumulators
  BY <1>1
<1>5. H[AppendAll(a, s)] = With(AppendAll(a, s), p, m)
  BY <1>3
<1> HIDE DEF H
<1>6. AppendAll(H[a], s) = H[AppendAll(a, s)]
  <2>1. Commutes(H, AppendStep(Accumulators, Plain), Accumulators, Plain)
    BY <1>1, <1>2, AppendCloses DEF Commutes, AppendStep
  <2> QED BY <2>1, AppendCloses, AppendMaps
<1> QED BY <1>3, <1>4, <1>5, <1>6

-----------------------------------------------------------------------------
(* The accumulator.                                                        *)

\* Ingesting a text filters it and appends what is left.
LEMMA IngestIs ==
  ASSUME NEW a \in Accumulators, NEW p \in BOOLEAN, NEW t \in Seq(Chars)
  PROVE  LET s == StripAll([ansi |-> a.ansi, out |-> <<>>], t)
             w == Ingest([a EXCEPT !.partial = p], t)
         IN /\ s \in Strippings /\ w \in Accumulators
            /\ w = With(AppendAll(a, s.out), p, s.ansi)
            /\ w.partial = p /\ w.ansi = s.ansi
<1> DEFINE b == [ansi |-> a.ansi, out |-> <<>>]
           s == StripAll(b, t)
           w == Ingest([a EXCEPT !.partial = p], t)
<1>1. a.ansi \in AnsiStates /\ a.partial \in BOOLEAN
  BY DEF Accumulators
<1>2. s \in Strippings
  <2>1. b \in Strippings
    BY <1>1 DEF Strippings
  <2> HIDE DEF b
  <2> QED BY <2>1, StripCloses, StripFold
<1>3. s.ansi \in AnsiStates /\ s.out \in Seq(Plain)
  BY <1>2 DEF Strippings
<1>4. w = AppendAll(With(a, p, s.ansi), s.out)
  <2>1. [a EXCEPT !.partial = p].ansi = a.ansi
    BY DEF Accumulators
  <2>2. StripAnsiChunk(t, a.ansi) = s
    BY DEF StripAnsiChunk, StripAll
  <2>3. [[a EXCEPT !.partial = p] EXCEPT !.ansi = s.ansi] = With(a, p, s.ansi)
    BY DEF With, Accumulators
  <2> HIDE DEF s
  <2> QED BY <2>1, <2>2, <2>3 DEF Ingest, AppendNormalized, AppendAll
<1> HIDE DEF s, w
<1>5. /\ AppendAll(a, s.out) \in Accumulators
      /\ AppendAll(With(a, p, s.ansi), s.out) = With(AppendAll(a, s.out), p, s.ansi)
  BY <1>3, AppendShift
<1>6. /\ With(AppendAll(a, s.out), p, s.ansi) \in Accumulators
      /\ With(AppendAll(a, s.out), p, s.ansi).partial = p
      /\ With(AppendAll(a, s.out), p, s.ansi).ansi = s.ansi
  BY <1>3, <1>5 DEF With, Accumulators
<1> QED BY <1>2, <1>4, <1>5, <1>6 DEF s, w

\* A chunk pushed is decoded, filtered and appended.
LEMMA PushedIs ==
  ASSUME NEW a \in Accumulators, NEW chunk \in Seq(Chars)
  PROVE  LET d == DecodeAll([partial |-> a.partial, text |-> <<>>], chunk)
             s == StripAll([ansi |-> a.ansi, out |-> <<>>], d.text)
             w == Pushed(a, chunk)
         IN /\ d \in Decodings /\ s \in Strippings /\ w \in Accumulators
            /\ w = With(AppendAll(a, s.out), d.partial, s.ansi)
            /\ w.partial = d.partial /\ w.ansi = s.ansi
<1> DEFINE d == DecodeAll([partial |-> a.partial, text |-> <<>>], chunk)
<1>1. d \in Decodings
  <2>1. a.partial \in BOOLEAN /\ <<>> \in Seq(Chars)
    BY DEF Accumulators
  <2> QED BY <2>1, DecodeShift
<1>2. d.partial \in BOOLEAN /\ d.text \in Seq(Chars)
  BY <1>1 DEF Decodings
<1>3. Pushed(a, chunk) = Ingest([a EXCEPT !.partial = d.partial], d.text)
  BY DEF Pushed, Decode, DecodeAll
<1> HIDE DEF d
<1> QED BY <1>1, <1>2, <1>3, IngestIs DEF d

\* A chunk pushed in two pieces, cut anywhere, even within a character, an
\* escape sequence or a CRLF, is a chunk pushed.
LEMMA PushedInPieces ==
  ASSUME NEW a \in Accumulators, NEW s \in Seq(Chars), NEW t \in Seq(Chars)
  PROVE  Pushed(Pushed(a, s), t) = Pushed(a, s \o t)
<1> DEFINE b  == Pushed(a, s)
           d0 == [partial |-> a.partial, text |-> <<>>]
           d1 == DecodeAll(d0, s)
           d2 == DecodeAll([partial |-> b.partial, text |-> <<>>], t)
           d  == DecodeAll(d0, s \o t)
           s0 == [ansi |-> a.ansi, out |-> <<>>]
           s1 == StripAll(s0, d1.text)
           s2 == StripAll([ansi |-> b.ansi, out |-> <<>>], d2.text)
           st == StripAll(s0, d.text)
<1>1. /\ d1 \in Decodings /\ s1 \in Strippings /\ b \in Accumulators
      /\ b = With(AppendAll(a, s1.out), d1.partial, s1.ansi)
      /\ b.partial = d1.partial /\ b.ansi = s1.ansi
  BY PushedIs
<1>2. /\ d2 \in Decodings /\ s2 \in Strippings
      /\ Pushed(b, t) = With(AppendAll(b, s2.out), d2.partial, s2.ansi)
  <2> HIDE DEF b
  <2> QED BY <1>1, PushedIs
<1>3. /\ Pushed(a, s \o t) = With(AppendAll(a, st.out), d.partial, st.ansi)
      /\ s \o t \in Seq(Chars)
  <2>1. s \o t \in Seq(Chars)
    OBVIOUS
  <2> QED BY <2>1, PushedIs
<1>4. a.partial \in BOOLEAN /\ a.ansi \in AnsiStates
  BY DEF Accumulators
<1> HIDE DEF b
<1>5. /\ d1 = [partial |-> d1.partial, text |-> d1.text]
      /\ d1.partial \in BOOLEAN /\ d1.text \in Seq(Chars)
      /\ d2.partial \in BOOLEAN /\ d2.text \in Seq(Chars)
  BY <1>1, <1>2 DEF Decodings
<1>6. d = [partial |-> d2.partial, text |-> d1.text \o d2.text]
  <2>1. d0 \in Decodings
    BY <1>4 DEF Decodings
  <2> HIDE DEF d0
  <2>2. d = DecodeAll(d1, t)
    BY <2>1, DecodeCloses, DecodeJoins
  <2> HIDE DEF d1, d
  <2>3. DecodeAll([partial |-> d1.partial, text |-> d1.text], t)
          = [partial |-> d2.partial, text |-> d1.text \o d2.text]
    <3>1. d2 = DecodeAll([partial |-> d1.partial, text |-> <<>>], t)
      BY <1>1
    <3> HIDE DEF d2
    <3>2. ASSUME NEW p \in BOOLEAN, NEW x \in Seq(Chars),
                 d2 = DecodeAll([partial |-> p, text |-> <<>>], t)
          PROVE  DecodeAll([partial |-> p, text |-> x], t)
                   = [partial |-> d2.partial, text |-> x \o d2.text]
      BY <3>2, DecodeShift
    <3> QED BY <1>5, <3>1, <3>2
  <2> QED BY <1>5, <2>2, <2>3
<1>7. d.partial = d2.partial /\ d.text = d1.text \o d2.text
  <2> HIDE DEF d, d1, d2
  <2> QED BY <1>6
<1> HIDE DEF d, d1, d2
<1>8. /\ s1 = [ansi |-> s1.ansi, out |-> s1.out]
      /\ s1.ansi \in AnsiStates /\ s1.out \in Seq(Plain)
      /\ s2.ansi \in AnsiStates /\ s2.out \in Seq(Plain)
  BY <1>1, <1>2 DEF Strippings
<1>9. st = [ansi |-> s2.ansi, out |-> s1.out \o s2.out]
  <2>1. s0 \in Strippings
    BY <1>4 DEF Strippings
  <2> HIDE DEF s0
  <2>2. st = StripAll(s1, d2.text)
    BY <1>5, <1>7, <2>1, StripCloses, StripJoins
  <2> HIDE DEF s1, st
  <2>3. StripAll([ansi |-> s1.ansi, out |-> s1.out], d2.text)
          = [ansi |-> s2.ansi, out |-> s1.out \o s2.out]
    <3>1. s2 = StripAll([ansi |-> s1.ansi, out |-> <<>>], d2.text)
      BY <1>1
    <3> HIDE DEF s2
    <3>2. ASSUME NEW m \in AnsiStates, NEW x \in Seq(Plain), NEW u \in Seq(Chars),
                 s2 = StripAll([ansi |-> m, out |-> <<>>], u)
          PROVE  StripAll([ansi |-> m, out |-> x], u)
                   = [ansi |-> s2.ansi, out |-> x \o s2.out]
      BY <3>2, StripShift
    <3> QED BY <1>5, <1>8, <3>1, <3>2
  <2> QED BY <1>8, <2>2, <2>3
<1>10. st.ansi = s2.ansi /\ st.out = s1.out \o s2.out
  <2> HIDE DEF st, s1, s2
  <2> QED BY <1>9
<1> HIDE DEF st, s1, s2
<1> DEFINE a1 == AppendAll(a, s1.out)
           a2 == AppendAll(a1, s2.out)
<1>11. a1 \in Accumulators
  BY <1>8, AppendCloses, AppendFold
<1>12. a2 = AppendAll(a, s1.out \o s2.out)
  BY <1>8, AppendCloses, AppendJoins
<1> HIDE DEF a1
<1>13. AppendAll(b, s2.out) = With(a2, d1.partial, s1.ansi) /\ a2 \in Accumulators
  BY <1>1, <1>5, <1>8, <1>11, AppendShift DEF a1
<1> HIDE DEF a2
<1>14. With(With(a2, d1.partial, s1.ansi), d2.partial, s2.ansi) = With(a2, d2.partial, s2.ansi)
  BY <1>13 DEF With, Accumulators
<1>15. Pushed(b, t) = With(a2, d2.partial, s2.ansi)
  BY <1>2, <1>13, <1>14
<1>16. Pushed(a, s \o t) = With(a2, d2.partial, s2.ansi)
  BY <1>3, <1>7, <1>10, <1>12
<1> QED BY <1>15, <1>16 DEF b

\* The empty accumulator, and an empty chunk pushed to it.
LEMMA FreshIs ==
  Fresh \in Accumulators /\ Pushed(Fresh, <<>>) = Fresh
<1>1. Fresh \in Accumulators
  BY DEF Fresh, Accumulators, Tidy, AnsiStates
<1> DEFINE none == <<>>
           d0 == [partial |-> FALSE, text |-> none]
           s0 == [ansi |-> "text", out |-> none]
<1>2. none \in Seq(Chars) /\ none \in Seq(Plain) /\ Len(none) = 0
  OBVIOUS
<1>3. Fresh.partial = FALSE /\ Fresh.ansi = "text" /\ With(Fresh, FALSE, "text") = Fresh
  <2>1. Fresh.partial = FALSE /\ Fresh.ansi = "text"
    BY DEF Fresh
  <2>2. With(Fresh, Fresh.partial, Fresh.ansi) = Fresh
    BY <1>1 DEF Accumulators, With
  <2> QED BY <2>1, <2>2
<1>4. d0 \in Decodings /\ d0.text = none /\ d0.partial = FALSE
  BY <1>2 DEF Decodings
<1>5. s0 \in Strippings /\ s0.out = none /\ s0.ansi = "text"
  BY <1>2 DEF Strippings, AnsiStates
<1> HIDE DEF none
<1>6. Pushed(Fresh, none) =
        LET d == DecodeAll([partial |-> Fresh.partial, text |-> <<>>], none)
            s == StripAll([ansi |-> Fresh.ansi, out |-> <<>>], d.text)
        IN With(AppendAll(Fresh, s.out), d.partial, s.ansi)
  BY <1>1, <1>2, PushedIs
<1>7. DecodeAll(d0, none) = d0
  <2> HIDE DEF d0
  <2> QED BY <1>2, <1>4, DecodeCloses, DecodeNothing
<1>8. StripAll(s0, none) = s0
  <2> HIDE DEF s0
  <2> QED BY <1>2, <1>5, StripCloses, StripNothing
<1>9. AppendAll(Fresh, none) = Fresh
  BY <1>1, <1>2, AppendCloses, AppendNothing
<1>10. [partial |-> Fresh.partial, text |-> <<>>] = d0 /\ [ansi |-> Fresh.ansi, out |-> <<>>] = s0
  BY <1>3 DEF none
<1> HIDE DEF d0, s0
<1>11. Pushed(Fresh, none) = Fresh
  BY <1>3, <1>4, <1>5, <1>6, <1>7, <1>8, <1>9, <1>10
<1> QED BY <1>1, <1>11 DEF none

\* What snapshot() returns.
LEMMA SnapshotIsTidy ==
  ASSUME NEW a \in Accumulators
  PROVE  LET text == Snapshot(a)
         IN /\ text \in Seq(Plain)
            /\ \A i \in DOMAIN text :
                 text[i] # "ESC" /\ (text[i] = "CR" /\ i < Len(text) => text[i + 1] # "LF")
<1> DEFINE all == Ingest(a, DecoderEnd(a.partial))
           rep == Repeat("CR", all.crs)
           p == all.parts
           text == p \o rep
<1>1. all \in Accumulators
  <2>1. a.partial \in BOOLEAN /\ [a EXCEPT !.partial = a.partial] = a
    BY DEF Accumulators
  <2>2. DecoderEnd(a.partial) \in Seq(Chars)
    <3>1. "bad" \in Chars
      BY DEF Chars
    <3>2. <<"bad">> \in Seq(Chars) /\ <<>> \in Seq(Chars)
      BY <3>1
    <3> QED BY <3>2 DEF DecoderEnd
  <2> QED BY <2>1, <2>2, IngestIs
<1> HIDE DEF all
<1>2. p \in Seq(Plain) /\ Tidy(p) /\ all.crs \in Nat
  BY <1>1 DEF Accumulators
<1>3. rep \in Seq(Plain) /\ Len(rep) = all.crs /\ \A i \in 1 .. all.crs : rep[i] = "CR"
  BY <1>2, RepeatIs
<1>4. Snapshot(a) = text
  BY DEF Snapshot, all
<1> HIDE DEF p, rep
<1>5. /\ text \in Seq(Plain) /\ Len(text) = Len(p) + all.crs
      /\ \A i \in 1 .. Len(p) : text[i] = p[i]
      /\ \A i \in 1 .. Len(p) + all.crs : i > Len(p) => text[i] = "CR"
  BY <1>2, <1>3
<1> HIDE DEF text
<1>6. ASSUME NEW i \in DOMAIN text
      PROVE  text[i] # "ESC" /\ (text[i] = "CR" /\ i < Len(text) => text[i + 1] # "LF")
  <2>1. i \in 1 .. Len(p) + all.crs /\ Len(p) \in Nat /\ i \in Nat
    BY <1>2, <1>5
  <2>2. text[i] # "ESC"
    BY <1>5 DEF Plain
  <2>3. ASSUME text[i] = "CR", i < Len(text) PROVE text[i + 1] # "LF"
    <3>1. CASE i + 1 > Len(p)
      <4>1. text[i + 1] = "CR"
        BY <1>2, <1>5, <2>1, <2>3, <3>1
      <4> QED BY <4>1
    <3>2. CASE i + 1 <= Len(p)
      <4>1. i \in 1 .. Len(p) /\ i + 1 \in 1 .. Len(p)
        BY <2>1, <3>2
      <4>2. p[i] = "CR" /\ text[i + 1] = p[i + 1] /\ i \in DOMAIN p
        BY <1>2, <1>5, <2>3, <4>1
      <4> QED BY <1>2, <4>2 DEF Tidy
    <3> QED BY <2>1, <3>1, <3>2
  <2> QED BY <2>2, <2>3
<1> QED BY <1>4, <1>5, <1>6

-----------------------------------------------------------------------------
(* The invariant.                                                          *)

\* Trim cuts a text out of its text.
LEMMA TrimIsText ==
  ASSUME NEW C, NEW text \in Seq(C)
  PROVE  Trim(text) \in Seq(C)
<1> DEFINE kept == {i \in DOMAIN text : text[i] # " "}
<1>1. Trim(text) = IF kept = {} THEN <<>> ELSE SubSeq(text, Min(kept), Max(kept))
  BY DEF Trim
<1>2. kept \in SUBSET (1 .. Len(text)) /\ Len(text) \in Nat
  <2>1. DOMAIN text = 1 .. Len(text) /\ Len(text) \in Nat
    OBVIOUS
  <2>2. kept \subseteq DOMAIN text
    OBVIOUS
  <2> HIDE DEF kept
  <2> QED BY <2>1, <2>2
<1> HIDE DEF kept
<1>3. CASE kept = {}
  BY <1>1, <1>3
<1>4. CASE kept # {}
  <2> DEFINE above == {Len(text) - i : i \in kept}
  <2>1. \A i \in kept : i \in Nat /\ 1 <= i /\ i <= Len(text)
    BY <1>2
  <2>2. kept \in SUBSET Nat
    BY <2>1
  <2>3. PICK x \in kept : \A y \in kept : x <= y
    BY <1>4, <2>2, Least
  <2>4. above \in SUBSET Nat /\ above # {}
    BY <1>2, <1>4, <2>1
  <2>5. PICK z \in above : \A y \in above : z <= y
    <3> HIDE DEF above
    <3> QED BY <2>4, Least
  <2>6. PICK w \in kept : z = Len(text) - w
    BY <2>5
  <2>7. ASSUME NEW y \in kept PROVE w >= y
    <3>1. Len(text) - y \in above
      OBVIOUS
    <3>2. Len(text) - w <= Len(text) - y
      BY <2>5, <2>6, <3>1
    <3>3. w \in Nat /\ y \in Nat
      BY <2>1, <2>6
    <3> QED BY <1>2, <3>2, <3>3
  <2>8. Min(kept) \in kept
    BY <2>3 DEF Min
  <2>9. Max(kept) \in kept
    BY <2>6, <2>7 DEF Max
  <2> DEFINE m == Min(kept)
             n == Max(kept)
  <2> HIDE DEF m, n
  <2>10. m \in 1 .. Len(text) /\ n \in 1 .. Len(text)
    BY <1>2, <2>8, <2>9 DEF m, n
  <2>11. SubSeq(text, m, n) \in Seq(C)
    BY <1>2, <2>10
  <2> QED BY <1>1, <1>4, <2>11 DEF m, n
<1> QED BY <1>3, <1>4

\* The inductive invariant: what was fed in one piece is what the pieces gave.
ResponseInv ==
  /\ echo \in Seq(Chars)
  /\ input \in Seq(Chars)
  /\ acc \in Accumulators
  /\ ChunksDoNotMatter

\* A push keeps the three parts of the invariant that it can disturb.
LEMMA PushKeeps ==
  ASSUME ResponseInv, NEW chunk \in Seq(Chars), Push(chunk)
  PROVE  input' \in Seq(Chars) /\ acc' \in Accumulators /\ ChunksDoNotMatter'
<1>1. /\ input \in Seq(Chars) /\ acc \in Accumulators /\ acc = Pushed(Fresh, input)
      /\ acc' = Pushed(acc, chunk) /\ input' = input \o chunk
  BY DEF ResponseInv, ChunksDoNotMatter, Push
<1>2. input \o chunk \in Seq(Chars)
  BY <1>1
<1>3. Pushed(acc, chunk) \in Accumulators
  BY <1>1, PushedIs
<1>4. Pushed(Pushed(Fresh, input), chunk) = Pushed(Fresh, input \o chunk)
  BY <1>1, FreshIs, PushedInPieces
<1> QED BY <1>1, <1>2, <1>3, <1>4 DEF ChunksDoNotMatter

\* The constants' texts and the chunks are texts.
LEMMA GivenTexts ==
  /\ Seq(Kinds) \subseteq Seq(Chars)
  /\ Command \in Seq(Chars) /\ Previous \in Seq(Chars) /\ Current \in Seq(Chars)
  /\ \A m \in Nat : \A chunk \in SeqOf(Bytes, m) : chunk \in Seq(Chars)
<1>1. Kinds \subseteq Chars /\ Bytes \subseteq Chars
  BY ResponseAssumption DEF Chars
<1>2. Seq(Kinds) \subseteq Seq(Chars)
  BY <1>1
<1>3. Command \in Seq(Kinds) /\ Previous \in Seq(Kinds) /\ Current \in Seq(Kinds)
  <2>1. Letters \subseteq Kinds
    BY DEF Letters
  <2>2. \A s \in Seq(Letters) : s \in Seq(Kinds)
    BY <2>1
  <2> QED BY <2>2, ResponseAssumption
<1>4. ASSUME NEW m \in Nat, NEW chunk \in SeqOf(Bytes, m) PROVE chunk \in Seq(Chars)
  <2>1. PICK n \in 0 .. m : chunk \in [1 .. n -> Bytes]
    BY DEF SeqOf
  <2> QED BY <1>1, <2>1
<1> QED BY <1>2, <1>3, <1>4

\* The texts the actions put together.
LEMMA SmallTexts ==
  /\ <<"LF">> \in Seq(Chars) /\ <<"more">> \in Seq(Chars)
  /\ <<" ", "LF">> \in Seq(Chars) /\ <<" ", "CR">> \in Seq(Chars)
  /\ <<"CR", "LF">> \in Seq(Chars) /\ <<"LF", "CR">> \in Seq(Chars)
  /\ <<"more", "LF">> \in Seq(Chars) /\ <<"CR", " ", "CR">> \in Seq(Chars)
<1>1. "CR" \in Chars /\ "LF" \in Chars /\ " " \in Chars /\ "more" \in Chars
  BY DEF Chars, Kinds
<1>2. \A x \in Chars : <<x>> \in Seq(Chars)
  OBVIOUS
<1>3. \A x, y \in Chars : <<x, y>> \in Seq(Chars)
  OBVIOUS
<1>4. \A x, y, z \in Chars : <<x, y, z>> \in Seq(Chars)
  OBVIOUS
<1> QED BY <1>1, <1>2, <1>3, <1>4, Zenon

\* The invariant holds initially.
LEMMA ResponseInitInv ==
  ResponseInit => ResponseInv
<1> SUFFICES ASSUME ResponseInit PROVE ResponseInv
  OBVIOUS
<1>1. Trim(Previous) \in Seq(Chars)
  BY GivenTexts, TrimIsText
<1>2. echo \in Seq(Chars)
  <2>1. CASE silent
    BY <2>1 DEF ResponseInit
  <2>2. CASE ~silent
    <3>1. PICK p \in {<<>>, Previous, Trim(Previous)} : echo = p \o Command
      BY <2>2 DEF ResponseInit
    <3>2. p \in Seq(Chars)
      <4>1. <<>> \in Seq(Chars)
        OBVIOUS
      <4> QED BY <1>1, <3>1, <4>1, GivenTexts, Zenon
    <3> QED BY <3>1, <3>2, GivenTexts
  <2> QED BY <2>1, <2>2
<1>3. acc = Fresh /\ input = <<>>
  BY DEF ResponseInit
<1>4. input \in Seq(Chars)
  BY <1>3
<1> QED BY <1>2, <1>3, <1>4, FreshIs DEF ResponseInv, ChunksDoNotMatter

\* Every step preserves the invariant.
LEMMA ResponseStep ==
  ResponseInv /\ [ResponseNext]_responseVars => ResponseInv'
<1> SUFFICES ASSUME ResponseInv, [ResponseNext]_responseVars PROVE ResponseInv'
  OBVIOUS
<1>1. echo \in Seq(Chars)
  BY DEF ResponseInv
<1>2. ASSUME NEW chunk \in Seq(Chars), Push(chunk), echo' \in Seq(Chars) PROVE ResponseInv'
  BY <1>2, PushKeeps DEF ResponseInv
<1>3. CASE EchoChar
  <2>1. <<Head(echo)>> \in Seq(Chars) /\ Tail(echo) \in Seq(Chars)
    BY <1>1, <1>3 DEF EchoChar
  <2>2. Push(<<Head(echo)>>) /\ echo' = Tail(echo)
    BY <1>3 DEF EchoChar
  <2> QED BY <1>2, <2>1, <2>2
<1>4. ASSUME NEW inserted \in {<<"LF">>, <<" ", "LF">>, <<" ", "CR">>}, Wrap(inserted)
      PROVE  ResponseInv'
  <2>1. inserted \in Seq(Chars)
    BY SmallTexts, Zenon
  <2>2. Push(inserted) /\ echo' = echo
    BY <1>4 DEF Wrap
  <2> QED BY <1>1, <1>2, <2>1, <2>2
<1>5. CASE EchoEnds
  <2>1. <<"CR", "LF">> \in Seq(Chars)
    BY SmallTexts
  <2>2. Push(<<"CR", "LF">>) /\ echo' = echo
    BY <1>5 DEF EchoEnds
  <2> QED BY <1>1, <1>2, <2>1, <2>2
<1>6. ASSUME NEW chunk \in SeqOf(Bytes, MaxChunk), PutChunk(chunk) PROVE ResponseInv'
  <2>1. chunk \in Seq(Chars)
    BY GivenTexts, ResponseAssumption
  <2>2. Push(chunk) /\ echo' = echo
    BY <1>6 DEF PutChunk, Puts
  <2> QED BY <1>1, <1>2, <2>1, <2>2
<1>7. CASE PutOrdinaryMarker
  <2>1. <<"more", "LF">> \in Seq(Chars)
    BY SmallTexts
  <2>2. Push(<<"more", "LF">>) /\ echo' = echo
    BY <1>7 DEF PutOrdinaryMarker, Puts
  <2> QED BY <1>1, <1>2, <2>1, <2>2
<1>8. CASE PutPagedMarker
  <2>1. PICK after \in {<<"LF">>, <<"CR", " ", "CR">>} : Puts(1, <<"more">> \o after, after)
    BY <1>8 DEF PutPagedMarker
  <2>2. <<"more">> \o after \in Seq(Chars)
    <3>1. <<"more">> \in Seq(Chars) /\ after \in Seq(Chars)
      BY <2>1, SmallTexts, Zenon
    <3> QED BY <3>1, JoinAssociates DEF Texts
  <2>3. Push(<<"more">> \o after) /\ echo' = echo
    BY <2>1 DEF Puts
  <2> QED BY <1>1, <1>2, <2>2, <2>3
<1>9. CASE PutPrompt
  <2>1. PICK before \in {<<"CR", "LF">>, <<"LF", "CR">>} : Push(before \o Current)
    BY <1>9 DEF PutPrompt
  <2>2. before \o Current \in Seq(Chars)
    <3>1. before \in Seq(Chars)
      BY <2>1, SmallTexts, Zenon
    <3> QED BY <3>1, GivenTexts
  <2>3. echo' = echo
    BY <1>9 DEF PutPrompt
  <2> QED BY <1>1, <1>2, <2>1, <2>2, <2>3
<1>10. CASE UNCHANGED responseVars
  BY <1>10 DEF responseVars, ResponseInv, ChunksDoNotMatter
<1> QED BY <1>3, <1>4, <1>5, <1>6, <1>7, <1>8, <1>9, <1>10 DEF ResponseNext

\* The invariant holds.
THEOREM ResponseInvariance == ResponseSpec => []ResponseInv
<1>1. ResponseInit => ResponseInv
  BY ResponseInitInv
<1>2. ResponseInv /\ [ResponseNext]_responseVars => ResponseInv'
  BY ResponseStep
<1> QED BY <1>1, <1>2, PTL DEF ResponseSpec

\* However the bytes are cut into chunks, the accumulator comes to the same
\* text, line and carry.
THEOREM AnyChunks == ResponseSpec => []ChunksDoNotMatter
<1>1. ResponseInv => ChunksDoNotMatter
  BY DEF ResponseInv
<1> QED BY <1>1, ResponseInvariance, PTL

\* What snapshot() returns has no escape sequence left, and no CR before an
\* LF.
THEOREM CleanSnapshot == ResponseSpec => []SnapshotIsClean
<1>1. ResponseInv => SnapshotIsClean
  BY SnapshotIsTidy DEF ResponseInv, SnapshotIsClean
<1> QED BY <1>1, ResponseInvariance, PTL

-----------------------------------------------------------------------------
(* What a terminal shows of a line.                                        *)

\* Character p of line l is written in column n.
Cell(l, p, n) ==
  /\ p \in 1 .. Len(l) /\ n \in 1 .. p
  /\ p = n \/ l[p - n] = "CR"
  /\ \A t \in (p - n) + 1 .. p : l[t] # "CR"

\* The next character goes to column k + 1.
Cursor(l, k) ==
  /\ k \in 0 .. Len(l)
  /\ k = Len(l) \/ l[Len(l) - k] = "CR"
  /\ \A t \in (Len(l) - k) + 1 .. Len(l) : l[t] # "CR"

\* visible has in each column the last character of l that is written there.
Visible(l, visible) ==
  /\ \A p, n \in Nat : Cell(l, p, n) => n <= Len(visible)
  /\ \A n \in 1 .. Len(visible) :
       \E p \in 1 .. Len(l) :
         /\ Cell(l, p, n) /\ l[p] = visible[n]
         /\ \A q \in 1 .. Len(l) : Cell(l, q, n) => q <= p

Shown(l, visible, k) == Visible(l, visible) /\ Cursor(l, k)

BeginsWith(l, m) ==
  Len(l) \in Nat /\ Len(m) \in Nat /\ Len(l) <= Len(m) /\ \A i \in 1 .. Len(l) : m[i] = l[i]

\* Where l is written does not depend on what comes after it.
LEMMA CellOfPrefix ==
  ASSUME NEW l, NEW m, BeginsWith(l, m), NEW p \in Nat, p <= Len(l), NEW c \in Nat
  PROVE  Cell(m, p, c) <=> Cell(l, p, c)
<1>1. \A t \in 1 .. p : m[t] = l[t]
  BY DEF BeginsWith
<1>2. c \in 1 .. p => /\ p # c => p - c \in 1 .. p
                      /\ \A t \in (p - c) + 1 .. p : t \in 1 .. p
  OBVIOUS
<1>3. p \in 1 .. Len(m) <=> p \in 1 .. Len(l)
  BY DEF BeginsWith
<1> QED BY <1>1, <1>2, <1>3 DEF Cell

\* Nothing written, nothing shown.
LEMMA ShownNothing == Shown(<<>>, <<>>, 0)
<1> DEFINE l == <<>>
<1>1. Len(l) = 0
  OBVIOUS
<1>2. Visible(l, l)
  <2>1. \A p, n : ~Cell(l, p, n)
    BY <1>1 DEF Cell
  <2> QED BY <1>1, <2>1 DEF Visible
<1>3. Cursor(l, 0)
  BY <1>1 DEF Cursor
<1> QED BY <1>2, <1>3 DEF Shown

\* CRs write nothing.
LEMMA ShownCrs ==
  ASSUME NEW l \in Seq(Plain), NEW v \in Seq(Plain), NEW k, Shown(l, v, k), NEW n \in Nat
  PROVE  Shown(l \o Repeat("CR", n), v, IF n = 0 THEN k ELSE 0)
<1>1. CASE n = 0
  BY <1>1, NoCrs
<1>2. CASE n # 0
  <2> DEFINE r == Repeat("CR", n)
             m == l \o r
  <2>1. r \in Seq(Plain) /\ Len(r) = n /\ \A i \in 1 .. n : r[i] = "CR"
    BY RepeatIs
  <2> HIDE DEF r
  <2>2. /\ Len(l) \in Nat /\ Len(m) = Len(l) + n
        /\ \A i \in 1 .. Len(l) : m[i] = l[i]
        /\ \A i \in 1 .. Len(l) + n : i > Len(l) => m[i] = "CR"
    BY SMTT(20), <2>1
  <2> HIDE DEF m
  <2>3. ASSUME NEW p \in Nat, NEW c \in Nat PROVE Cell(m, p, c) <=> Cell(l, p, c)
    <3>1. CASE p <= Len(l)
      <4>1. BeginsWith(l, m)
        BY <2>2 DEF BeginsWith
      <4> QED BY <3>1, <4>1, CellOfPrefix
    <3>2. CASE p > Len(l)
      <4>1. Cell(m, p, c) => p \in (p - c) + 1 .. p /\ p \in 1 .. Len(l) + n
        BY <2>2 DEF Cell
      <4>2. ~Cell(m, p, c)
        BY <2>2, <3>2, <4>1 DEF Cell
      <4>3. ~Cell(l, p, c)
        BY <2>2, <3>2 DEF Cell
      <4> QED BY <4>2, <4>3
    <3>3. p <= Len(l) \/ p > Len(l)
      BY <2>2
    <3> QED BY <3>1, <3>2, <3>3
  <2>4. Visible(m, v)
    <3>1. \A p, c \in Nat : Cell(m, p, c) => c <= Len(v)
      BY <2>3 DEF Shown, Visible
    <3>2. ASSUME NEW c \in 1 .. Len(v)
          PROVE  \E p \in 1 .. Len(m) :
                   /\ Cell(m, p, c) /\ m[p] = v[c]
                   /\ \A q \in 1 .. Len(m) : Cell(m, q, c) => q <= p
      <4>1. PICK p \in 1 .. Len(l) :
              /\ Cell(l, p, c) /\ l[p] = v[c]
              /\ \A q \in 1 .. Len(l) : Cell(l, q, c) => q <= p
        BY DEF Shown, Visible
      <4>2. p \in 1 .. Len(m) /\ p \in Nat /\ c \in Nat /\ m[p] = l[p]
        BY <2>2, <4>1
      <4>3. \A q \in 1 .. Len(m) : Cell(m, q, c) => q <= p
        <5> SUFFICES ASSUME NEW q \in 1 .. Len(m), Cell(m, q, c) PROVE q <= p
          OBVIOUS
        <5>1. q \in Nat /\ Cell(l, q, c)
          BY <2>2, <2>3, <4>2
        <5>2. q \in 1 .. Len(l)
          BY <5>1 DEF Cell
        <5> QED BY <4>1, <5>1, <5>2
      <4>4. Cell(m, p, c)
        BY <2>3, <4>1, <4>2
      <4> QED BY <4>1, <4>2, <4>3, <4>4
    <3> QED BY <3>1, <3>2 DEF Visible
  <2>5. Cursor(m, 0)
    BY <1>2, <2>2 DEF Cursor
  <2> QED BY <1>2, <2>4, <2>5 DEF Shown, m, r
<1> QED BY <1>1, <1>2

\* A character is written in the column after the cursor's.
LEMMA ShownChar ==
  ASSUME NEW l \in Seq(Plain), NEW v \in Seq(Plain), NEW k, Shown(l, v, k),
         NEW c \in Plain, c # "CR"
  PROVE  LET d == WriteDisplay([line |-> v, col |-> k], c)
         IN k \in Nat /\ Shown(Append(l, c), d.line, d.col)
<1> DEFINE m == Append(l, c)
           d == WriteDisplay([line |-> v, col |-> k], c)
           w == d.line
<1>1. /\ Len(l) \in Nat /\ Len(m) = Len(l) + 1 /\ m[Len(l) + 1] = c
      /\ \A i \in 1 .. Len(l) : m[i] = l[i]
  OBVIOUS
<1>2. /\ k \in Nat /\ k <= Len(l)
      /\ k = Len(l) \/ l[Len(l) - k] = "CR"
      /\ \A t \in (Len(l) - k) + 1 .. Len(l) : l[t] # "CR"
  BY <1>1 DEF Shown, Cursor
<1>3. k <= Len(v)
  <2>1. CASE k = 0
    BY <2>1
  <2>2. CASE k # 0
    <3>1. Cell(l, Len(l), k)
      BY <1>1, <1>2, <2>2 DEF Cell
    <3> QED BY <1>1, <1>2, <3>1 DEF Shown, Visible
  <2> QED BY <2>1, <2>2
<1>4. /\ d.col = k + 1 /\ Len(w) \in Nat
      /\ Len(w) = IF k < Len(v) THEN Len(v) ELSE Len(v) + 1
      /\ w[k + 1] = c
      /\ \A i \in 1 .. Len(v) : i # k + 1 => w[i] = v[i]
  <2>1. CASE k < Len(v)
    <3>1. d.line = [v EXCEPT ![k + 1] = c] /\ d.col = k + 1
      BY <2>1 DEF WriteDisplay
    <3>2. k + 1 \in 1 .. Len(v)
      BY <1>2, <2>1
    <3> QED BY <2>1, <3>1, <3>2, ExceptSeq
  <2>2. CASE ~(k < Len(v))
    <3>1. d.line = Append(v, c) /\ d.col = k + 1
      BY <2>2 DEF WriteDisplay
    <3>2. k = Len(v) /\ Len(v) \in Nat
      BY <1>2, <1>3, <2>2
    <3> DEFINE y == Append(v, c)
    <3>3. /\ Len(y) = Len(v) + 1 /\ y[Len(v) + 1] = c
          /\ \A i \in 1 .. Len(v) : y[i] = v[i]
      OBVIOUS
    <3> HIDE DEF y
    <3>4. w = y
      BY <3>1 DEF y
    <3> HIDE DEF d, w
    <3>5. d.col = k + 1
      BY <3>1
    <3> QED BY <2>2, <3>2, <3>3, <3>4, <3>5
  <2> QED BY <2>1, <2>2
<1>5. BeginsWith(l, m)
  BY <1>1 DEF BeginsWith
<1> HIDE DEF m, d
<1>6. ASSUME NEW n \in Nat PROVE Cell(m, Len(l) + 1, n) <=> n = k + 1
  <2>1. ASSUME n = k + 1 PROVE Cell(m, Len(l) + 1, n)
    <3>1. ((Len(l) + 1) - n) = Len(l) - k /\ n \in 1 .. Len(l) + 1 /\ Len(l) + 1 \in 1 .. Len(m)
      BY <1>1, <1>2, <2>1
    <3>2. Len(l) + 1 = n \/ m[Len(l) - k] = "CR"
      BY SMTT(20), <1>1, <1>2, <2>1
    <3>3. ASSUME NEW t \in (Len(l) - k) + 1 .. Len(l) + 1 PROVE m[t] # "CR"
      <4>1. CASE t = Len(l) + 1
        BY <1>1, <4>1
      <4>2. CASE t # Len(l) + 1
        <5>1. t \in (Len(l) - k) + 1 .. Len(l) /\ t \in 1 .. Len(l)
          BY <1>1, <1>2, <4>2
        <5> QED BY <1>1, <1>2, <5>1
      <4> QED BY <4>1, <4>2
    <3> QED BY <3>1, <3>2, <3>3 DEF Cell
  <2>2. ASSUME Cell(m, Len(l) + 1, n) PROVE n = k + 1
    <3>1. /\ n \in 1 .. Len(l) + 1
          /\ Len(l) + 1 = n \/ m[(Len(l) + 1) - n] = "CR"
          /\ \A t \in ((Len(l) + 1) - n) + 1 .. Len(l) + 1 : m[t] # "CR"
      BY <2>2 DEF Cell
    <3>2. ~(n < k + 1)
      <4> SUFFICES ASSUME n < k + 1 PROVE FALSE
        OBVIOUS
      <4> DEFINE x == (Len(l) + 1) - n
      <4>1. x \in (Len(l) - k) + 1 .. Len(l) /\ x \in 1 .. Len(l) /\ Len(l) + 1 # n
        BY <1>1, <1>2, <3>1
      <4>2. m[x] = "CR" /\ m[x] = l[x]
        BY <1>1, <3>1, <4>1
      <4> QED BY <1>2, <4>1, <4>2
    <3>3. ~(n > k + 1)
      <4> SUFFICES ASSUME n > k + 1 PROVE FALSE
        OBVIOUS
      <4> DEFINE x == Len(l) - k
      <4>1. x \in ((Len(l) + 1) - n) + 1 .. Len(l) + 1 /\ x \in 1 .. Len(l) /\ k # Len(l)
        BY <1>1, <1>2, <3>1
      <4>2. m[x] = "CR"
        BY <1>1, <1>2, <4>1
      <4> QED BY <3>1, <4>1, <4>2
    <3> QED BY <1>2, <3>1, <3>2, <3>3
  <2> QED BY <2>1, <2>2
<1>7. ASSUME NEW p \in Nat, NEW n \in Nat
      PROVE  Cell(m, p, n) <=> \/ p <= Len(l) /\ Cell(l, p, n)
                               \/ p = Len(l) + 1 /\ n = k + 1
  <2>1. CASE p <= Len(l)
    BY <1>1, <1>5, <2>1, CellOfPrefix
  <2>2. CASE p = Len(l) + 1
    BY <1>1, <1>6, <2>2
  <2>3. CASE p > Len(l) + 1
    <3>1. ~Cell(m, p, n)
      BY <1>1, <2>3 DEF Cell
    <3> QED BY <1>1, <2>3, <3>1
  <2> QED BY <1>1, <2>1, <2>2, <2>3
<1> HIDE DEF w
<1>8. Visible(m, w)
  <2>1. ASSUME NEW p \in Nat, NEW n \in Nat, Cell(m, p, n) PROVE n <= Len(w)
    <3>1. CASE p <= Len(l) /\ Cell(l, p, n)
      <4>1. n <= Len(v)
        BY <3>1 DEF Shown, Visible
      <4> QED BY <1>4, <4>1
    <3>2. CASE n = k + 1
      BY <1>2, <1>3, <1>4, <3>2
    <3> QED BY <1>7, <2>1, <3>1, <3>2
  <2>2. ASSUME NEW n \in 1 .. Len(w)
        PROVE  \E p \in 1 .. Len(m) :
                 /\ Cell(m, p, n) /\ m[p] = w[n]
                 /\ \A q \in 1 .. Len(m) : Cell(m, q, n) => q <= p
    <3>1. CASE n = k + 1
      <4>1. Cell(m, Len(l) + 1, n) /\ m[Len(l) + 1] = w[n] /\ Len(l) + 1 \in 1 .. Len(m)
        BY <1>1, <1>2, <1>4, <1>6, <3>1
      <4>2. \A q \in 1 .. Len(m) : q <= Len(l) + 1
        BY <1>1
      <4> QED BY <4>1, <4>2
    <3>2. CASE n # k + 1
      <4>1. n \in 1 .. Len(v) /\ n \in Nat
        BY <1>2, <1>3, <1>4, <3>2
      <4>2. PICK p \in 1 .. Len(l) :
              /\ Cell(l, p, n) /\ l[p] = v[n]
              /\ \A q \in 1 .. Len(l) : Cell(l, q, n) => q <= p
        BY <4>1 DEF Shown, Visible
      <4>3. p \in Nat /\ p <= Len(l) /\ p \in 1 .. Len(m)
        BY <1>1, <4>2
      <4>4. Cell(m, p, n) /\ m[p] = w[n]
        BY <1>1, <1>4, <1>7, <3>2, <4>1, <4>2, <4>3
      <4>5. ASSUME NEW q \in 1 .. Len(m), Cell(m, q, n) PROVE q <= p
        <5>1. q \in Nat /\ q <= Len(l) /\ Cell(l, q, n)
          BY <1>7, <3>2, <4>1, <4>5
        <5>2. q \in 1 .. Len(l)
          BY <5>1 DEF Cell
        <5> QED BY <4>2, <5>1, <5>2
      <4> QED BY <4>3, <4>4, <4>5
    <3> QED BY <3>1, <3>2
  <2> QED BY <2>1, <2>2 DEF Visible
<1>9. Cursor(m, k + 1)
  <2>1. k + 1 \in 0 .. Len(m) /\ Len(m) - (k + 1) = Len(l) - k
    BY <1>1, <1>2
  <2>2. k + 1 = Len(m) \/ m[Len(l) - k] = "CR"
    BY <1>1, <1>2
  <2>3. ASSUME NEW t \in (Len(l) - k) + 1 .. Len(l) + 1 PROVE m[t] # "CR"
    <3>1. CASE t = Len(l) + 1
      BY <1>1, <3>1
    <3>2. CASE t # Len(l) + 1
      <4>1. t \in (Len(l) - k) + 1 .. Len(l) /\ t \in 1 .. Len(l)
        BY <1>1, <1>2, <3>2
      <4> QED BY <1>1, <1>2, <4>1
    <3> QED BY <3>1, <3>2
  <2> QED BY <1>1, <2>1, <2>2, <2>3 DEF Cursor
<1> QED BY <1>2, <1>4, <1>8, <1>9 DEF Shown, m, d, w

\* The stroke of l that starts after position x and ends before position e.
Stroke(l, x, e) ==
  /\ x \in Nat /\ e \in 1 .. Len(l) + 1 /\ x < e
  /\ e = Len(l) + 1 \/ l[e] = "CR"
  /\ x = 0 \/ l[x] = "CR"
  /\ \A t \in x + 1 .. e - 1 : l[t] # "CR"

Ends(l) == {i \in DOMAIN l : l[i] = "CR"} \cup {Len(l) + 1}
StartOf(l, e) ==
  CHOOSE s \in {0} \cup Ends(l) : s < e /\ \A t \in {0} \cup Ends(l) : t < e => t <= s

\* A bounded set of naturals has a greatest element, and Max is it.
LEMMA MaxIsGreatest ==
  ASSUME NEW n \in Nat, NEW S \in SUBSET Nat, \A y \in S : y <= n, S # {}
  PROVE  Max(S) \in S /\ \A y \in S : Max(S) >= y
<1> DEFINE above == {n - i : i \in S}
<1>1. above \in SUBSET Nat /\ above # {}
  <2>1. \A i \in S : n - i \in Nat
    OBVIOUS
  <2>2. PICK i \in S : TRUE
    OBVIOUS
  <2>3. n - i \in above
    BY <2>2
  <2> QED BY <2>1, <2>3
<1>2. PICK z \in above : \A y \in above : z <= y
  <2> HIDE DEF above
  <2> QED BY <1>1, Least
<1>3. PICK w \in S : z = n - w
  BY <1>2
<1>4. ASSUME NEW y \in S PROVE w >= y
  <2>1. n - y \in above
    OBVIOUS
  <2>2. n - w <= n - y
    BY <1>2, <1>3, <2>1
  <2>3. w \in Nat /\ y \in Nat
    BY <1>3
  <2> QED BY <2>2, <2>3
<1> QED BY <1>3, <1>4 DEF Max

\* A stroke that ends at e starts where StartOf says, and nowhere else.
LEMMA StartIs ==
  ASSUME NEW l \in Seq(Plain), NEW e \in Ends(l)
  PROVE  /\ Stroke(l, StartOf(l, e), e)
         /\ \A x : Stroke(l, x, e) => x = StartOf(l, e)
<1> DEFINE S == {t \in {0} \cup Ends(l) : t < e}
<1>1. DOMAIN l = 1 .. Len(l) /\ Len(l) \in Nat
  OBVIOUS
<1>2. Ends(l) \subseteq 1 .. Len(l) + 1 /\ e \in 1 .. Len(l) + 1
  BY <1>1 DEF Ends
<1>3. \A t \in 1 .. Len(l) : t \in Ends(l) <=> l[t] = "CR"
  BY <1>1 DEF Ends
<1>4. e = Len(l) + 1 \/ l[e] = "CR"
  BY <1>1 DEF Ends
<1>5. S \in SUBSET Nat /\ S # {} /\ \A y \in S : y <= Len(l) + 1
  <2>1. 0 \in S
    BY <1>1, <1>2
  <2>2. \A y \in S : y \in Nat /\ y <= Len(l) + 1
    BY <1>1, <1>2
  <2> QED BY <2>1, <2>2
<1>6. PICK g \in S : \A y \in S : g >= y
  <2> HIDE DEF S
  <2>1. Len(l) + 1 \in Nat
    BY <1>1
  <2> QED BY <1>5, <2>1, MaxIsGreatest
<1>7. /\ g \in {0} \cup Ends(l) /\ g < e
      /\ \A t \in {0} \cup Ends(l) : t < e => t <= g
  BY <1>1, <1>2, <1>6
<1>8. StartOf(l, e) \in {0} \cup Ends(l) /\ StartOf(l, e) < e
      /\ \A t \in {0} \cup Ends(l) : t < e => t <= StartOf(l, e)
  BY <1>7 DEF StartOf
<1> DEFINE x0 == StartOf(l, e)
<1> HIDE DEF S, x0
<1>9. Stroke(l, x0, e)
  <2>1. x0 \in Nat /\ x0 < e /\ e \in 1 .. Len(l) + 1
    BY <1>1, <1>2, <1>8 DEF x0
  <2>2. x0 = 0 \/ l[x0] = "CR"
    <3>1. x0 # 0 => x0 \in 1 .. Len(l) /\ x0 \in Ends(l)
      BY <1>1, <1>2, <1>8, <2>1 DEF x0
    <3> QED BY <1>3, <3>1
  <2>3. ASSUME NEW t \in x0 + 1 .. e - 1 PROVE l[t] # "CR"
    <3>1. t \in 1 .. Len(l) /\ t < e /\ ~(t <= x0)
      BY <1>1, <2>1
    <3>2. t \notin Ends(l)
      BY <1>8, <3>1 DEF x0
    <3> QED BY <1>3, <3>1, <3>2
  <2> QED BY <1>4, <2>1, <2>2, <2>3 DEF Stroke
<1>10. ASSUME NEW x, Stroke(l, x, e) PROVE x = x0
  <2>1. /\ x \in Nat /\ x < e /\ (x = 0 \/ l[x] = "CR")
        /\ \A t \in x + 1 .. e - 1 : l[t] # "CR"
    BY <1>10 DEF Stroke
  <2>2. /\ x0 \in Nat /\ x0 < e /\ (x0 = 0 \/ l[x0] = "CR")
        /\ \A t \in x0 + 1 .. e - 1 : l[t] # "CR"
    BY <1>9 DEF Stroke
  <2>3. ~(x < x0)
    <3>1. x < x0 => x0 \in x + 1 .. e - 1 /\ x0 # 0
      BY <1>1, <1>2, <2>1, <2>2
    <3> QED BY <2>1, <2>2, <3>1
  <2>4. ~(x0 < x)
    <3>1. x0 < x => x \in x0 + 1 .. e - 1 /\ x # 0
      BY <1>1, <1>2, <2>1, <2>2
    <3> QED BY <2>1, <2>2, <3>1
  <2> QED BY <2>1, <2>2, <2>3, <2>4
<1> QED BY <1>9, <1>10 DEF x0

\* Strokes() are the strokes, each with its text.
LEMMA StrokesAre ==
  ASSUME NEW l \in Seq(Plain)
  PROVE  /\ \A s \in Strokes(l) : \E x, e \in Nat :
              Stroke(l, x, e) /\ s = [at |-> e, text |-> SubSeq(l, x + 1, e - 1)]
         /\ \A x, e \in Nat :
              Stroke(l, x, e) => [at |-> e, text |-> SubSeq(l, x + 1, e - 1)] \in Strokes(l)
<1>1. Strokes(l) = {[at |-> e, text |-> SubSeq(l, StartOf(l, e) + 1, e - 1)] : e \in Ends(l)}
  BY DEF Strokes, StartOf, Ends
<1>2. ASSUME NEW s \in Strokes(l)
      PROVE  \E x, e \in Nat :
               Stroke(l, x, e) /\ s = [at |-> e, text |-> SubSeq(l, x + 1, e - 1)]
  <2>1. PICK e \in Ends(l) : s = [at |-> e, text |-> SubSeq(l, StartOf(l, e) + 1, e - 1)]
    BY <1>1
  <2>2. Stroke(l, StartOf(l, e), e)
    BY <2>1, StartIs
  <2>3. StartOf(l, e) \in Nat /\ e \in Nat
    BY <2>2 DEF Stroke
  <2> QED BY <2>1, <2>2, <2>3
<1>3. ASSUME NEW x \in Nat, NEW e \in Nat, Stroke(l, x, e)
      PROVE  [at |-> e, text |-> SubSeq(l, x + 1, e - 1)] \in Strokes(l)
  <2>1. e \in Ends(l)
    <3>1. DOMAIN l = 1 .. Len(l) /\ Len(l) \in Nat
      OBVIOUS
    <3> QED BY <1>3, <3>1 DEF Stroke, Ends
  <2>2. x = StartOf(l, e)
    BY <1>3, <2>1, StartIs
  <2> QED BY <1>1, <2>1, <2>2
<1> QED BY <1>2, <1>3

\* The column of a stroke's character.
LEMMA StrokeText ==
  ASSUME NEW l \in Seq(Plain), NEW x \in Nat, NEW e \in Nat, Stroke(l, x, e)
  PROVE  LET text == SubSeq(l, x + 1, e - 1)
         IN /\ Len(text) = (e - 1) - x
            /\ \A n \in 1 .. (e - 1) - x : text[n] = l[x + n] /\ Cell(l, x + n, n)
<1>1. /\ e \in 1 .. Len(l) + 1 /\ x < e /\ Len(l) \in Nat
      /\ x = 0 \/ l[x] = "CR"
      /\ \A t \in x + 1 .. e - 1 : l[t] # "CR"
  BY DEF Stroke
<1> DEFINE text == SubSeq(l, x + 1, e - 1)
<1>2. Len(text) = (e - 1) - x /\ \A n \in 1 .. (e - 1) - x : text[n] = l[x + n]
  <2>1. x + 1 \in Int /\ e - 1 \in Int /\ \A i \in x + 1 .. e - 1 : l[i] \in Plain
    BY <1>1
  <2> QED BY <1>1, <2>1
<1>3. ASSUME NEW n \in 1 .. (e - 1) - x PROVE Cell(l, x + n, n)
  <2>1. /\ x + n \in 1 .. Len(l) /\ n \in 1 .. x + n /\ (x + n) - n = x
        /\ (x + n = n) <=> x = 0
    BY <1>1
  <2>2. \A t \in x + 1 .. x + n : t \in x + 1 .. e - 1
    BY <1>1
  <2> QED BY <1>1, <2>1, <2>2 DEF Cell
<1> QED BY <1>2, <1>3

\* A line that shows each column's latest character is what Displays wants.
LEMMA VisibleDisplays ==
  ASSUME NEW l \in Seq(Plain), NEW v \in Seq(Plain), Visible(l, v)
  PROVE  Displays(l, v)
<1> DEFINE over(n) == {s \in Strokes(l) : Len(s.text) >= n}
<1>1. Len(v) \in Nat /\ Len(l) \in Nat /\ DOMAIN v = 1 .. Len(v)
  OBVIOUS
<1>2. over(Len(v) + 1) = {}
  <2> SUFFICES ASSUME NEW s \in Strokes(l), Len(s.text) >= Len(v) + 1 PROVE FALSE
    OBVIOUS
  <2>1. PICK x, e \in Nat : Stroke(l, x, e) /\ s = [at |-> e, text |-> SubSeq(l, x + 1, e - 1)]
    BY StrokesAre
  <2> DEFINE n == Len(v) + 1
  <2>2. n \in 1 .. (e - 1) - x
    BY <1>1, <2>1, StrokeText
  <2>3. Cell(l, x + n, n)
    <3> HIDE DEF n
    <3> QED BY <2>1, <2>2, StrokeText
  <2>4. n \in Nat /\ x + n \in Nat /\ ~(n <= Len(v))
    BY <1>1
  <2> HIDE DEF n
  <2> QED BY <2>3, <2>4 DEF Visible
<1>3. ASSUME NEW n \in 1 .. Len(v)
      PROVE  \E s \in over(n) : s.text[n] = v[n] /\ \A t \in over(n) : t.at <= s.at
  <2>1. PICK p \in 1 .. Len(l) :
          /\ Cell(l, p, n) /\ l[p] = v[n]
          /\ \A q \in 1 .. Len(l) : Cell(l, q, n) => q <= p
    BY DEF Visible
  <2>2. /\ n \in 1 .. p /\ p \in Nat /\ n \in Nat
        /\ p = n \/ l[p - n] = "CR"
        /\ \A t \in (p - n) + 1 .. p : l[t] # "CR"
    BY <2>1 DEF Cell
  <2> DEFINE after == {i \in 1 .. Len(l) : i > p /\ l[i] = "CR"} \cup {Len(l) + 1}
  <2>3. PICK e \in after : \A y \in after : e <= y
    <3>1. after \in SUBSET Nat /\ after # {}
      BY <1>1
    <3> HIDE DEF after
    <3> QED BY <3>1, Least
  <2>4. e \in 1 .. Len(l) + 1 /\ e > p /\ (e = Len(l) + 1 \/ l[e] = "CR")
    BY <1>1, <2>1, <2>3
  <2>5. ASSUME NEW t \in p + 1 .. e - 1 PROVE l[t] # "CR"
    <3>1. t \in 1 .. Len(l) /\ t > p /\ ~(e <= t)
      BY <1>1, <2>2, <2>4
    <3> QED BY <2>3, <3>1
  <2> DEFINE x == p - n
  <2>6. Stroke(l, x, e)
    <3>1. x \in Nat /\ x < e /\ (x = 0 <=> p = n)
      BY <1>1, <2>2, <2>4
    <3>2. ASSUME NEW t \in x + 1 .. e - 1 PROVE l[t] # "CR"
      <4>1. t \in (p - n) + 1 .. p \/ t \in p + 1 .. e - 1
        BY <1>1, <2>2, <2>4
      <4> QED BY <2>2, <2>5, <4>1
    <3> QED BY <2>2, <2>4, <3>1, <3>2 DEF Stroke
  <2>7. x \in Nat /\ e \in Nat /\ x + n = p /\ n \in 1 .. (e - 1) - x
    BY <1>1, <2>2, <2>4
  <2> HIDE DEF x, after
  <2> DEFINE s == [at |-> e, text |-> SubSeq(l, x + 1, e - 1)]
  <2>8. s \in Strokes(l)
    BY <2>6, <2>7, StrokesAre
  <2>9. Len(s.text) >= n /\ s.text[n] = v[n]
    BY <2>1, <2>2, <2>6, <2>7, StrokeText
  <2>10. ASSUME NEW u \in over(n) PROVE u.at <= s.at
    <3>1. PICK x2, e2 \in Nat :
            Stroke(l, x2, e2) /\ u = [at |-> e2, text |-> SubSeq(l, x2 + 1, e2 - 1)]
      BY StrokesAre
    <3>2. n \in 1 .. (e2 - 1) - x2
      BY <2>2, <3>1, StrokeText
    <3>3. Cell(l, x2 + n, n)
      BY <3>1, <3>2, StrokeText
    <3>4. x2 + n <= p
      BY <2>1, <3>3 DEF Cell
    <3>5. ~(e2 > e)
      <4> SUFFICES ASSUME e2 > e PROVE FALSE
        OBVIOUS
      <4>1. e2 \in 1 .. Len(l) + 1 /\ \A t \in x2 + 1 .. e2 - 1 : l[t] # "CR"
        BY <3>1 DEF Stroke
      <4>2. e \in x2 + 1 .. e2 - 1 /\ e # Len(l) + 1
        BY <1>1, <2>2, <2>4, <2>7, <3>1, <3>4, <4>1
      <4> QED BY <2>4, <4>1, <4>2
    <3> QED BY <2>7, <3>1, <3>5
  <2> HIDE DEF s
  <2> QED BY <2>8, <2>9, <2>10
<1> HIDE DEF over
<1>4. Displays(l, v) <=>
        /\ over(Len(v) + 1) = {}
        /\ \A n \in DOMAIN v :
             \E s \in over(n) : s.text[n] = v[n] /\ \A t \in over(n) : t.at <= s.at
  BY DEF Displays, over
<1> QED BY <1>1, <1>2, <1>3, <1>4

-----------------------------------------------------------------------------
(* The display line.                                                       *)

\* What LastLF(t) is.
IsLastLF(t, n) ==
  /\ n \in 0 .. Len(t)
  /\ n = 0 \/ t[n] = "LF"
  /\ \A i \in n + 1 .. Len(t) : t[i] # "LF"

\* LastLF is the position of the last line feed.
LEMMA LastLFIs ==
  ASSUME NEW C, NEW t \in Seq(C)
  PROVE  IsLastLF(t, LastLF(t)) /\ \A n : IsLastLF(t, n) => n = LastLF(t)
<1> DEFINE I == {i \in 1 .. Len(t) : t[i] = "LF"}
           m == LastLF(t)
<1>1. m = IF I # {} THEN Max(I) ELSE 0
  BY DEF LastLF, SelectLastInSeq
<1>2. Len(t) \in Nat /\ I \in SUBSET Nat /\ \A y \in I : y <= Len(t)
  <2>1. Len(t) \in Nat
    OBVIOUS
  <2> QED BY <2>1
<1>3. IsLastLF(t, m)
  <2>1. CASE I = {}
    <3>1. m = 0
      BY <1>1, <2>1
    <3>2. \A i \in 1 .. Len(t) : t[i] # "LF"
      BY <2>1
    <3> HIDE DEF I, m
    <3> QED BY <1>2, <3>1, <3>2 DEF IsLastLF
  <2>2. CASE I # {}
    <3>1. m \in I /\ \A y \in I : m >= y
      <4> HIDE DEF I, m
      <4> QED BY <1>1, <1>2, <2>2, MaxIsGreatest
    <3>2. m \in 1 .. Len(t) /\ t[m] = "LF"
      BY <3>1
    <3>3. ASSUME NEW i \in m + 1 .. Len(t) PROVE t[i] # "LF"
      <4>1. i \in 1 .. Len(t) /\ ~(m >= i)
        BY <1>2, <3>2
      <4> HIDE DEF m
      <4> QED BY <3>1, <4>1
    <3> HIDE DEF m, I
    <3> QED BY <1>2, <3>2, <3>3 DEF IsLastLF
  <2> QED BY <2>1, <2>2
<1> HIDE DEF I, m
<1>4. ASSUME NEW n, IsLastLF(t, n) PROVE n = m
  <2>1. n \in Nat /\ m \in Nat /\ n <= Len(t) /\ m <= Len(t)
    BY <1>2, <1>3, <1>4 DEF IsLastLF
  <2>2. n < m => m \in n + 1 .. Len(t) /\ m # 0
    BY <1>2, <2>1
  <2>3. m < n => n \in m + 1 .. Len(t) /\ n # 0
    BY <1>2, <2>1
  <2>4. ~(n < m) /\ ~(m < n)
    BY <1>3, <1>4, <2>2, <2>3 DEF IsLastLF
  <2> QED BY <2>1, <2>4
<1> QED BY <1>3, <1>4 DEF m

\* Text without an LF goes on the last line.
LEMMA LastLineGoesOn ==
  ASSUME NEW t \in Seq(Plain), NEW u \in Seq(Plain), \A i \in 1 .. Len(u) : u[i] # "LF"
  PROVE  LastLine(t) \in Seq(Plain) /\ LastLine(t \o u) = LastLine(t) \o u
<1> DEFINE n == LastLF(t)
           w == t \o u
<1>1. IsLastLF(t, n)
  BY LastLFIs
<1>2. /\ Len(t) \in Nat /\ Len(u) \in Nat /\ Len(w) = Len(t) + Len(u) /\ w \in Seq(Plain)
      /\ \A i \in 1 .. Len(t) : w[i] = t[i]
      /\ \A i \in 1 .. Len(u) : w[Len(t) + i] = u[i]
  OBVIOUS
<1> HIDE DEF n, w
<1>3. /\ n \in Nat /\ n <= Len(t)
      /\ n = 0 \/ t[n] = "LF"
      /\ \A i \in n + 1 .. Len(t) : t[i] # "LF"
  BY <1>1, <1>2 DEF IsLastLF
<1>4. IsLastLF(w, n)
  <2>1. n \in 0 .. Len(w)
    BY <1>2, <1>3
  <2>2. n # 0 => n \in 1 .. Len(t)
    BY <1>3
  <2>3. ASSUME NEW i \in n + 1 .. Len(w) PROVE w[i] # "LF"
    <3>1. CASE i <= Len(t)
      <4>1. i \in n + 1 .. Len(t) /\ i \in 1 .. Len(t)
        BY <1>2, <1>3, <3>1
      <4> QED BY <1>2, <1>3, <4>1
    <3>2. CASE i > Len(t)
      <4>1. i - Len(t) \in 1 .. Len(u) /\ Len(t) + (i - Len(t)) = i
        BY <1>2, <1>3, <3>2
      <4>2. w[i] = u[i - Len(t)]
        BY <1>2, <4>1
      <4> QED BY <4>1, <4>2
    <3> QED BY <1>2, <1>3, <3>1, <3>2
  <2> QED BY <1>2, <1>3, <2>1, <2>2, <2>3 DEF IsLastLF
<1>5. LastLF(w) = n
  BY <1>2, <1>4, LastLFIs
<1> DEFINE x == SubSeq(t, n + 1, Len(t))
           y == SubSeq(w, n + 1, Len(w))
<1>6. x = LastLine(t) /\ y = LastLine(w)
  BY <1>5 DEF LastLine, n
<1>7. x \in Seq(Plain) /\ Len(x) = Len(t) - n /\ \A i \in 1 .. Len(t) - n : x[i] = t[n + i]
  BY <1>2, <1>3
<1>8. y \in Seq(Plain) /\ Len(y) = Len(w) - n /\ \A i \in 1 .. Len(w) - n : y[i] = w[n + i]
  BY <1>2, <1>3
<1> HIDE DEF x, y
<1>9. y = x \o u
  <2> DEFINE z == x \o u
  <2>1. /\ z \in Seq(Plain) /\ Len(z) = Len(x) + Len(u)
        /\ \A i \in 1 .. Len(x) : z[i] = x[i]
        /\ \A i \in 1 .. Len(u) : z[Len(x) + i] = u[i]
    <3>1. x \in Seq(Plain) /\ u \in Seq(Plain)
      BY <1>7
    <3> QED BY ONLY <3>1 DEF z
  <2> HIDE DEF z
  <2>2. Len(y) = Len(z)
    BY <1>2, <1>3, <1>7, <1>8, <2>1
  <2>3. ASSUME NEW i \in 1 .. Len(y) PROVE y[i] = z[i]
    <3>1. CASE i <= Len(x)
      <4>1. i \in 1 .. Len(t) - n /\ n + i \in 1 .. Len(t) /\ i \in 1 .. Len(x) /\ i \in 1 .. Len(w) - n
        BY <1>2, <1>3, <1>7, <1>8, <3>1
      <4> QED BY <1>2, <1>7, <1>8, <2>1, <4>1
    <3>2. CASE i > Len(x)
      <4> DEFINE j == i - Len(x)
      <4>1. j \in 1 .. Len(u) /\ Len(x) + j = i /\ n + i = Len(t) + j /\ i \in 1 .. Len(w) - n
        BY <1>2, <1>3, <1>7, <1>8, <3>2
      <4> HIDE DEF j
      <4>2. y[i] = w[Len(t) + j]
        BY <1>8, <4>1
      <4>3. w[Len(t) + j] = u[j]
        BY <1>2, <4>1
      <4>4. z[i] = u[j]
        BY <2>1, <4>1
      <4> QED BY <4>2, <4>3, <4>4
    <3> QED BY <1>7, <1>8, <3>1, <3>2
  <2> QED BY <1>8, <2>1, <2>2, <2>3, SeqEqual DEF z
<1> QED BY <1>6, <1>7, <1>9 DEF w

\* After a line feed the last line is empty.
LEMMA LastLineEnds ==
  ASSUME NEW t \in Seq(Plain)
  PROVE  LastLine(Append(t, "LF")) = <<>>
<1> DEFINE w == Append(t, "LF")
           n == Len(t) + 1
<1>1. "LF" \in Plain
  BY DEF Plain, Chars, Kinds
<1>2. w \in Seq(Plain) /\ Len(w) = n /\ w[n] = "LF" /\ n \in Nat /\ n > 0
  BY <1>1
<1> HIDE DEF w, n
<1>3. IsLastLF(w, n)
  BY <1>2 DEF IsLastLF
<1>4. LastLF(w) = n
  BY <1>2, <1>3, LastLFIs
<1>5. LastLine(w) = SubSeq(w, n + 1, n)
  BY <1>2, <1>4 DEF LastLine
<1>6. SubSeq(w, n + 1, n) = <<>>
  BY <1>2
<1> QED BY <1>5, <1>6 DEF w

\* line and col are what a terminal makes of the last line.
Showing == {a \in Accumulators : Shown(LastLine(a.parts), a.line, a.col)}

\* A character appended keeps the display and the text in step.
LEMMA AppendKeepsShowing ==
  \A v \in Showing, c \in Plain : AppendChar(v, c) \in Showing
<1> SUFFICES ASSUME NEW v \in Showing, NEW c \in Plain PROVE AppendChar(v, c) \in Showing
  OBVIOUS
<1> DEFINE w == AppendChar(v, c)
<1>1. /\ v \in Accumulators /\ Shown(LastLine(v.parts), v.line, v.col)
      /\ v.parts \in Seq(Plain) /\ v.line \in Seq(Plain) /\ v.crs \in Nat
  BY DEF Showing, Accumulators
<1>2. w \in Accumulators /\ Appends(v, c, w)
  BY <1>1, AppendCloses, AppendCharIs
<1> HIDE DEF w
<1>3. Shown(LastLine(w.parts), w.line, w.col)
  <2>1. CASE c = "CR"
    BY <1>1, <1>2, <2>1 DEF Appends
  <2>2. CASE c = "LF"
    <3>1. w.parts = Append(v.parts, "LF") /\ w.line = <<>> /\ w.col = 0
      BY <1>2, <2>2 DEF Appends
    <3>2. LastLine(Append(v.parts, "LF")) = <<>>
      BY <1>1, LastLineEnds
    <3> QED BY <3>1, <3>2, ShownNothing
  <2>3. CASE c \notin LineEnds
    <3> DEFINE l == LastLine(v.parts)
               r == Repeat("CR", v.crs)
               k == IF v.crs = 0 THEN v.col ELSE 0
               d == WriteDisplay([line |-> v.line, col |-> k], c)
               m == l \o r
    <3>1. /\ w.parts = Append(v.parts \o r, c)
          /\ w.line = d.line /\ w.col = d.col
      BY <1>2, <2>3 DEF Appends
    <3>2. c # "CR" /\ c # "LF"
      BY <2>3 DEF LineEnds
    <3>3. r \in Seq(Plain) /\ \A i \in 1 .. Len(r) : r[i] # "LF"
      BY <1>1, RepeatIs
    <3> HIDE DEF r
    <3>4. l \in Seq(Plain) /\ LastLine(v.parts \o r) = m
      BY <1>1, <3>3, LastLineGoesOn
    <3> HIDE DEF l, k
    <3>5. m \in Seq(Plain) /\ Shown(m, v.line, k)
      BY SMTT(20), <1>1, <3>3, <3>4, ShownCrs DEF k, r, l
    <3>6. Shown(Append(m, c), d.line, d.col)
      <4> HIDE DEF m
      <4> QED BY <1>1, <3>2, <3>5, ShownChar
    <3> DEFINE p == v.parts \o r
               u == <<c>>
    <3>7. /\ p \in Seq(Plain) /\ u \in Seq(Plain) /\ \A i \in 1 .. Len(u) : u[i] # "LF"
          /\ Append(p, c) = p \o u
      BY <1>1, <3>2, <3>3
    <3>8. Append(m, c) = m \o u
      <4> HIDE DEF m
      <4> QED BY <3>5
    <3> HIDE DEF p, u, m, d
    <3>9. LastLine(p \o u) = m \o u
      BY <3>4, <3>7, LastLineGoesOn DEF p
    <3> QED BY <3>1, <3>6, <3>7, <3>8, <3>9 DEF p
  <2> QED BY <2>1, <2>2, <2>3 DEF LineEnds
<1> QED BY <1>2, <1>3 DEF w, Showing

\* So does a chunk pushed.
LEMMA PushedShows ==
  ASSUME NEW a \in Showing, NEW chunk \in Seq(Chars)
  PROVE  Pushed(a, chunk) \in Showing
<1>1. a \in Accumulators
  BY DEF Showing
<1>2. PICK p \in BOOLEAN, m \in AnsiStates, out \in Seq(Plain) :
        /\ Pushed(a, chunk) \in Accumulators
        /\ Pushed(a, chunk) = With(AppendAll(a, out), p, m)
  <2> DEFINE d == DecodeAll([partial |-> a.partial, text |-> <<>>], chunk)
             s == StripAll([ansi |-> a.ansi, out |-> <<>>], d.text)
  <2>1. /\ d \in Decodings /\ s \in Strippings /\ Pushed(a, chunk) \in Accumulators
        /\ Pushed(a, chunk) = With(AppendAll(a, s.out), d.partial, s.ansi)
    BY <1>1, PushedIs
  <2> HIDE DEF d, s
  <2>2. d.partial \in BOOLEAN /\ s.ansi \in AnsiStates /\ s.out \in Seq(Plain)
    BY <2>1 DEF Decodings, Strippings
  <2> QED BY <2>1, <2>2
<1>3. AppendAll(a, out) \in Showing
  BY <1>2, AppendKeepsShowing, AppendFold
<1> DEFINE b == AppendAll(a, out)
<1> HIDE DEF b
<1>4. With(b, p, m).parts = b.parts /\ With(b, p, m).line = b.line /\ With(b, p, m).col = b.col
  BY <1>3 DEF With, Showing, Accumulators, b
<1> QED BY <1>2, <1>3, <1>4 DEF Showing, b

\* The snapshot's last line, displayed, is the line.
LEMMA LineShows ==
  ASSUME NEW a \in Showing, ~a.partial
  PROVE  /\ LastLine(Snapshot(a)) \in Seq(Plain) /\ a.line \in Seq(Plain)
         /\ Visible(LastLine(Snapshot(a)), a.line)
<1>1. /\ a \in Accumulators /\ Shown(LastLine(a.parts), a.line, a.col)
      /\ a.parts \in Seq(Plain) /\ a.line \in Seq(Plain) /\ a.crs \in Nat
      /\ a.ansi \in AnsiStates /\ a.partial = FALSE
  BY DEF Showing, Accumulators
<1> DEFINE none == <<>>
           s0 == [ansi |-> a.ansi, out |-> none]
<1>2. none \in Seq(Chars) /\ none \in Seq(Plain) /\ Len(none) = 0
  OBVIOUS
<1>3. s0 \in Strippings /\ s0.out = none /\ s0.ansi = a.ansi
  BY <1>1, <1>2 DEF Strippings
<1> HIDE DEF none
<1>4. StripAll(s0, none) = s0
  <2> HIDE DEF s0
  <2> QED BY <1>2, <1>3, StripCloses, StripNothing
<1>5. AppendAll(a, none) = a
  BY <1>1, <1>2, AppendCloses, AppendNothing
<1>6. [a EXCEPT !.partial = FALSE] = a /\ With(a, FALSE, a.ansi) = a
  BY <1>1 DEF Accumulators, With
<1>7. Ingest(a, none) = a
  <2>1. [ansi |-> a.ansi, out |-> <<>>] = s0
    BY DEF none
  <2> HIDE DEF s0
  <2>2. Ingest([a EXCEPT !.partial = FALSE], none) = With(AppendAll(a, s0.out), FALSE, s0.ansi)
    BY ZenonT(40), <1>1, <1>2, <1>4, <2>1, IngestIs
  <2> QED BY <1>3, <1>5, <1>6, <2>2
<1>8. Snapshot(a) = a.parts \o Repeat("CR", a.crs)
  <2>1. DecoderEnd(a.partial) = none
    BY <1>1 DEF DecoderEnd, none
  <2> QED BY <1>7, <2>1 DEF Snapshot
<1> DEFINE r == Repeat("CR", a.crs)
           l == LastLine(a.parts)
<1>9. r \in Seq(Plain) /\ \A i \in 1 .. Len(r) : r[i] # "LF"
  BY <1>1, RepeatIs
<1> HIDE DEF r
<1>10. l \in Seq(Plain) /\ LastLine(a.parts \o r) = l \o r
  BY <1>1, <1>9, LastLineGoesOn
<1> HIDE DEF l
<1>11. Visible(l \o r, a.line)
  BY <1>1, <1>10, ShownCrs DEF Shown, r, l
<1>12. l \o r \in Seq(Plain)
  BY <1>9, <1>10
<1> QED BY <1>1, <1>8, <1>10, <1>11, <1>12 DEF r

\* Every accumulator that was fed from clear() on is one of them.
LEMMA ResponseShows ==
  ASSUME ResponseInv
  PROVE  acc \in Showing
<1>1. Fresh \in Showing
  <2>1. LastLine(<<>>) = <<>>
    BY DEF LastLine, LastLF, SelectLastInSeq
  <2>2. Fresh.parts = <<>> /\ Fresh.line = <<>> /\ Fresh.col = 0
    BY DEF Fresh
  <2> QED BY <2>1, <2>2, FreshIs, ShownNothing DEF Showing
<1>2. input \in Seq(Chars) /\ acc = Pushed(Fresh, input)
  BY DEF ResponseInv, ChunksDoNotMatter
<1> QED BY <1>1, <1>2, PushedShows

\* currentLine() is what a terminal would show on the last line of
\* snapshot(), whatever was overwritten and however the chunks were cut.
THEOREM LineDisplayed == ResponseSpec => []LineIsDisplayed
<1>1. ResponseInv => LineIsDisplayed
  <2> SUFFICES ASSUME ResponseInv, ~acc.partial
               PROVE  Displays(LastLine(Snapshot(acc)), acc.line)
    BY DEF LineIsDisplayed
  <2> QED BY ResponseShows, LineShows, VisibleDisplays
<1> QED BY <1>1, ResponseInvariance, PTL

-----------------------------------------------------------------------------
(* The second pass: cleanOutput strips and collapses the snapshot again.   *)

CollapseAll(b, s) == FoldLeft(CollapseChar, b, s)
CollapseStep(V, C) == [x \in V \X C |-> CollapseChar(x[1], x[2])]

\* The fold of CollapseChar is the last state of a run of it.
LEMMA CollapseRun ==
  ASSUME NEW V, NEW C, \A v \in V, c \in C : CollapseChar(v, c) \in V,
         NEW b \in V, NEW s \in Seq(C)
  PROVE  \E r \in Runs(CollapseStep(V, C), V, b, s) : CollapseAll(b, s) = r[Len(s)]
<1> DEFINE F == CollapseStep(V, C)
           D == SUBSET (1 .. Len(s))
           P(i) == i = [S \in D |-> IF S = {} THEN b
                                    ELSE CollapseChar(i[S \ {Max(S)}], s[Max(S)])]
           i == CHOOSE x : P(x)
<1>1. IsStep(F, V, C) /\ \A v \in V, c \in C : F[<<v, c>>] = CollapseChar(v, c)
  BY DEF CollapseStep, IsStep
<1> HIDE DEF F
<1>2. \E x : P(x)
  <2> HIDE DEF P
  <2>1. PICK x : FoldsOver(x, Len(s), F, V, b, s)
    BY <1>1, FoldIsDefined
  <2>2. x[{}] = b /\ x = [S \in D |-> x[S]]
    BY <2>1 DEF FoldsOver, D
  <2>3. ASSUME NEW S \in D, S # {}
        PROVE  x[S] = CollapseChar(x[S \ {Max(S)}], s[Max(S)])
    <3>1. /\ Max(S) \in 1 .. Len(s)
          /\ S \ {Max(S)} \in D
          /\ x[S] = F[<<x[S \ {Max(S)}], s[Max(S)]>>]
      BY <2>1, <2>3 DEF FoldsOver, D
    <3>2. x[S \ {Max(S)}] \in V /\ s[Max(S)] \in C
      BY <2>1, <3>1 DEF FoldsOver, D
    <3> QED BY <3>1, <3>2, <1>1
  <2> HIDE DEF D
  <2>4. P(x)
    BY <2>2, <2>3 DEF P
  <2> QED BY <2>4
<1>3. P(i)
  BY <1>2
<1>4. CollapseAll(b, s) = i[1 .. Len(s)]
  <2>1. DOMAIN s = 1 .. Len(s)
    OBVIOUS
  <2> QED BY <2>1 DEF CollapseAll, FoldLeft, MapThenFoldSet
<1> HIDE DEF i
<1>5. i[{}] = b
  <2>1. {} \in D
    OBVIOUS
  <2> HIDE DEF D
  <2> QED BY <1>3, <2>1
<1>6. ASSUME NEW S \in D, S # {}, i[S \ {Max(S)}] \in V, s[Max(S)] \in C
      PROVE  i[S] = F[<<i[S \ {Max(S)}], s[Max(S)]>>]
  <2> HIDE DEF D
  <2>1. i[S] = CollapseChar(i[S \ {Max(S)}], s[Max(S)])
    BY <1>3, <1>6
  <2> QED BY <2>1, <1>1, <1>6
<1>7. \E r \in Runs(F, V, b, s) : i[1 .. Len(s)] = r[Len(s)]
  <2> HIDE DEF P
  <2>1. FollowsFold(i, F, V, C, b, s)
    BY <1>5, <1>6 DEF FollowsFold
  <2> HIDE DEF D
  <2> QED BY <1>1, <2>1, FoldIsRun
<1> QED BY <1>4, <1>7 DEF F

\* So the fold is in V, and every run of the step ends in it.
LEMMA CollapseFold ==
  ASSUME NEW V, NEW C, \A v \in V, c \in C : CollapseChar(v, c) \in V,
         NEW b \in V, NEW s \in Seq(C)
  PROVE  /\ CollapseAll(b, s) \in V
         /\ \A q \in Runs(CollapseStep(V, C), V, b, s) : q[Len(s)] = CollapseAll(b, s)
<1>1. IsStep(CollapseStep(V, C), V, C)
  BY DEF CollapseStep, IsStep
<1>2. PICK r \in Runs(CollapseStep(V, C), V, b, s) : CollapseAll(b, s) = r[Len(s)]
  BY CollapseRun
<1>3. r[Len(s)] \in V
  BY DEF Runs
<1>4. ASSUME NEW q \in Runs(CollapseStep(V, C), V, b, s) PROVE q[Len(s)] = r[Len(s)]
  BY <1>1, <1>2, RunsAgree
<1> QED BY <1>2, <1>3, <1>4

\* The states of the collapse.
Collapsings == [out : Seq(Plain), crs : Nat]

\* The text of which collapseCrLf has decided on all but the CRs at its end.
Held(v) == v.out \o Repeat("CR", v.crs)

\* Only an LF after CRs does not go through as it is.
LEMMA CollapseCharIs ==
  ASSUME NEW v \in Collapsings, NEW c \in Plain
  PROVE  LET w == CollapseChar(v, c)
         IN /\ w \in Collapsings
            /\ w.crs > 0 => c = "CR"
            /\ (c = "LF" => v.crs = 0) => Held(w) = Append(Held(v), c)
<1> DEFINE rep == Repeat("CR", v.crs)
           w == CollapseChar(v, c)
<1>1. v = [out |-> v.out, crs |-> v.crs] /\ v.out \in Seq(Plain) /\ v.crs \in Nat
  BY DEF Collapsings
<1>2. rep \in Seq(Plain) /\ Len(rep) = v.crs /\ \A i \in 1 .. v.crs : rep[i] = "CR"
  BY <1>1, RepeatIs
<1>3. Append(v.out \o rep, c) = v.out \o Append(rep, c)
  BY <1>1, <1>2, AppendAssociates DEF PlainTexts
<1>4. CASE c = "CR"
  <2> DEFINE more == Repeat("CR", v.crs + 1)
  <2>1. w = [out |-> v.out, crs |-> v.crs + 1]
    BY <1>1, <1>4 DEF CollapseChar
  <2>2. /\ more \in Seq(Plain) /\ Len(more) = v.crs + 1
        /\ \A i \in 1 .. v.crs + 1 : more[i] = "CR"
    BY <1>1, RepeatIs
  <2> HIDE DEF more, rep
  <2>3. more = Append(rep, c)
    <3>1. Append(rep, c) \in Seq(Plain) /\ Len(Append(rep, c)) = v.crs + 1
      BY <1>2
    <3>2. \A i \in 1 .. v.crs + 1 : Append(rep, c)[i] = "CR"
      BY <1>1, <1>2, <1>4
    <3> QED BY <2>2, <3>1, <3>2, SeqEqual
  <2>4. w \in Collapsings
    BY <1>1, <2>1 DEF Collapsings
  <2>5. Held(w) = Append(Held(v), c)
    <3>1. w.out = v.out /\ Repeat("CR", w.crs) = more
      BY <2>1 DEF more
    <3>2. Held(w) = v.out \o more
      BY <3>1 DEF Held
    <3>3. Held(v) = v.out \o rep
      BY DEF Held, rep
    <3> QED BY <1>3, <2>3, <3>2, <3>3
  <2> QED BY <1>4, <2>4, <2>5
<1>5. CASE c = "LF"
  <2>1. w = [out |-> Append(v.out, c), crs |-> 0]
    BY <1>5 DEF CollapseChar
  <2>2. Append(v.out, c) \in Seq(Plain)
    BY <1>1
  <2>3. w \in Collapsings /\ w.crs = 0
    BY <2>1, <2>2 DEF Collapsings
  <2>4. ASSUME v.crs = 0 PROVE Held(w) = Append(Held(v), c)
    BY <1>1, <2>1, <2>2, <2>4, NoCrs DEF Held
  <2> HIDE DEF w
  <2> QED BY <1>5, <2>3, <2>4 DEF w
<1>6. CASE c # "CR" /\ c # "LF"
  <2>1. w = [out |-> v.out \o Append(rep, c), crs |-> 0]
    BY <1>6 DEF CollapseChar
  <2> HIDE DEF rep, w
  <2>2. v.out \o Append(rep, c) \in Seq(Plain)
    BY <1>1, <1>2
  <2>3. w \in Collapsings /\ w.crs = 0
    BY <2>1, <2>2 DEF Collapsings
  <2>4. Held(w) = Append(Held(v), c)
    <3>1. w.out = v.out \o Append(rep, c) /\ w.crs = 0
      BY <2>1
    <3>2. Held(w) = v.out \o Append(rep, c)
      BY <2>2, <3>1, NoCrs DEF Held
    <3>3. Held(v) = v.out \o rep
      BY DEF Held, rep
    <3> QED BY <1>3, <3>2, <3>3
  <2> QED BY <2>3, <2>4 DEF w
<1> QED BY <1>4, <1>5, <1>6

\* A text without a CR before an LF is left as it is.
LEMMA NothingToCollapse ==
  ASSUME NEW s \in Seq(Plain),
         \A i \in DOMAIN s : s[i] = "CR" /\ i < Len(s) => s[i + 1] # "LF"
  PROVE  CollapseCrLf(s) = s
<1> DEFINE b == [out |-> <<>>, crs |-> 0]
           F == CollapseStep(Collapsings, Plain)
<1>1. Len(s) \in Nat /\ b \in Collapsings
  BY DEF Collapsings
<1>2. /\ \A v \in Collapsings, c \in Plain : CollapseChar(v, c) \in Collapsings
      /\ \A v \in Collapsings, c \in Plain : F[<<v, c>>] = CollapseChar(v, c)
  BY CollapseCharIs DEF CollapseStep
<1> HIDE DEF b, F
<1>3. PICK r \in Runs(F, Collapsings, b, s) : CollapseAll(b, s) = r[Len(s)]
  BY <1>1, <1>2, CollapseRun DEF F
<1>4. /\ r \in [0 .. Len(s) -> Collapsings] /\ r[0] = b
      /\ \A k \in 1 .. Len(s) : r[k] = F[<<r[k - 1], s[k]>>]
  BY DEF Runs
<1> DEFINE T == {n \in Nat : n <= Len(s) => /\ Held(r[n]) = SubSeq(s, 1, n)
                                            /\ r[n].crs > 0 => n > 0 /\ s[n] = "CR"}
<1>5. 0 \in T
  <2>1. <<>> \o Repeat("CR", 0) = <<>>
    <3>1. <<>> \in Seq(Plain)
      OBVIOUS
    <3> QED BY <3>1, NoCrs
  <2>2. SubSeq(s, 1, 0) = <<>>
    BY <1>1
  <2> QED BY <1>4, <2>1, <2>2 DEF Held, b
<1>6. ASSUME NEW n \in T PROVE n + 1 \in T
  <2> SUFFICES ASSUME n + 1 <= Len(s)
               PROVE  /\ Held(r[n + 1]) = SubSeq(s, 1, n + 1)
                      /\ r[n + 1].crs > 0 => n + 1 > 0 /\ s[n + 1] = "CR"
    OBVIOUS
  <2>1. /\ n \in Nat /\ n + 1 \in 1 .. Len(s) /\ (n + 1) - 1 = n /\ n \in 0 .. Len(s)
        /\ s[n + 1] \in Plain /\ r[n] \in Collapsings
    BY <1>1, <1>4
  <2>2. Held(r[n]) = SubSeq(s, 1, n) /\ (r[n].crs > 0 => n > 0 /\ s[n] = "CR")
    BY <2>1
  <2> HIDE DEF T
  <2>3. r[n + 1] = CollapseChar(r[n], s[n + 1])
    BY ZenonT(40), <1>2, <1>4, <2>1
  <2>4. s[n + 1] = "LF" => r[n].crs = 0
    <3>1. n > 0 /\ s[n] = "CR" => s[n + 1] # "LF"
      <4>1. n > 0 => n \in DOMAIN s /\ n < Len(s)
        BY <2>1
      <4> QED BY <4>1
    <3>2. r[n].crs \in Nat
      BY <2>1 DEF Collapsings
    <3> QED BY <2>2, <3>1, <3>2
  <2>5. Held(r[n + 1]) = Append(SubSeq(s, 1, n), s[n + 1])
    BY <2>1, <2>2, <2>3, <2>4, CollapseCharIs
  <2>6. r[n + 1].crs > 0 => s[n + 1] = "CR"
    BY <2>1, <2>3, CollapseCharIs
  <2>7. Append(SubSeq(s, 1, n), s[n + 1]) = SubSeq(s, 1, n + 1)
    BY <2>1
  <2> QED BY <2>1, <2>5, <2>6, <2>7
<1> HIDE DEF T
<1>7. T = Nat
  BY <1>5, <1>6, Induction DEF T
<1>8. Held(r[Len(s)]) = SubSeq(s, 1, Len(s))
  BY <1>1, <1>7 DEF T
<1>9. SubSeq(s, 1, Len(s)) = s
  BY <1>1
<1>10. CollapseCrLf(s) = Held(CollapseAll(b, s))
  BY DEF CollapseCrLf, CollapseAll, Held, b
<1> QED BY <1>3, <1>8, <1>9, <1>10

\* A text without escapes is left as it is.
LEMMA NothingToStrip ==
  ASSUME NEW s \in Seq(Plain)
  PROVE  /\ StripAll([ansi |-> "text", out |-> <<>>], s) = [ansi |-> "text", out |-> s]
         /\ StripAnsi(s) = s
<1> DEFINE b == [ansi |-> "text", out |-> <<>>]
           F == StripStep(Strippings, Chars)
           r == [k \in 0 .. Len(s) |-> [ansi |-> "text", out |-> SubSeq(s, 1, k)]]
<1>1. Len(s) \in Nat /\ b \in Strippings /\ s \in Seq(Chars)
  BY DEF Strippings, AnsiStates, Plain
<1>2. r \in [0 .. Len(s) -> Strippings] /\ r[0] = b
  BY <1>1 DEF Strippings, AnsiStates
<1>3. ASSUME NEW k \in 1 .. Len(s) PROVE r[k] = F[<<r[k - 1], s[k]>>]
  <2>1. /\ k - 1 \in 0 .. Len(s) /\ k \in 0 .. Len(s) /\ s[k] \in Chars /\ s[k] # "ESC"
        /\ r[k - 1] \in Strippings
    <3>1. k - 1 \in 0 .. Len(s) /\ k \in 0 .. Len(s) /\ s[k] \in Plain
      BY <1>1
    <3> HIDE DEF r
    <3> QED BY <1>2, <3>1 DEF Plain
  <2>2. SubSeq(s, 1, k) = Append(SubSeq(s, 1, k - 1), s[k])
    OBVIOUS
  <2>3. StripChar([ansi |-> "text", out |-> SubSeq(s, 1, k - 1)], s[k])
          = [ansi |-> "text", out |-> Append(SubSeq(s, 1, k - 1), s[k])]
    BY <2>1 DEF StripChar, AsText
  <2>4. F[<<r[k - 1], s[k]>>] = StripChar(r[k - 1], s[k])
    <3> HIDE DEF r
    <3> QED BY <2>1 DEF StripStep
  <2> QED BY <2>1, <2>2, <2>3, <2>4
<1> HIDE DEF r
<1>4. r \in Runs(F, Strippings, b, s)
  BY <1>2, <1>3 DEF Runs
<1>5. r[Len(s)] = StripAll(b, s)
  BY <1>1, <1>4, StripCloses, StripFold
<1>6. r[Len(s)] = [ansi |-> "text", out |-> s]
  <2>1. SubSeq(s, 1, Len(s)) = s /\ Len(s) \in 0 .. Len(s)
    BY <1>1
  <2> QED BY <2>1 DEF r
<1>7. StripAnsi(s) = StripAll(b, s).out
  BY DEF StripAnsi, StripAnsiChunk, StripAll
<1> QED BY <1>5, <1>6, <1>7

\* A snapshot is a text that is left as it is.
LEMMA SecondPass ==
  ResponseInv => CollapseCrLf(StripAnsi(Snapshot(acc))) = Snapshot(acc)
<1> SUFFICES ASSUME ResponseInv
             PROVE  CollapseCrLf(StripAnsi(Snapshot(acc))) = Snapshot(acc)
  OBVIOUS
<1> DEFINE text == Snapshot(acc)
<1>1. /\ text \in Seq(Plain)
      /\ \A i \in DOMAIN text : text[i] = "CR" /\ i < Len(text) => text[i + 1] # "LF"
  BY SnapshotIsTidy DEF ResponseInv
<1> HIDE DEF text
<1> QED BY <1>1, NothingToStrip, NothingToCollapse DEF text

\* Of any output, however it was cut, snapshot() leaves nothing for the first
\* two steps of cleanOutput to do: they change no text of the accumulator.
THEOREM SecondPassIsIdle ==
  ResponseSpec => [](CollapseCrLf(StripAnsi(Snapshot(acc))) = Snapshot(acc))
BY SecondPass, ResponseInvariance, PTL

-----------------------------------------------------------------------------
(* The prompt on the screen and in the text.                               *)

ApplyAll(b, s) == FoldLeft(ApplyCrChar, b, s)
ApplyStep(V, C) == [p \in V \X C |-> ApplyCrChar(p[1], p[2])]

\* The fold of ApplyCrChar is the last state of a run of it.
LEMMA ApplyRun ==
  ASSUME NEW V, NEW C, \A v \in V, c \in C : ApplyCrChar(v, c) \in V,
         NEW b \in V, NEW s \in Seq(C)
  PROVE  \E r \in Runs(ApplyStep(V, C), V, b, s) : ApplyAll(b, s) = r[Len(s)]
<1> DEFINE F == ApplyStep(V, C)
           D == SUBSET (1 .. Len(s))
           P(i) == i = [S \in D |-> IF S = {} THEN b
                                    ELSE ApplyCrChar(i[S \ {Max(S)}], s[Max(S)])]
           i == CHOOSE x : P(x)
<1>1. IsStep(F, V, C) /\ \A v \in V, c \in C : F[<<v, c>>] = ApplyCrChar(v, c)
  BY DEF ApplyStep, IsStep
<1> HIDE DEF F
<1>2. \E x : P(x)
  <2> HIDE DEF P
  <2>1. PICK x : FoldsOver(x, Len(s), F, V, b, s)
    BY <1>1, FoldIsDefined
  <2>2. x[{}] = b /\ x = [S \in D |-> x[S]]
    BY <2>1 DEF FoldsOver, D
  <2>3. ASSUME NEW S \in D, S # {}
        PROVE  x[S] = ApplyCrChar(x[S \ {Max(S)}], s[Max(S)])
    <3>1. /\ Max(S) \in 1 .. Len(s)
          /\ S \ {Max(S)} \in D
          /\ x[S] = F[<<x[S \ {Max(S)}], s[Max(S)]>>]
      BY <2>1, <2>3 DEF FoldsOver, D
    <3>2. x[S \ {Max(S)}] \in V /\ s[Max(S)] \in C
      BY <2>1, <3>1 DEF FoldsOver, D
    <3> QED BY <3>1, <3>2, <1>1
  <2> HIDE DEF D
  <2>4. P(x)
    BY <2>2, <2>3 DEF P
  <2> QED BY <2>4
<1>3. P(i)
  BY <1>2
<1>4. ApplyAll(b, s) = i[1 .. Len(s)]
  <2>1. DOMAIN s = 1 .. Len(s)
    OBVIOUS
  <2> QED BY <2>1 DEF ApplyAll, FoldLeft, MapThenFoldSet
<1> HIDE DEF i
<1>5. i[{}] = b
  <2>1. {} \in D
    OBVIOUS
  <2> HIDE DEF D
  <2> QED BY <1>3, <2>1
<1>6. ASSUME NEW S \in D, S # {}, i[S \ {Max(S)}] \in V, s[Max(S)] \in C
      PROVE  i[S] = F[<<i[S \ {Max(S)}], s[Max(S)]>>]
  <2> HIDE DEF D
  <2>1. i[S] = ApplyCrChar(i[S \ {Max(S)}], s[Max(S)])
    BY <1>3, <1>6
  <2> QED BY <2>1, <1>1, <1>6
<1>7. \E r \in Runs(F, V, b, s) : i[1 .. Len(s)] = r[Len(s)]
  <2> HIDE DEF P
  <2>1. FollowsFold(i, F, V, C, b, s)
    BY <1>5, <1>6 DEF FollowsFold
  <2> HIDE DEF D
  <2> QED BY <1>1, <2>1, FoldIsRun
<1> QED BY <1>4, <1>7 DEF F

\* A line and a cursor on it.
Displayings == [line : Seq(Plain), col : Nat]

\* One CR put back is a CR appended.
LEMMA OneCr ==
  ASSUME NEW l \in Seq(Plain)
  PROVE  Append(l, "CR") = l \o Repeat("CR", 1)
<1>1. ASSUME NEW one \in Seq(Plain), Len(one) = 1 PROVE Append(l, one[1]) = l \o one
  <2> DEFINE m == Append(l, one[1])
             n == l \o one
  <2>1. 1 \in 1 .. Len(one) /\ Len(l) \in Nat
    BY <1>1
  <2>2. one[1] \in Plain
    BY <2>1
  <2>3. /\ m \in Seq(Plain) /\ Len(m) = Len(l) + 1 /\ m[Len(l) + 1] = one[1]
        /\ \A i \in 1 .. Len(l) : m[i] = l[i]
    BY <2>2
  <2>4. \A k \in 1 .. Len(one) : n[Len(l) + k] = one[k]
    OBVIOUS
  <2>5. n \in Seq(Plain) /\ Len(n) = Len(l) + Len(one) /\ \A i \in 1 .. Len(l) : n[i] = l[i]
    OBVIOUS
  <2>6. n[Len(l) + 1] = one[1]
    BY <2>1, <2>4
  <2> HIDE DEF m, n
  <2>7. \A i \in 1 .. Len(l) + 1 : m[i] = n[i]
    <3>1. \A i \in 1 .. Len(l) + 1 : i \in 1 .. Len(l) \/ i = Len(l) + 1
      BY <2>1
    <3> QED BY <2>3, <2>5, <2>6, <3>1
  <2>8. m = n
    BY <1>1, <2>3, <2>5, <2>7, SeqEqual
  <2> QED BY <2>8 DEF m, n
<1>2. 1 \in Nat /\ 1 \in 1 .. 1
  OBVIOUS
<1> QED BY <1>1, <1>2, RepeatIs

\* A line and a cursor that show l show Append(l, c) after c.
LEMMA ApplyCrCharIs ==
  ASSUME NEW v \in Displayings, NEW c \in Plain
  PROVE  LET w == ApplyCrChar(v, c)
         IN /\ w \in Displayings
            /\ \A l \in Seq(Plain) :
                 Shown(l, v.line, v.col) => Shown(Append(l, c), w.line, w.col)
<1> DEFINE w == ApplyCrChar(v, c)
<1>1. v = [line |-> v.line, col |-> v.col] /\ v.line \in Seq(Plain) /\ v.col \in Nat
  BY DEF Displayings
<1>2. CASE c = "CR"
  <2>1. w = [line |-> v.line, col |-> 0]
    BY <1>1, <1>2 DEF ApplyCrChar
  <2>2. w.line = v.line /\ w.col = 0 /\ w \in Displayings
    BY <1>1, <2>1 DEF Displayings
  <2>3. ASSUME NEW l \in Seq(Plain), Shown(l, v.line, v.col)
        PROVE  Shown(Append(l, c), v.line, 0)
    <3>1. Append(l, c) = l \o Repeat("CR", 1)
      BY <1>2, OneCr
    <3>2. Shown(l \o Repeat("CR", 1), v.line, IF 1 = 0 THEN v.col ELSE 0)
      BY <1>1, <2>3, ShownCrs
    <3> QED BY <3>1, <3>2
  <2> HIDE DEF w
  <2> QED BY <2>2, <2>3 DEF w
<1>3. CASE c # "CR"
  <2>1. w = WriteDisplay([line |-> v.line, col |-> v.col], c)
    BY <1>1, <1>3 DEF ApplyCrChar
  <2>2. w = [line |-> w.line, col |-> w.col]
    BY <2>1 DEF WriteDisplay
  <2>3. w.line \in Seq(Plain) /\ w.col = v.col + 1
    BY <1>1, <2>1, WriteDisplayCloses
  <2>4. w \in Displayings
    <3> HIDE DEF w
    <3> QED BY <1>1, <2>2, <2>3 DEF Displayings
  <2>5. ASSUME NEW l \in Seq(Plain), Shown(l, v.line, v.col)
        PROVE  Shown(Append(l, c), w.line, w.col)
    BY <1>1, <1>3, <2>1, <2>5, ShownChar
  <2> HIDE DEF w
  <2> QED BY <2>4, <2>5 DEF w
<1> QED BY <1>2, <1>3

\* applyCrLine() makes of a line what it shows.
LEMMA ApplyCrLineShows ==
  ASSUME NEW l \in Seq(Plain)
  PROVE  ApplyCrLine(l) \in Seq(Plain) /\ Visible(l, ApplyCrLine(l))
<1> DEFINE b == [line |-> <<>>, col |-> 0]
           F == ApplyStep(Displayings, Plain)
<1>1. Len(l) \in Nat /\ b \in Displayings
  BY DEF Displayings
<1>2. /\ \A v \in Displayings, c \in Plain : ApplyCrChar(v, c) \in Displayings
      /\ \A v \in Displayings, c \in Plain : F[<<v, c>>] = ApplyCrChar(v, c)
  BY ApplyCrCharIs DEF ApplyStep
<1> HIDE DEF b, F
<1>3. PICK r \in Runs(F, Displayings, b, l) : ApplyAll(b, l) = r[Len(l)]
  BY <1>1, <1>2, ApplyRun DEF F
<1>4. /\ r \in [0 .. Len(l) -> Displayings] /\ r[0] = b
      /\ \A k \in 1 .. Len(l) : r[k] = F[<<r[k - 1], l[k]>>]
  BY DEF Runs
<1> DEFINE T == {n \in Nat : n <= Len(l) => Shown(SubSeq(l, 1, n), r[n].line, r[n].col)}
<1>5. 0 \in T
  <2>1. SubSeq(l, 1, 0) = <<>> /\ b.line = <<>> /\ b.col = 0
    BY <1>1 DEF b
  <2> QED BY <1>4, <2>1, ShownNothing
<1>6. ASSUME NEW n \in T PROVE n + 1 \in T
  <2> SUFFICES ASSUME n + 1 <= Len(l)
               PROVE  Shown(SubSeq(l, 1, n + 1), r[n + 1].line, r[n + 1].col)
    OBVIOUS
  <2>1. /\ n \in Nat /\ n + 1 \in 1 .. Len(l) /\ (n + 1) - 1 = n /\ n \in 0 .. Len(l)
        /\ l[n + 1] \in Plain /\ r[n] \in Displayings
    BY <1>1, <1>4
  <2>2. Shown(SubSeq(l, 1, n), r[n].line, r[n].col)
    BY <2>1
  <2> HIDE DEF T
  <2>3. r[n + 1] = ApplyCrChar(r[n], l[n + 1])
    BY <1>2, <1>4, <2>1
  <2>4. SubSeq(l, 1, n) \in Seq(Plain)
    BY <2>1
  <2>5. Append(SubSeq(l, 1, n), l[n + 1]) = SubSeq(l, 1, n + 1)
    BY <2>1
  <2>6. Shown(Append(SubSeq(l, 1, n), l[n + 1]), r[n + 1].line, r[n + 1].col)
    BY <2>1, <2>2, <2>3, <2>4, ApplyCrCharIs
  <2> QED BY <2>5, <2>6
<1> HIDE DEF T
<1>7. T = Nat
  BY <1>5, <1>6, Induction DEF T
<1>8. Shown(SubSeq(l, 1, Len(l)), r[Len(l)].line, r[Len(l)].col)
  BY <1>1, <1>7 DEF T
<1>9. SubSeq(l, 1, Len(l)) = l
  BY <1>1
<1>10. ApplyCrLine(l) = ApplyAll(b, l).line
  BY DEF ApplyCrLine, ApplyAll, b
<1>11. r[Len(l)] \in Displayings
  BY <1>1, <1>4
<1> QED BY <1>3, <1>8, <1>9, <1>10, <1>11 DEF Shown, Displayings

\* A line shows one thing.
LEMMA VisibleIsUnique ==
  ASSUME NEW l \in Seq(Plain), NEW v \in Seq(Plain), NEW w \in Seq(Plain),
         Visible(l, v), Visible(l, w)
  PROVE  v = w
<1>1. Len(v) \in Nat /\ Len(w) \in Nat /\ Len(l) \in Nat
  OBVIOUS
<1>2. ASSUME NEW x \in Seq(Plain), NEW y \in Seq(Plain), Visible(l, x), Visible(l, y)
      PROVE  Len(x) <= Len(y)
  <2>1. CASE Len(x) = 0
    BY <2>1
  <2>2. CASE Len(x) # 0
    <3>1. Len(x) \in 1 .. Len(x)
      BY <2>2
    <3>2. PICK p \in 1 .. Len(l) : Cell(l, p, Len(x))
      BY <1>2, <3>1 DEF Visible
    <3>3. p \in Nat /\ Len(x) \in Nat
      BY <1>1
    <3> QED BY <1>2, <3>2, <3>3 DEF Visible
  <2> QED BY <2>1, <2>2
<1>3. Len(v) = Len(w)
  BY <1>1, <1>2
<1>4. ASSUME NEW n \in 1 .. Len(v) PROVE v[n] = w[n]
  <2>1. PICK p \in 1 .. Len(l) :
          Cell(l, p, n) /\ l[p] = v[n] /\ \A q \in 1 .. Len(l) : Cell(l, q, n) => q <= p
    BY DEF Visible
  <2>2. PICK o \in 1 .. Len(l) :
          Cell(l, o, n) /\ l[o] = w[n] /\ \A q \in 1 .. Len(l) : Cell(l, q, n) => q <= o
    BY <1>3 DEF Visible
  <2>3. o = p
    BY <1>1, <2>1, <2>2
  <2> QED BY <2>1, <2>2, <2>3
<1> QED BY <1>3, <1>4, SeqEqual

\* The prompt that is on the line is the last line as it is displayed.
LEMMA PromptStripped ==
  ASSUME ResponseInv, ~acc.partial, acc.line = Current
  PROVE  StripFinalPrompt(CollapseCrLf(StripAnsi(Snapshot(acc))), Current)
           = UpToLastLine(Snapshot(acc))
<1> DEFINE l == LastLine(Snapshot(acc))
<1>1. l \in Seq(Plain) /\ acc.line \in Seq(Plain) /\ Visible(l, acc.line)
  BY ResponseShows, LineShows
<1> HIDE DEF l
<1>2. ApplyCrLine(l) = acc.line
  BY <1>1, ApplyCrLineShows, VisibleIsUnique
<1> QED BY <1>2, ResponseAssumption, SecondPass DEF StripFinalPrompt, l

\* The line that onSettled compares with the prompt and the last line on which
\* stripFinalPrompt looks for it are the same, though one is kept up to date as
\* the characters come and the other is computed from the text: the prompt a
\* command completes on is removed from its stdout, to the last character.
THEOREM PromptIsRemoved ==
  ResponseSpec =>
    []( Completes /\ ~acc.partial
          => StripFinalPrompt(CollapseCrLf(StripAnsi(Snapshot(acc))), Current)
               = UpToLastLine(Snapshot(acc)) )
<1> DEFINE P == Completes /\ ~acc.partial
                  => StripFinalPrompt(CollapseCrLf(StripAnsi(Snapshot(acc))), Current)
                       = UpToLastLine(Snapshot(acc))
<1>1. ResponseInv => P
  BY PromptStripped DEF Completes
<1> HIDE DEF P
<1>2. ResponseSpec => []P
  BY <1>1, ResponseInvariance, PTL
<1> QED BY <1>2 DEF P
=============================================================================
