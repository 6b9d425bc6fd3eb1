----------------------------- MODULE EchoProofs -----------------------------
(***************************************************************************)
(* Theorems about Response: nothing but the echo is removed from what the  *)
(* device sent, and stdout is the output of the command, for any commands, *)
(* prompts and chunks.  The invariant says in which phase the device is    *)
(* (it echoes the command, sends output, has sent the prompt), and what    *)
(* the accumulator holds in each.                                          *)
(***************************************************************************)
EXTENDS OutputProofs

-----------------------------------------------------------------------------
(* How far the table of matchWrapped comes in an echo.                     *)

\* However a text goes on that begins with p, the table has come, at the end of
\* p, to the j-th character of what is expected; if `ended', only when p is
\* followed by a line end.
Tracks(p, expected, j, ended) ==
  \A rest \in Seq(Plain) :
    (ended => rest # <<>> /\ rest[1] \in LineEnds)
      => Table(p \o rest, expected)[1][1] = Table(p \o rest, expected)[Len(p) + 1][j]

\* Nothing has been read.
LEMMA TrackStarts ==
  ASSUME NEW expected
  PROVE  Tracks(<<>>, expected, 1, FALSE)
BY DEF Tracks

\* The character after a text.
LEMMA NextChar ==
  ASSUME NEW p \in Seq(Plain), NEW c \in Plain, NEW rest \in Seq(Plain)
  PROVE  /\ Append(p, c) \o rest = p \o (<<c>> \o rest)
         /\ <<c>> \o rest \in Seq(Plain) /\ <<c>> \o rest # <<>> /\ (<<c>> \o rest)[1] = c
         /\ Append(p, c) \o rest \in Seq(Plain)
         /\ Len(p) + 1 \in 1 .. Len(Append(p, c) \o rest) /\ Len(Append(p, c)) = Len(p) + 1
         /\ CharAt(Append(p, c) \o rest, Len(p) + 1) = c
         /\ rest # <<>> => CharAt(Append(p, c) \o rest, (Len(p) + 1) + 1) = rest[1]
<1> DEFINE x == <<c>> \o rest
           q == Append(p, c)
           text == q \o rest
<1>1. q \in Seq(Plain) /\ Len(q) = Len(p) + 1 /\ q[Len(p) + 1] = c /\ Len(p) \in Nat
  OBVIOUS
<1>2. <<c>> \in Seq(Plain) /\ Len(<<c>>) = 1 /\ <<c>>[1] = c
  OBVIOUS
<1>3. x \in Seq(Plain) /\ Len(x) = 1 + Len(rest) /\ x[1] = c
  <2> DEFINE s == <<c>>
  <2>1. s \in Seq(Plain) /\ Len(s) = 1 /\ s[1] = c
    BY <1>2
  <2> HIDE DEF s
  <2>2. s \o rest \in Seq(Plain) /\ Len(s \o rest) = 1 + Len(rest) /\ (s \o rest)[1] = s[1]
    BY <2>1, JoinOne
  <2> QED BY <2>1, <2>2 DEF s
<1>4. x # <<>>
  BY <1>3
<1>5. q \o rest = p \o x
  <2>1. q = p \o <<c>>
    OBVIOUS
  <2>2. (p \o <<c>>) \o rest = p \o (<<c>> \o rest)
    BY <1>2, JoinAssociates DEF PlainTexts
  <2> QED BY <2>1, <2>2
<1> HIDE DEF x, q
<1>6. text \in Seq(Plain) /\ Len(text) = (Len(p) + 1) + Len(rest) /\ Len(rest) \in Nat
  BY <1>1
<1>7. text[Len(p) + 1] = c
  BY <1>1
<1>8. rest # <<>> => text[(Len(p) + 1) + 1] = rest[1] /\ Len(rest) >= 1
  BY <1>1
<1> HIDE DEF text
<1>9. DOMAIN text = 1 .. Len(text)
  BY <1>6
<1>10. Len(p) + 1 \in 1 .. Len(text) /\ CharAt(text, Len(p) + 1) = c
  BY <1>1, <1>6, <1>7, <1>9 DEF CharAt
<1>11. rest # <<>> => CharAt(text, (Len(p) + 1) + 1) = rest[1]
  BY <1>1, <1>6, <1>8, <1>9 DEF CharAt
<1> QED BY <1>1, <1>3, <1>4, <1>5, <1>6, <1>10, <1>11 DEF x, q, text

\* The next character is the expected one, or a wrap.
LEMMA TrackGoesOn ==
  ASSUME NEW p \in Seq(Plain), NEW expected \in Seq(Letters), NEW j \in 1 .. Len(expected),
         NEW ended \in BOOLEAN, Tracks(p, expected, j, ended), NEW c \in Plain,
         c \in LineEnds \/ ended = FALSE
  PROVE  /\ c = expected[j] => Tracks(Append(p, c), expected, j + 1, FALSE)
         /\ c \in LineEnds => Tracks(Append(p, c), expected, j, FALSE)
         /\ c = " " /\ expected[j] # " " => Tracks(Append(p, c), expected, j, TRUE)
<1> DEFINE n == Len(p)
           q == Append(p, c)
<1>1. n \in Nat /\ Len(q) = n + 1 /\ expected[j] \in Letters
  OBVIOUS
<1>2. ASSUME NEW rest \in Seq(Plain)
      PROVE  LET text == q \o rest
                 f == Table(text, expected)
             IN /\ c = expected[j] => f[1][1] = f[n + 2][j + 1]
                /\ c \in LineEnds => f[1][1] = f[n + 2][j]
                /\ c = " " /\ expected[j] # " " /\ rest # <<>> /\ rest[1] \in LineEnds
                     => f[1][1] = f[n + 2][j]
  <2> DEFINE text == q \o rest
             f == Table(text, expected)
             x == <<c>> \o rest
  <2>1. /\ text = p \o x /\ x \in Seq(Plain) /\ x # <<>> /\ x[1] = c
        /\ text \in Seq(Plain) /\ n + 1 \in 1 .. Len(text)
        /\ CharAt(text, n + 1) = c
        /\ rest # <<>> => CharAt(text, (n + 1) + 1) = rest[1]
    BY <1>2, NextChar
  <2> HIDE DEF x
  <2>2. f[1][1] = f[n + 1][j]
    <3>1. Table(p \o x, expected)[1][1] = Table(p \o x, expected)[n + 1][j]
      BY <2>1 DEF Tracks
    <3> HIDE DEF text
    <3> QED BY <2>1, <3>1
  <2> HIDE DEF text
  <2>3. f[n + 1][j] = EndFrom(f, text, expected, n + 1, j)
    <3>1. n + 1 \in 1 .. Len(text) + 1 /\ j \in 1 .. Len(expected) + 1
      BY <1>1, <2>1
    <3> QED BY <2>1, <3>1, TableIs
  <2> HIDE DEF f
  <2>4. EndFrom(f, text, expected, n + 1, j)
          = IF c = expected[j] THEN f[(n + 1) + 1][j + 1]
            ELSE IF Skipped(text, n + 1) THEN f[(n + 1) + 1][j]
            ELSE 0
    BY <2>1 DEF EndFrom
  <2>5. (n + 1) + 1 = n + 2
    BY <1>1
  <2>6. c \in LineEnds => Skipped(text, n + 1) /\ c # expected[j]
    BY <1>1, <2>1 DEF Skipped, Letters, LineEnds
  <2>7. c = " " /\ rest # <<>> /\ rest[1] \in LineEnds => Skipped(text, n + 1)
    BY <2>1 DEF Skipped
  <2> QED BY <2>2, <2>3, <2>4, <2>5, <2>6, <2>7 DEF f, text
<1>3. Len(q) + 1 = n + 2
  BY <1>1
<1> HIDE DEF q, n
<1>4. c = expected[j] => Tracks(q, expected, j + 1, FALSE)
  BY <1>2, <1>3 DEF Tracks
<1>5. c \in LineEnds => Tracks(q, expected, j, FALSE)
  BY <1>2, <1>3 DEF Tracks
<1>6. c = " " /\ expected[j] # " " => Tracks(q, expected, j, TRUE)
  BY <1>2, <1>3 DEF Tracks
<1> QED BY <1>4, <1>5, <1>6 DEF q

\* CRs after it.
LEMMA TrackCrs ==
  ASSUME NEW p \in Seq(Plain), NEW expected \in Seq(Letters), NEW j \in 1 .. Len(expected),
         NEW ended \in BOOLEAN, Tracks(p, expected, j, ended), NEW n \in Nat, n # 0
  PROVE  Tracks(p \o Repeat("CR", n), expected, j, FALSE)
<1> DEFINE T == {k \in Nat : Tracks(p \o Repeat("CR", k + 1), expected, j, FALSE)}
<1>1. ASSUME NEW k \in Nat
      PROVE  p \o Repeat("CR", k + 1) = Append(p \o Repeat("CR", k), "CR")
  <2> DEFINE r == Repeat("CR", k)
             s == Repeat("CR", k + 1)
  <2>1. /\ r \in Seq(Plain) /\ Len(r) = k /\ \A i \in 1 .. k : r[i] = "CR"
        /\ s \in Seq(Plain) /\ Len(s) = k + 1 /\ \A i \in 1 .. k + 1 : s[i] = "CR"
    BY RepeatIs
  <2> HIDE DEF r, s
  <2>2. "CR" \in Plain
    BY DEF Plain, Chars, Kinds
  <2>3. s = Append(r, "CR")
    <3> DEFINE z == Append(r, "CR")
    <3>1. z \in Seq(Plain) /\ Len(z) = k + 1
      BY <2>1, <2>2
    <3>2. \A i \in 1 .. k + 1 : z[i] = "CR"
      BY <2>1
    <3> HIDE DEF z
    <3>3. \A i \in 1 .. k + 1 : z[i] = s[i]
      BY <2>1, <3>2
    <3> QED BY <2>1, <3>1, <3>3 DEF z
  <2>4. p \o Append(r, "CR") = Append(p \o r, "CR")
    BY <2>1, <2>2, AppendAssociates DEF PlainTexts
  <2> QED BY <2>3, <2>4 DEF r, s
<1>2. ASSUME NEW k \in Nat, NEW e \in BOOLEAN, Tracks(p \o Repeat("CR", k), expected, j, e)
      PROVE  k \in T
  <2>1. p \o Repeat("CR", k) \in Seq(Plain)
    <3>1. Repeat("CR", k) \in Seq(Plain)
      BY RepeatIs
    <3> QED BY <3>1
  <2>2. "CR" \in Plain /\ "CR" \in LineEnds
    BY DEF Plain, Chars, Kinds, LineEnds
  <2>3. Tracks(Append(p \o Repeat("CR", k), "CR"), expected, j, FALSE)
    BY <1>2, <2>1, <2>2, TrackGoesOn
  <2> QED BY <1>1, <2>3
<1>3. 0 \in T
  <2>1. p \o Repeat("CR", 0) = p
    BY NoCrs
  <2>2. Tracks(p \o Repeat("CR", 0), expected, j, ended)
    BY <2>1
  <2> QED BY <1>2, <2>2
<1>4. ASSUME NEW k \in T PROVE k + 1 \in T
  <2>1. k \in Nat /\ Tracks(p \o Repeat("CR", k + 1), expected, j, FALSE)
    BY <1>4, Zenon
  <2>2. k + 1 \in Nat
    BY <2>1
  <2> HIDE DEF T
  <2> QED BY <1>2, <2>1, <2>2
<1> HIDE DEF T
<1>5. T \subseteq Nat
  BY DEF T
<1>6. T = Nat
  BY <1>3, <1>4, <1>5, Induction
<1>7. n - 1 \in T /\ (n - 1) + 1 = n
  BY <1>6
<1> QED BY <1>7 DEF T

\* The accumulator has read the echo up to the j-th character of what is expected.
Following(a, expected, j) == Tracks(a.parts, expected, j, a.crs # 0)

\* It goes on with the next character, or with a wrap.
LEMMA FollowsOn ==
  ASSUME NEW a \in Accumulators, NEW expected \in Seq(Letters), NEW j \in 1 .. Len(expected),
         Following(a, expected, j)
  PROVE  /\ Following(AppendChar(a, expected[j]), expected, j + 1)
         /\ AppendChar(a, expected[j]).crs = 0
         /\ Following(AppendChar(a, "LF"), expected, j)
         /\ expected[j] # " " =>
              LET b == AppendChar(a, " ")
              IN /\ Following(AppendChar(b, "LF"), expected, j)
                 /\ Following(AppendChar(b, "CR"), expected, j)
<1> DEFINE c == expected[j]
           p == a.parts
           q == p \o Repeat("CR", a.crs)
<1>1. /\ c \in Plain /\ c \notin LineEnds /\ " " \in Plain /\ " " \notin LineEnds
      /\ "LF" \in Plain /\ "LF" \in LineEnds /\ "CR" \in Plain /\ "CR" \in LineEnds
  <2>1. c \in Letters
    OBVIOUS
  <2> HIDE DEF c
  <2> QED BY <2>1 DEF Letters, Plain, Chars, Kinds, LineEnds
<1>2. p \in Seq(Plain) /\ a.crs \in Nat /\ q \in Seq(Plain)
  <2>1. p \in Seq(Plain) /\ a.crs \in Nat
    BY DEF Accumulators
  <2>2. Repeat("CR", a.crs) \in Seq(Plain)
    BY <2>1, RepeatIs
  <2> HIDE DEF p
  <2> QED BY <2>1, <2>2
<1>3. Tracks(p, expected, j, a.crs # 0)
  BY DEF Following
<1> HIDE DEF p
<1>4. Tracks(q, expected, j, FALSE)
  <2>1. CASE a.crs = 0
    <3>1. q = p
      BY <1>2, <2>1, NoCrs
    <3>2. (a.crs # 0) = FALSE
      BY <2>1
    <3> QED BY <1>3, <3>1, <3>2
  <2>2. CASE a.crs # 0
    BY <1>2, <1>3, <2>2, TrackCrs
  <2> QED BY <2>1, <2>2
<1> HIDE DEF q, c
<1>5. ASSUME NEW d \in Plain, d \notin LineEnds
      PROVE  /\ AppendChar(a, d) \in Accumulators
             /\ AppendChar(a, d).parts = Append(q, d) /\ AppendChar(a, d).crs = 0
  <2>1. AppendChar(a, d) \in Accumulators /\ Appends(a, d, AppendChar(a, d))
    BY <1>5, AppendCloses, AppendCharIs
  <2> QED BY <1>5, <2>1 DEF Appends, q, p
<1>6. ASSUME NEW b \in Accumulators, NEW e \in BOOLEAN, Tracks(b.parts, expected, j, e)
      PROVE  /\ Following(AppendChar(b, "LF"), expected, j)
             /\ Following(AppendChar(b, "CR"), expected, j)
  <2> DEFINE w == AppendChar(b, "LF")
             z == AppendChar(b, "CR")
  <2>1. Appends(b, "LF", w) /\ Appends(b, "CR", z) /\ b.parts \in Seq(Plain) /\ b.crs \in Nat
    BY <1>1, AppendCharIs DEF Accumulators
  <2> HIDE DEF w, z
  <2>2. w.parts = Append(b.parts, "LF") /\ w.crs = 0 /\ z.parts = b.parts /\ z.crs # 0
    BY <2>1 DEF Appends
  <2>3. Tracks(w.parts, expected, j, FALSE)
    BY <1>1, <1>6, <2>1, <2>2, TrackGoesOn
  <2>4. Tracks(z.parts, expected, j, TRUE)
    <3>1. \A x : Tracks(x, expected, j, e) => Tracks(x, expected, j, TRUE)
      BY DEF Tracks
    <3> QED BY <1>6, <2>2, <3>1
  <2>5. (w.crs # 0) = FALSE /\ (z.crs # 0) = TRUE
    BY <2>2
  <2> QED BY <2>3, <2>4, <2>5 DEF Following, w, z
<1>7. Following(AppendChar(a, c), expected, j + 1) /\ AppendChar(a, c).crs = 0
  <2>1. AppendChar(a, c).parts = Append(q, c) /\ AppendChar(a, c).crs = 0
    BY <1>1, <1>5
  <2>2. Tracks(Append(q, c), expected, j + 1, FALSE)
    <3>1. FALSE \in BOOLEAN /\ c = expected[j]
      BY DEF c
    <3> QED BY <1>1, <1>2, <1>4, <3>1, TrackGoesOn
  <2>3. (AppendChar(a, c).crs # 0) = FALSE
    BY <2>1
  <2> QED BY <2>1, <2>2, <2>3 DEF Following
<1>8. Following(AppendChar(a, "LF"), expected, j)
  <2>1. (a.crs # 0) \in BOOLEAN
    OBVIOUS
  <2> QED BY <1>3, <1>6, <2>1 DEF p
<1>9. ASSUME c # " "
      PROVE  LET b == AppendChar(a, " ")
             IN /\ Following(AppendChar(b, "LF"), expected, j)
                /\ Following(AppendChar(b, "CR"), expected, j)
  <2> DEFINE b == AppendChar(a, " ")
  <2>1. b \in Accumulators /\ b.parts = Append(q, " ")
    BY <1>1, <1>5
  <2> HIDE DEF b
  <2>2. Tracks(Append(q, " "), expected, j, TRUE)
    BY <1>1, <1>2, <1>4, <1>9, TrackGoesOn DEF c
  <2>3. TRUE \in BOOLEAN /\ Tracks(b.parts, expected, j, TRUE)
    BY <2>1, <2>2
  <2> QED BY <1>6, <2>1, <2>3 DEF b
<1> QED BY <1>7, <1>8, <1>9 DEF c

\* At its end.
Greedy(w, expected) == \A rest \in Seq(Plain) : WrappedEnd(w \o rest, expected) = Len(w)

\* When all that is expected has come, the match ends there, whatever follows.
LEMMA FollowsToTheEnd ==
  ASSUME NEW a \in Accumulators, NEW expected \in Seq(Letters), a.crs = 0,
         Following(a, expected, Len(expected) + 1)
  PROVE  Greedy(a.parts, expected)
<1> DEFINE p == a.parts
           j == Len(expected) + 1
<1>1. p \in Seq(Plain) /\ j \in 1 .. Len(expected) + 1 /\ j > Len(expected)
  BY DEF Accumulators
<1>2. Tracks(p, expected, j, FALSE)
  <2>1. (a.crs # 0) = FALSE
    OBVIOUS
  <2> QED BY <2>1 DEF Following
<1> HIDE DEF p, j
<1>3. ASSUME NEW rest \in Seq(Plain) PROVE WrappedEnd(p \o rest, expected) = Len(p)
  <2> DEFINE text == p \o rest
             f == Table(text, expected)
  <2>1. text \in Seq(Plain) /\ Len(p) + 1 \in 1 .. Len(text) + 1
    BY <1>1, <1>3
  <2>2. f[1][1] = f[Len(p) + 1][j]
    BY <1>2, <1>3 DEF Tracks
  <2> HIDE DEF text
  <2>3. f[Len(p) + 1][j] = EndFrom(f, text, expected, Len(p) + 1, j)
    BY SMTT(20), <1>1, <2>1, TableIs
  <2> HIDE DEF f
  <2>4. EndFrom(f, text, expected, Len(p) + 1, j) = (Len(p) + 1) - 1
    BY <1>1 DEF EndFrom
  <2>5. (Len(p) + 1) - 1 = Len(p)
    BY <1>1
  <2>6. WrappedEnd(text, expected) = f[1][1]
    BY WrappedEndIs DEF f
  <2> QED BY <2>2, <2>3, <2>4, <2>5, <2>6 DEF text
<1> QED BY <1>3 DEF Greedy, p

-----------------------------------------------------------------------------
(* What wraps do not change.                                               *)

InkStep(V, C) == [p \in V \X C |-> InkChar(p[1], p[2])]
InkAll(b, s) == FoldLeft(InkChar, b, s)

\* The fold of InkChar is the last state of a run of it.
LEMMA InkRun ==
  ASSUME NEW V, NEW C, \A v \in V, c \in C : InkChar(v, c) \in V,
         NEW b \in V, NEW s \in Seq(C)
  PROVE  \E r \in Runs(InkStep(V, C), V, b, s) : InkAll(b, s) = r[Len(s)]
<1> DEFINE F == InkStep(V, C)
           D == SUBSET (1 .. Len(s))
           P(i) == i = [S \in D |-> IF S = {} THEN b
                                    ELSE InkChar(i[S \ {Max(S)}], s[Max(S)])]
           i == CHOOSE x : P(x)
<1>1. IsStep(F, V, C) /\ \A v \in V, c \in C : F[<<v, c>>] = InkChar(v, c)
  BY DEF InkStep, IsStep
<1> HIDE DEF F
<1>2. \E x : P(x)
  <2> HIDE DEF P
  <2>1. PICK x : FoldsOver(x, Len(s), F, V, b, s)
    BY <1>1, FoldIsDefined
  <2>2. x[{}] = b /\ x = [S \in D |-> x[S]]
    BY <2>1 DEF FoldsOver, D
  <2>3. ASSUME NEW S \in D, S # {}
        PROVE  x[S] = InkChar(x[S \ {Max(S)}], s[Max(S)])
    <3>1. /\ Max(S) \in 1 .. Len(s)
          /\ S \ {Max(S)} \in D
          /\ x[S] = F[<<x[S \ {Max(S)}], s[Max(S)]>>]
      BY <2>1, <2>3 DEF FoldsOver, D
    <3>2. x[S \ {Max(S)}] \in V /\ s[Max(S)] \in C
      BY <2>1, <3>1 DEF FoldsOver, D
    <3> QED BY <3>1, <3>2, <1>1
  <2> HIDE DEF D
  <2>4. P(x)
    BY <2>2, <2>3 DEF P
  <2> QED BY <2>4
<1>3. P(i)
  BY <1>2
<1>4. InkAll(b, s) = i[1 .. Len(s)]
  <2>1. DOMAIN s = 1 .. Len(s)
    OBVIOUS
  <2> QED BY <2>1 DEF InkAll, FoldLeft, MapThenFoldSet
<1> HIDE DEF i
<1>5. i[{}] = b
  <2>1. {} \in D
    OBVIOUS
  <2> HIDE DEF D
  <2> QED BY <1>3, <2>1
<1>6. ASSUME NEW S \in D, S # {}, i[S \ {Max(S)}] \in V, s[Max(S)] \in C
      PROVE  i[S] = F[<<i[S \ {Max(S)}], s[Max(S)]>>]
  <2> HIDE DEF D
  <2>1. i[S] = InkChar(i[S \ {Max(S)}], s[Max(S)])
    BY <1>3, <1>6
  <2> QED BY <2>1, <1>1, <1>6
<1>7. \E r \in Runs(F, V, b, s) : i[1 .. Len(s)] = r[Len(s)]
  <2> HIDE DEF P
  <2>1. FollowsFold(i, F, V, C, b, s)
    BY <1>5, <1>6 DEF FollowsFold
  <2> HIDE DEF D
  <2> QED BY <1>1, <2>1, FoldIsRun
<1> QED BY <1>4, <1>7 DEF F

\* So the fold is in V, and every run of the step ends in it.
LEMMA InkFold ==
  ASSUME NEW V, NEW C, \A v \in V, c \in C : InkChar(v, c) \in V,
         NEW b \in V, NEW s \in Seq(C)
  PROVE  /\ InkAll(b, s) \in V
         /\ \A q \in Runs(InkStep(V, C), V, b, s) : q[Len(s)] = InkAll(b, s)
<1>1. IsStep(InkStep(V, C), V, C)
  BY DEF InkStep, IsStep
<1>2. PICK r \in Runs(InkStep(V, C), V, b, s) : InkAll(b, s) = r[Len(s)]
  BY InkRun
<1>3. r[Len(s)] \in V
  BY DEF Runs
<1>4. ASSUME NEW q \in Runs(InkStep(V, C), V, b, s) PROVE q[Len(s)] = r[Len(s)]
  BY <1>1, <1>2, RunsAgree
<1> QED BY <1>2, <1>3, <1>4

\* A fold over s \o t goes on over t from where it was after s.
LEMMA InkJoins ==
  ASSUME NEW V, NEW C, \A v \in V, c \in C : InkChar(v, c) \in V,
         NEW b \in V, NEW s \in Seq(C), NEW t \in Seq(C)
  PROVE  InkAll(b, s \o t) = InkAll(InkAll(b, s), t)
<1>1. IsStep(InkStep(V, C), V, C) /\ s \o t \in Seq(C)
  BY DEF InkStep, IsStep
<1>2. PICK r \in Runs(InkStep(V, C), V, b, s \o t) : InkAll(b, s \o t) = r[Len(s \o t)]
  BY <1>1, InkRun
<1>3. /\ r[Len(s)] \in V
      /\ \E q \in Runs(InkStep(V, C), V, b, s) : q[Len(s)] = r[Len(s)]
      /\ \E w \in Runs(InkStep(V, C), V, r[Len(s)], t) : w[Len(t)] = r[Len(s \o t)]
  BY <1>1, <1>2, RunsJoin
<1>4. InkAll(b, s) = r[Len(s)]
  BY <1>3, InkFold
<1>5. InkAll(r[Len(s)], t) = r[Len(s \o t)]
  BY <1>3, InkFold
<1> QED BY <1>2, <1>4, <1>5

\* A fold over nothing, and over one character.
LEMMA InkOne ==
  ASSUME NEW V, NEW C, \A v \in V, c \in C : InkChar(v, c) \in V, NEW b \in V
  PROVE  /\ \A s \in Seq(C) : Len(s) = 0 => InkAll(b, s) = b
         /\ \A c \in C : InkAll(b, <<c>>) = InkChar(b, c)
<1>1. ASSUME NEW s \in Seq(C), Len(s) = 0 PROVE InkAll(b, s) = b
  <2>1. PICK r \in Runs(InkStep(V, C), V, b, s) : InkAll(b, s) = r[Len(s)]
    BY InkRun
  <2> QED BY <1>1, <2>1 DEF Runs
<1>2. ASSUME NEW c \in C PROVE InkAll(b, <<c>>) = InkChar(b, c)
  <2> DEFINE s == <<c>>
  <2>1. s \in Seq(C) /\ Len(s) = 1 /\ s[1] = c
    OBVIOUS
  <2> HIDE DEF s
  <2>2. PICK r \in Runs(InkStep(V, C), V, b, s) : InkAll(b, s) = r[Len(s)]
    BY ZenonT(40), <2>1, InkRun
  <2>3. r[0] = b /\ r[1] = InkStep(V, C)[<<r[0], s[1]>>]
    <3>1. 1 \in 1 .. Len(s) /\ 1 - 1 = 0
      BY <2>1
    <3> QED BY <3>1 DEF Runs
  <2>4. InkStep(V, C)[<<b, c>>] = InkChar(b, c)
    BY DEF InkStep
  <2> QED BY <2>1, <2>2, <2>3, <2>4 DEF s
<1> QED BY <1>1, <1>2

\* A text without its blanks, character by character.
LEMMA InkIs ==
  ASSUME NEW s \in Seq(Plain)
  PROVE  /\ Ink(<<>>) = <<>> /\ Ink(s) \in Seq(Plain)
         /\ \A c \in Plain : Ink(Append(s, c)) = InkChar(Ink(s), c)
         /\ \A t \in Seq(Plain) : Ink(s \o t) = InkAll(Ink(s), t)
<1> DEFINE V == Seq(Plain)
<1>1. ASSUME NEW v \in V, NEW c \in Plain PROVE InkChar(v, c) \in V
  <2>1. Append(v, c) \in V
    BY <1>1
  <2> HIDE DEF V
  <2> QED BY <1>1, <2>1 DEF InkChar
<1>2. <<>> \in V /\ Len(<<>>) = 0
  OBVIOUS
<1>3. \A x : Ink(x) = InkAll(<<>>, x)
  BY DEF Ink, InkAll
<1> HIDE DEF V
<1>4. V = Seq(Plain)
  BY DEF V
<1>5. Ink(s) \in V
  BY <1>1, <1>2, <1>3, InkFold
<1>6. Ink(<<>>) = <<>>
  BY <1>1, <1>2, <1>3, <1>4, InkOne
<1>7. \A t \in Seq(Plain) : Ink(s \o t) = InkAll(Ink(s), t)
  BY <1>1, <1>2, <1>3, InkJoins
<1>8. ASSUME NEW c \in Plain PROVE Ink(Append(s, c)) = InkChar(Ink(s), c)
  <2> DEFINE t == <<c>>
  <2>1. t \in Seq(Plain) /\ Append(s, c) = s \o t
    OBVIOUS
  <2>2. InkAll(Ink(s), t) = InkChar(Ink(s), c)
    BY <1>1, <1>5, InkOne
  <2> HIDE DEF t
  <2> QED BY <1>7, <2>1, <2>2
<1> QED BY <1>4, <1>5, <1>6, <1>7, <1>8

Blanks == LineEnds \cup {" "}

\* A text that goes on with more than blanks.
LEMMA InkGrows ==
  ASSUME NEW s \in Seq(Plain), NEW t \in Seq(Plain), NEW c \in Plain, c \notin Blanks
  PROVE  IsStrictPrefix(Ink(s), Ink(Append(s \o t, c)))
<1> DEFINE b == Ink(s)
           V == {v \in Seq(Plain) : \E u \in Seq(Plain) : v = b \o u}
           w == Ink(s \o t)
<1>1. b \in Seq(Plain) /\ w = InkAll(b, t) /\ s \o t \in Seq(Plain)
  BY InkIs
<1>2. Ink(Append(s \o t, c)) = Append(w, c)
  <2>1. Ink(Append(s \o t, c)) = InkChar(w, c)
    BY <1>1, InkIs
  <2> HIDE DEF w
  <2> QED BY <2>1 DEF InkChar, Blanks
<1> HIDE DEF b, w
<1>3. b \in V
  <2>1. b \o <<>> = b /\ <<>> \in Seq(Plain)
    BY <1>1
  <2> QED BY <1>1, <2>1
<1>4. ASSUME NEW v \in V, NEW d \in Plain PROVE InkChar(v, d) \in V
  <2>1. PICK u \in Seq(Plain) : v = b \o u
    BY <1>4
  <2>2. Append(v, d) = b \o Append(u, d) /\ Append(u, d) \in Seq(Plain)
    <3>1. Append(b \o u, d) = b \o Append(u, d)
      BY <1>1, <1>4, <2>1, AppendAssociates DEF PlainTexts
    <3>2. Append(u, d) \in Seq(Plain)
      BY <1>4, <2>1
    <3> QED BY <2>1, <3>1, <3>2
  <2>3. v \in Seq(Plain) /\ Append(v, d) \in Seq(Plain)
    BY <1>4
  <2>4. Append(v, d) \in V
    BY <2>2, <2>3
  <2> HIDE DEF V
  <2> QED BY <1>4, <2>4 DEF InkChar
<1> HIDE DEF V
<1>5. w \in V
  BY <1>1, <1>3, <1>4, InkFold
<1>6. PICK u \in Seq(Plain) : w = b \o u
  BY <1>5 DEF V
<1> DEFINE x == Append(u, c)
<1>7. Append(w, c) = b \o x /\ x \in Seq(Plain) /\ Len(x) = Len(u) + 1 /\ Len(u) \in Nat
  <2>1. Append(b \o u, c) = b \o Append(u, c)
    BY <1>1, <1>6, AppendAssociates DEF PlainTexts
  <2>2. x \in Seq(Plain) /\ Len(x) = Len(u) + 1 /\ Len(u) \in Nat
    BY <1>6
  <2> QED BY <1>6, <2>1, <2>2
<1> HIDE DEF x
<1> DEFINE z == b \o x
<1>8. /\ z \in Seq(Plain) /\ Len(z) = Len(b) + Len(x) /\ Len(b) \in Nat
      /\ \A i \in 1 .. Len(b) : z[i] = b[i]
  BY <1>1, <1>7
<1> HIDE DEF z
<1>9. Len(b) < Len(z)
  BY <1>7, <1>8
<1>10. SubSeq(b, 1, Len(b)) = SubSeq(z, 1, Len(b))
  <2> DEFINE p == SubSeq(b, 1, Len(b))
             q == SubSeq(z, 1, Len(b))
  <2>1. p \in Seq(Plain) /\ Len(p) = Len(b) /\ \A i \in 1 .. Len(b) : p[i] = b[i]
    BY <1>1
  <2>2. q \in Seq(Plain) /\ Len(q) = Len(b) /\ \A i \in 1 .. Len(b) : q[i] = z[i]
    BY <1>1, <1>8, <1>9
  <2> HIDE DEF p, q
  <2>3. \A i \in 1 .. Len(b) : p[i] = q[i]
    BY <1>8, <2>1, <2>2
  <2>4. p = q
    <3>1. Len(p) = Len(q) /\ \A i \in 1 .. Len(p) : p[i] = q[i]
      BY <2>1, <2>2, <2>3
    <3> QED BY <2>1, <2>2, <3>1, SeqEqual
  <2> QED BY <2>4 DEF p, q
<1>11. b # z /\ Len(b) <= Len(z)
  BY <1>8, <1>9
<1>12. IsStrictPrefix(b, z)
  BY <1>10, <1>11 DEF IsStrictPrefix, IsPrefix
<1> QED BY <1>2, <1>7, <1>12 DEF z, b

\* What a text unwraps to has the same ink.
LEMMA InkUnwrapped ==
  ASSUME NEW s \in Seq(Plain), NEW t \in Unwrapped(s)
  PROVE  Ink(t) = Ink(s)
<1> DEFINE L == Len(s)
           u == Unwrapping(s)
           Same(k) == \A x \in u[k] : x \in Seq(Plain) /\ Ink(x) = Ink(SubSeq(s, 1, k))
           T == {k \in Nat : k <= L => Same(k)}
<1>1. L \in Nat /\ \A k \in 0 .. L : u[k] = UpTo(u, s, k) /\ u[k] \in SUBSET Seq(Plain)
  BY UnwrappingIs
<1>2. Unwrapped(s) = u[L]
  BY UnwrappedIs
<1> HIDE DEF u, L
<1>3. 0 \in T
  <2>1. 0 \in 0 .. L
    BY <1>1
  <2>2. u[0] = {<<>>}
    BY <1>1, <2>1 DEF UpTo
  <2>3. SubSeq(s, 1, 0) = <<>> /\ <<>> \in Seq(Plain)
    OBVIOUS
  <2>4. Same(0)
    BY <2>2, <2>3
  <2> HIDE DEF Same
  <2> QED BY <2>4
<1>4. ASSUME NEW n \in T PROVE n + 1 \in T
  <2> SUFFICES ASSUME n + 1 <= L PROVE Same(n + 1)
    OBVIOUS
  <2> DEFINE k == n + 1
  <2>1. n \in Nat /\ n <= L /\ k \in 1 .. L /\ k \in 0 .. L /\ k - 1 = n /\ k # 0
    BY <1>1
  <2>2. Same(n)
    BY <2>1
  <2> DEFINE x == SubSeq(s, 1, n)
             c == s[k]
  <2>3. x \in Seq(Plain) /\ c \in Plain /\ SubSeq(s, 1, k) = Append(x, c)
    BY <2>1 DEF L
  <2> HIDE DEF T, k
  <2>4. u[k] = UpTo(u, s, k)
    BY <1>1, <2>1
  <2> HIDE DEF x, c
  <2>5. Ink(SubSeq(s, 1, k)) = InkChar(Ink(x), c)
    BY <2>3, InkIs
  <2>6. ASSUME NEW y \in u[k] PROVE y \in Seq(Plain) /\ Ink(y) = InkChar(Ink(x), c)
    <3>1. (y \in u[n] /\ c \in Blanks) \/ \E z \in u[n] : y = Append(z, c)
      BY <2>1, <2>4, <2>6 DEF UpTo, Blanks, c
    <3>2. CASE y \in u[n] /\ c \in Blanks
      <4>1. y \in Seq(Plain) /\ Ink(y) = Ink(x)
        BY <2>2, <3>2 DEF x
      <4> HIDE DEF Same
      <4> QED BY <3>2, <4>1 DEF InkChar, Blanks
    <3>3. ASSUME NEW z \in u[n], y = Append(z, c)
          PROVE  y \in Seq(Plain) /\ Ink(y) = InkChar(Ink(x), c)
      <4>1. z \in Seq(Plain) /\ Ink(z) = Ink(x)
        BY <2>2, <3>3 DEF x
      <4> HIDE DEF Same
      <4>2. Ink(Append(z, c)) = InkChar(Ink(z), c)
        BY <2>3, <4>1, InkIs
      <4>3. Append(z, c) \in Seq(Plain)
        BY <2>3, <4>1
      <4> QED BY <3>3, <4>1, <4>2, <4>3
    <3> QED BY <3>1, <3>2, <3>3
  <2>7. Same(k)
    BY <2>5, <2>6
  <2> HIDE DEF Same
  <2> QED BY <2>7 DEF k
<1> HIDE DEF T
<1>5. T = Nat
  <2>1. T \subseteq Nat
    BY DEF T
  <2> QED BY <1>3, <1>4, <2>1, Induction
<1>6. Same(L)
  <2>1. L <= L /\ L \in Nat
    BY <1>1
  <2> HIDE DEF Same
  <2> QED BY <1>5, <2>1 DEF T
<1>7. SubSeq(s, 1, L) = s
  BY DEF L
<1> QED BY <1>2, <1>6, <1>7

\* A text cut into three.
LEMMA InThree ==
  ASSUME NEW text \in Seq(Plain), NEW d \in 1 .. Len(text), NEW e \in 1 .. Len(text), d < e
  PROVE  LET p == SubSeq(text, 1, d)
             t == SubSeq(text, d + 1, e - 1)
         IN /\ p \in Seq(Plain) /\ t \in Seq(Plain) /\ text[e] \in Plain
            /\ SubSeq(text, 1, e) \in Seq(Plain)
            /\ SubSeq(text, 1, e) = Append(p \o t, text[e])
<1> DEFINE p == SubSeq(text, 1, d)
           q == SubSeq(text, 1, e)
           t == SubSeq(text, d + 1, e - 1)
           c == text[e]
<1>1. /\ d \in Nat /\ e \in Nat /\ d >= 1 /\ e <= Len(text) /\ d <= e - 1 /\ e - 1 \in Nat
      /\ Len(text) \in Nat /\ c \in Plain
  OBVIOUS
<1>2. p \in Seq(Plain) /\ Len(p) = d /\ \A i \in 1 .. d : p[i] = text[i]
  BY <1>1
<1>3. q \in Seq(Plain) /\ Len(q) = e /\ \A i \in 1 .. e : q[i] = text[i]
  BY <1>1
<1>4. t \in Seq(Plain) /\ Len(t) = (e - 1) - d
  BY <1>1
<1>5. \A i \in 1 .. (e - 1) - d : t[i] = text[d + i]
  BY <1>1
<1> HIDE DEF p, q, t, c
<1> DEFINE z == p \o t
           w == Append(z, c)
<1>6. z \in Seq(Plain) /\ Len(z) = e - 1
  <2>1. z \in Seq(Plain) /\ Len(z) = Len(p) + Len(t)
    <3>1. \A x, y \in Seq(Plain) : x \o y \in Seq(Plain) /\ Len(x \o y) = Len(x) + Len(y)
      OBVIOUS
    <3>2. p \in Seq(Plain) /\ t \in Seq(Plain)
      BY <1>2, <1>4
    <3> QED BY <3>1, <3>2
  <2> HIDE DEF z
  <2> QED BY <1>1, <1>2, <1>4, <2>1
<1>7. \A i \in 1 .. d : z[i] = text[i]
  BY <1>1, <1>2, <1>4
<1>8. ASSUME NEW i \in d + 1 .. e - 1 PROVE z[i] = text[i]
  <2>1. i \in Nat /\ i - d \in 1 .. (e - 1) - d /\ d + (i - d) = i
    BY <1>1, <1>8
  <2>2. z[i] = t[i - d]
    BY <1>1, <1>2, <1>4, <1>8, <2>1
  <2> QED BY <1>5, <2>1, <2>2
<1> HIDE DEF z
<1>9. w \in Seq(Plain) /\ Len(w) = e /\ w[e] = c /\ \A i \in 1 .. e - 1 : w[i] = z[i]
  BY <1>1, <1>6
<1> HIDE DEF w
<1>10. ASSUME NEW i \in 1 .. e PROVE w[i] = q[i]
  <2>1. i = e \/ i \in 1 .. d \/ i \in d + 1 .. e - 1
    BY <1>1
  <2>2. i # e => i \in 1 .. e - 1
    BY <1>1
  <2>3. e \in 1 .. e
    BY <1>1
  <2>4. i = e => w[i] = q[i]
    BY <1>3, <1>9, <2>3 DEF c
  <2> QED BY <1>3, <1>7, <1>8, <1>9, <2>1, <2>2, <2>4
<1>11. w = q
  BY <1>3, <1>9, <1>10
<1> QED BY <1>1, <1>2, <1>3, <1>4, <1>11 DEF p, q, t, c, w, z

\* The last character of a text is one of its characters.
LEMMA LastIn ==
  ASSUME NEW C, NEW t \in Seq(C), t # <<>>
  PROVE  t[Len(t)] \in C /\ Len(t) \in 1 .. Len(t)
OBVIOUS

\* Where a match may end.
LEMMA EndBounds ==
  ASSUME NEW text \in Seq(Plain), NEW expected \in Seq(Letters)
  PROVE  /\ WrappedEnd(text, expected) \in 0 .. Len(text)
         /\ \A d \in 1 .. Len(text) : d < WrappedEnd(text, expected) => WrappedEnd(text, expected) # 0
<1>1. 1 \in 1 .. Len(text) + 1 /\ 1 \in 1 .. Len(expected) + 1
  OBVIOUS
<1>2. Table(text, expected)[1][1] \in 0 .. Len(text)
  BY <1>1, TableBounds
<1>3. WrappedEnd(text, expected) \in 0 .. Len(text)
  BY <1>2, WrappedEndIs
<1> QED BY <1>3

-----------------------------------------------------------------------------
(* The echo that StripEcho takes.                                          *)

\* Of two matches the longer one has the ink of the other, and more.
LEMMA LongerMatch ==
  ASSUME NEW text \in Seq(Plain), NEW x \in Seq(Letters), NEW y \in Seq(Letters),
         WrappedEnd(text, x) # 0, WrappedEnd(text, x) < WrappedEnd(text, y),
         y[Len(y)] # " "
  PROVE  IsStrictPrefix(Ink(x), Ink(y))
<1> DEFINE d == WrappedEnd(text, x)
           e == WrappedEnd(text, y)
           p == SubSeq(text, 1, d)
           q == SubSeq(text, 1, e)
           t == SubSeq(text, d + 1, e - 1)
           c == text[e]
<1>1. d \in 1 .. Len(text) /\ x \in Unwrapped(p)
  BY MatchUnwraps
<1>2. e # 0
  <2>1. \A z \in 1 .. Len(text) : z < e => e # 0
    BY EndBounds
  <2>2. d < e
    OBVIOUS
  <2> HIDE DEF d, e
  <2> QED BY <1>1, <2>1, <2>2
<1>3. e \in 1 .. Len(text) /\ y \in Unwrapped(q) /\ y # <<>> /\ c = y[Len(y)]
  BY <1>2, MatchUnwraps
<1>4. d < e
  OBVIOUS
<1> HIDE DEF d, e
<1>5. /\ p \in Seq(Plain) /\ t \in Seq(Plain) /\ q \in Seq(Plain) /\ c \in Plain
      /\ q = Append(p \o t, c)
  BY <1>1, <1>3, <1>4, InThree
<1> HIDE DEF p, q, t, c
<1>6. c \notin Blanks
  <2>1. y[Len(y)] \in Letters
    BY <1>3, LastIn
  <2>2. c \in Letters /\ c # " "
    BY <1>3, <2>1
  <2> QED BY <2>2 DEF Letters, Kinds, Blanks, LineEnds
<1>7. Ink(x) = Ink(p) /\ Ink(y) = Ink(q)
  BY <1>1, <1>3, <1>5, InkUnwrapped DEF p, q
<1>8. IsStrictPrefix(Ink(p), Ink(q))
  BY <1>5, <1>6, InkGrows
<1> QED BY <1>7, <1>8

\* The echoes that a device may send.
Expected == {p \o Command : p \in {<<>>, Previous, Trim(Previous)}}

\* What is echoed is among what is looked for.
LEMMA ExpectedIsTried ==
  ASSUME NEW expected \in Expected
  PROVE  /\ expected \in Seq(Letters) /\ expected # <<>>
         /\ \E k \in 1 .. 5 : expected = Tried[k] \o Command /\ (Tried[k] # <<>> \/ k = 5)
<1>1. PICK p \in {<<>>, Previous, Trim(Previous)} : expected = p \o Command
  BY DEF Expected
<1>2. \E k \in 1 .. 5 : p = Tried[k] /\ (Tried[k] # <<>> \/ k = 5)
  <2>1. CASE p = <<>>
    <3>1. 5 \in 1 .. 5
      OBVIOUS
    <3> QED BY <2>1, <3>1, TriedAre
  <2>2. CASE p = Previous /\ p # <<>>
    <3>1. 1 \in 1 .. 5
      OBVIOUS
    <3> QED BY <2>2, <3>1, TriedAre
  <2>3. CASE p = Trim(Previous) /\ p # <<>>
    <3>1. 3 \in 1 .. 5
      OBVIOUS
    <3> QED BY <2>3, <3>1, TriedAre
  <2> QED BY <1>1, <2>1, <2>2, <2>3
<1>3. PICK k \in 1 .. 5 : p = Tried[k] /\ (Tried[k] # <<>> \/ k = 5)
  BY <1>2
<1>4. expected \in Seq(Letters)
  BY <1>1, <1>3, TriedAre
<1>5. expected # <<>>
  <2>1. p \in Seq(Letters) /\ Command \in Seq(Letters) /\ Command # <<>>
    BY <1>3, TriedAre, ResponseAssumption
  <2> QED BY <1>1, <2>1
<1> QED BY <1>1, <1>3, <1>4, <1>5

\* What is looked for ends with the command's last character.
LEMMA NoBlankLast ==
  ASSUME NEW i \in 1 .. 5
  PROVE  LET y == Tried[i] \o Command IN y[Len(y)] # " "
<1> DEFINE p == Tried[i]
           y == p \o Command
<1>1. p \in Seq(Letters)
  BY TriedAre
<1>2. Command \in Seq(Letters) /\ Command # <<>> /\ Command[Len(Command)] # " "
  BY ResponseAssumption
<1> HIDE DEF p
<1>3. y[Len(y)] = Command[Len(Command)]
  <2>1. \A s, t \in Seq(Letters) : t # <<>> => (s \o t)[Len(s \o t)] = t[Len(t)]
    OBVIOUS
  <2> QED BY <1>1, <1>2, <2>1
<1> QED BY <1>2, <1>3 DEF p

\* With no ambiguity all matches end at the same place.
LEMMA OneEnd ==
  ASSUME Unambiguous, NEW text \in Seq(Plain), NEW i \in 1 .. 5, NEW k \in 1 .. 5,
         WrappedEnd(text, Tried[i] \o Command) # 0,
         WrappedEnd(text, Tried[k] \o Command) # 0
  PROVE  WrappedEnd(text, Tried[i] \o Command) = WrappedEnd(text, Tried[k] \o Command)
<1>1. ASSUME NEW g \in 1 .. 5, NEW h \in 1 .. 5, WrappedEnd(text, Tried[g] \o Command) # 0
      PROVE  ~(WrappedEnd(text, Tried[g] \o Command) < WrappedEnd(text, Tried[h] \o Command))
  <2>1. Tried[g] \in MayPrecede /\ Tried[h] \in MayPrecede
    <3>1. ASSUME NEW n \in 1 .. 5 PROVE Tried[n] \in MayPrecede
      <4>1. n = 1 \/ n = 2 \/ n = 3 \/ n = 4 \/ n = 5
        OBVIOUS
      <4> QED BY <4>1, TriedAre DEF MayPrecede
    <3> QED BY <3>1
  <2>2. ~IsStrictPrefix(Ink(Tried[g] \o Command), Ink(Tried[h] \o Command))
    BY <2>1 DEF Unambiguous
  <2> DEFINE x == Tried[g] \o Command
             y == Tried[h] \o Command
  <2>3. x \in Seq(Letters) /\ y \in Seq(Letters) /\ y[Len(y)] # " "
    BY TriedAre, NoBlankLast
  <2>4. WrappedEnd(text, x) # 0
    BY <1>1
  <2>5. ~IsStrictPrefix(Ink(x), Ink(y))
    BY <2>2
  <2> HIDE DEF x, y
  <2>6. ~(WrappedEnd(text, x) < WrappedEnd(text, y))
    BY <2>3, <2>4, <2>5, LongerMatch
  <2> QED BY <2>6 DEF x, y
<1> DEFINE d == WrappedEnd(text, Tried[i] \o Command)
           e == WrappedEnd(text, Tried[k] \o Command)
<1>2. d \in 0 .. Len(text) /\ e \in 0 .. Len(text) /\ Len(text) \in Nat
  <2>1. Tried[i] \o Command \in Seq(Letters) /\ Tried[k] \o Command \in Seq(Letters)
    BY TriedAre
  <2>2. \A y \in Seq(Letters) : WrappedEnd(text, y) \in 0 .. Len(text)
    BY EndBounds
  <2>3. \A t \in Seq(Plain) : Len(t) \in Nat
    OBVIOUS
  <2> QED BY <2>1, <2>2, <2>3
<1>3. ~(d < e) /\ ~(e < d)
  BY <1>1
<1> HIDE DEF d, e
<1>4. d = e
  BY <1>2, <1>3
<1> QED BY <1>4 DEF d, e

\* How much a match takes.
LEMMA MatchTakes ==
  ASSUME NEW text, NEW expected, NEW e \in Nat, e # 0, WrappedEnd(text, expected) = e
  PROVE  /\ CharAt(text, e + 1) = "LF" => MatchWrapped(text, expected) = e + 1
         /\ CharAt(text, e + 1) = "none" => MatchWrapped(text, expected) = e
<1>1. CharAt(text, e + 1) = "LF" => MatchWrapped(text, expected) = e + 1
  BY DEF MatchWrapped, LineEnds
<1>2. CharAt(text, e + 1) = "none" => MatchWrapped(text, expected) = e
  BY DEF MatchWrapped, LineEnds
<1> QED BY <1>1, <1>2

\* Two texts with the same characters are the same.
LEMMA SameText ==
  ASSUME NEW s \in Seq(Plain), NEW t \in Seq(Plain), Len(s) = Len(t),
         \A i \in 1 .. Len(t) : s[i] = t[i]
  PROVE  s = t
OBVIOUS

\* The echo goes, and its line end.
LEMMA EchoGoes ==
  ASSUME Unambiguous, NEW w \in Seq(Plain), w # <<>>, NEW expected \in Expected,
         Greedy(w, expected)
  PROVE  /\ StripEcho(w, Command, Previous, Current) = <<>>
         /\ \A x \in Seq(Plain) :
              StripEcho(Append(w, "LF") \o x, Command, Previous, Current) = x
<1> DEFINE e == Len(w)
<1>1. e \in Nat /\ e # 0
  OBVIOUS
<1>2. ASSUME NEW text \in Seq(Plain), WrappedEnd(text, expected) = e,
             NEW n \in Nat, n >= 1,
             \/ CharAt(text, e + 1) = "LF" /\ n = e + 1
             \/ CharAt(text, e + 1) = "none" /\ n = e
      PROVE  StripEcho(text, Command, Previous, Current) = SubSeq(text, n + 1, Len(text))
  <2>1. PICK k \in 1 .. 5 : expected = Tried[k] \o Command /\ (Tried[k] # <<>> \/ k = 5)
    BY ExpectedIsTried
  <2> HIDE DEF e
  <2>2. \A y : WrappedEnd(text, y) = e => MatchWrapped(text, y) = n
    BY <1>1, <1>2, MatchTakes
  <2>3. MatchWrapped(text, Tried[k] \o Command) = n /\ n > 0
    <3>1. MatchWrapped(text, Tried[k] \o Command) = n
      BY <1>2, <2>1, <2>2
    <3>2. n > 0
      BY <1>2
    <3> QED BY <3>1, <3>2
  <2>4. k \in Matches(text)
    BY <2>1, <2>3, TriedAre DEF Matches
  <2>5. PICK i \in Matches(text) :
          StripEcho(text, Command, Previous, Current)
            = SubSeq(text, MatchWrapped(text, Tried[i] \o Command) + 1, Len(text))
    BY <2>4, StripEchoIs
  <2>6. i \in 1 .. 5 /\ WrappedEnd(text, Tried[i] \o Command) # 0
    BY <1>2, MatchIs
  <2>7. WrappedEnd(text, Tried[i] \o Command) = e
    <3>1. WrappedEnd(text, Tried[k] \o Command) = e
      BY <1>2, <2>1
    <3> QED BY <1>1, <1>2, <2>6, <3>1, OneEnd
  <2>8. MatchWrapped(text, Tried[i] \o Command) = n
    BY <2>2, <2>7
  <2> QED BY <2>5, <2>8
<1>3. StripEcho(w, Command, Previous, Current) = <<>>
  <2>1. WrappedEnd(w, expected) = e
    <3>1. w \o <<>> = w /\ <<>> \in Seq(Plain)
      OBVIOUS
    <3>2. WrappedEnd(w \o <<>>, expected) = e
      BY <3>1 DEF Greedy
    <3> QED BY <3>1, <3>2
  <2>2. CharAt(w, e + 1) = "none"
    <3>1. e + 1 \notin DOMAIN w
      OBVIOUS
    <3> QED BY <3>1 DEF CharAt
  <2>3. e >= 1 /\ e \in Nat
    BY <1>1
  <2>4. StripEcho(w, Command, Previous, Current) = SubSeq(w, e + 1, Len(w))
    <3> HIDE DEF e
    <3> QED BY <1>2, <2>1, <2>2, <2>3
  <2>5. SubSeq(w, e + 1, Len(w)) = <<>>
    OBVIOUS
  <2> QED BY <2>4, <2>5
<1>4. ASSUME NEW x \in Seq(Plain)
      PROVE  StripEcho(Append(w, "LF") \o x, Command, Previous, Current) = x
  <2> DEFINE text == Append(w, "LF") \o x
             n == e + 1
  <2>1. "LF" \in Plain
    BY DEF Plain, Chars, Kinds
  <2>2. /\ text = w \o (<<"LF">> \o x) /\ <<"LF">> \o x \in Seq(Plain)
        /\ text \in Seq(Plain) /\ CharAt(text, e + 1) = "LF"
    BY <1>4, <2>1, NextChar
  <2>3. WrappedEnd(text, expected) = e
    <3> HIDE DEF text
    <3> QED BY <2>2 DEF Greedy
  <2>4. SubSeq(text, n + 1, Len(text)) = x
    <3> DEFINE q == Append(w, "LF")
               z == SubSeq(text, n + 1, Len(text))
    <3>1. q \in Seq(Plain) /\ Len(q) = n
      BY <2>1
    <3> HIDE DEF q
    <3>2. Len(text) = n + Len(x) /\ n \in Nat /\ Len(x) \in Nat
          /\ \A i \in 1 .. Len(x) : text[n + i] = x[i]
      BY <1>1, <1>4, <3>1 DEF q
    <3> HIDE DEF text, n
    <3>3. z \in Seq(Plain) /\ Len(z) = Len(x) /\ \A i \in 1 .. Len(x) : z[i] = text[n + i]
      BY <2>2, <3>2
    <3> HIDE DEF z
    <3>4. z = x
      <4>1. \A i \in 1 .. Len(x) : z[i] = x[i]
        BY <3>2, <3>3
      <4> QED BY <1>4, <3>3, <4>1, SameText
    <3> QED BY <3>4 DEF z
  <2>5. n \in Nat /\ n >= 1
    BY <1>1
  <2>6. StripEcho(text, Command, Previous, Current) = SubSeq(text, n + 1, Len(text))
    <3>1. n = e + 1
      OBVIOUS
    <3>2. /\ text \in Seq(Plain) /\ WrappedEnd(text, expected) = e /\ n \in Nat /\ n >= 1
          /\ CharAt(text, e + 1) = "LF"
      BY <2>2, <2>3, <2>5
    <3> HIDE DEF text, n, e
    <3> QED BY <1>2, <3>1, <3>2
  <2> QED BY <2>4, <2>6
<1> QED BY <1>3, <1>4

-----------------------------------------------------------------------------
(* The phases of a command.                                                *)

\* An echo that is complete.
EchoLine(w) ==
  /\ w \in Seq(Plain) /\ Tidy(w)
  /\ ~Contains(wraps, "space") =>
       w # <<>> /\ \E expected \in Expected : Greedy(w, expected)

\* What comes before the output.
Lead(w) == IF silent THEN w = <<>> ELSE \E v : EchoLine(v) /\ w = Append(v, "LF")

\* The echo is on its way.
Echoing ==
  /\ ~silent /\ handled = 0 /\ shown = <<>>
  /\ acc.partial = FALSE /\ acc.ansi = "text"
  /\ \E expected \in Expected : \E j \in 1 .. Len(expected) + 1 :
       /\ echo = SubSeq(expected, j, Len(expected))
       /\ echo = <<>> => acc.crs = 0 /\ acc.parts # <<>>
       /\ ~Contains(wraps, "space") => Following(acc, expected, j)

\* v has taken what comes before the output, and the output.
OutputOf(v) == \E w, a : Lead(w) /\ Proper(a) /\ v = Prefixed(w, a)

\* v has taken the echo; there is no output.
JustEcho(v) ==
  ~silent /\ handled = 0 /\ shown = <<>> /\ v.partial = FALSE /\ EchoLine(v.parts)

\* The prompt has come after the output, or after the echo if there is none.
Finished ==
  \E v \in Accumulators, before \in Befores :
    /\ v.ansi = "text" /\ acc = Pushed(v, before \o Current)
    /\ OutputOf(v) \/ JustEcho(v)

\* The inductive invariant, beside ResponseInv.
PhaseInv ==
  /\ phase \in {"echo", "output", "done"}
  /\ handled \in Nat /\ shown \in Seq(Chars) /\ wraps \in Seq({"space", "plain"})
  /\ phase = "echo" => Echoing
  /\ phase = "output" => OutputOf(acc)
  /\ phase = "done" => Finished

\* Before any output.
LEMMA NoOutputYet ==
  ASSUME handled = 0, shown = <<>>
  PROVE  Proper(Fresh)
<1>1. Fresh \in Showing /\ Pushed(Fresh, <<>>) = Fresh
  BY FreshShows, FreshIs
<1>2. Twins(Fresh, Fresh, 0)
  <2>1. Fresh.line = <<>> /\ Fresh.parts = <<>>
    BY DEF Fresh
  <2>2. <<>> \in Seq(Calm) /\ 0 \in Nat /\ <<>> \in Seq(Plain)
    OBVIOUS
  <2>3. Gone(<<>>, <<>>, 0) /\ Done(<<>>) = <<>>
    BY <2>2, MarkersRemoved, FreshShows
  <2> QED BY <1>1, <2>1, <2>2, <2>3 DEF Twins, Agree
<1> QED BY <1>1, <1>2 DEF Proper

\* Two bytes, one by one.
LEMMA PushedTwo ==
  ASSUME ResponseInv, acc.partial = FALSE, acc.ansi = "text",
         NEW p \in Simple, NEW q \in Simple
  PROVE  LET b == AppendChar(acc, p)
             w == AppendChar(b, q)
         IN /\ Pushed(acc, <<p, q>>) = w
            /\ Appends(acc, p, b) /\ Appends(b, q, w) /\ b \in Accumulators /\ w \in Accumulators
            /\ b.partial = FALSE /\ b.ansi = "text" /\ w.partial = FALSE /\ w.ansi = "text"
<1> DEFINE b == AppendChar(acc, p)
           w == AppendChar(b, q)
<1>1. p \in Plain /\ q \in Plain /\ Simple \subseteq Chars
  BY DEF Simple, Plain
<1>2. <<p>> \o <<q>> = <<p, q>>
  BY <1>1, PutTogether
<1>3. \A c \in Chars : <<c>> \in Seq(Chars)
  OBVIOUS
<1>4. <<q>> \in Seq(Chars)
  BY <1>1, <1>3, Zenon
<1>5. acc \in Showing
  BY ResponseShows
<1>6. /\ Pushed(acc, <<p>> \o <<q>>) = Pushed(b, <<q>>)
      /\ b \in Showing /\ Appends(acc, p, b) /\ b.ansi = "text" /\ b.partial = FALSE
  BY <1>4, <1>5, PushedOneMore
<1>7. b \in Accumulators
  BY <1>6, LineIs
<1> HIDE DEF b
<1>8. Pushed(b, <<q>>) = w /\ Appends(b, q, w) /\ w \in Accumulators
  BY <1>6, <1>7, PushedSimple
<1> HIDE DEF w
<1>9. w.partial = FALSE /\ w.ansi = "text"
  BY <1>6, <1>8 DEF Appends
<1>10. Pushed(acc, <<p, q>>) = w
  BY <1>2, <1>6, <1>8
<1> QED BY <1>6, <1>7, <1>8, <1>9, <1>10 DEF w, b

\* The invariant holds initially.
LEMMA PhaseInit ==
  ResponseInit => PhaseInv
<1> SUFFICES ASSUME ResponseInit PROVE PhaseInv
  OBVIOUS
<1>1. /\ acc = Fresh /\ handled = 0 /\ shown = <<>> /\ wraps = <<>> /\ silent \in BOOLEAN
  BY DEF ResponseInit
<1>2. handled \in Nat /\ shown \in Seq(Chars) /\ wraps \in Seq({"space", "plain"})
  BY <1>1
<1>3. CASE silent
  <2>1. phase = "output"
    BY <1>3 DEF ResponseInit
  <2>2. Proper(Fresh)
    BY <1>1, NoOutputYet
  <2>3. Fresh = Prefixed(<<>>, Fresh)
    BY DEF Fresh, Prefixed
  <2>4. Lead(<<>>)
    BY <1>3 DEF Lead
  <2>5. OutputOf(acc)
    BY <1>1, <2>2, <2>3, <2>4 DEF OutputOf
  <2> QED BY <1>2, <2>1, <2>5 DEF PhaseInv
<1>4. CASE ~silent
  <2>1. phase = "echo" /\ echo \in Expected
    BY <1>4 DEF ResponseInit, Expected
  <2>2. echo \in Seq(Letters) /\ echo # <<>>
    BY <2>1, ExpectedIsTried
  <2>3. Fresh.partial = FALSE /\ Fresh.ansi = "text" /\ Fresh.parts = <<>> /\ Fresh.crs = 0
    BY DEF Fresh
  <2>4. Following(acc, echo, 1)
    <3>1. Tracks(<<>>, echo, 1, FALSE)
      BY TrackStarts
    <3>2. (acc.crs # 0) = FALSE
      BY <1>1, <2>3
    <3> QED BY <1>1, <2>3, <3>1, <3>2 DEF Following
  <2>5. SubSeq(echo, 1, Len(echo)) = echo /\ 1 \in 1 .. Len(echo) + 1
    BY <2>2
  <2>6. Echoing
    BY <1>1, <1>4, <2>1, <2>2, <2>3, <2>4, <2>5 DEF Echoing
  <2> QED BY <1>2, <2>1, <2>6 DEF PhaseInv
<1> QED BY <1>1, <1>3, <1>4

-----------------------------------------------------------------------------
(* Steps of the echo.                                                      *)

\* What is still to be echoed.
LEMMA StillToCome ==
  ASSUME NEW expected \in Seq(Letters), NEW j \in 1 .. Len(expected) + 1
  PROVE  LET rest == SubSeq(expected, j, Len(expected))
         IN /\ rest # <<>> =>
                 /\ j \in 1 .. Len(expected) /\ j + 1 \in 1 .. Len(expected) + 1
                 /\ Head(rest) = expected[j] /\ expected[j] \in Letters
                 /\ Tail(rest) = SubSeq(expected, j + 1, Len(expected))
            /\ rest = <<>> => j = Len(expected) + 1
OBVIOUS

\* The first of the characters that are inserted.
LEMMA HeadIs ==
  /\ \A p : Head(<<p>>) = p
  /\ \A p, q : Head(<<p, q>>) = p
OBVIOUS

\* One more character of the echo.
LEMMA EchoCharStep ==
  ResponseInv /\ PhaseInv /\ EchoChar => PhaseInv'
<1> SUFFICES ASSUME ResponseInv, PhaseInv, EchoChar PROVE PhaseInv'
  OBVIOUS
<1>1. /\ phase = "echo" /\ echo # <<>> /\ echo' = Tail(echo) /\ acc' = Pushed(acc, <<Head(echo)>>)
      /\ UNCHANGED <<phase, handled, shown, silent, wraps>>
  BY DEF EchoChar, Push
<1>2. Echoing
  BY <1>1 DEF PhaseInv
<1>3. acc \in Accumulators /\ acc.partial = FALSE /\ acc.ansi = "text"
  BY <1>2 DEF ResponseInv, Echoing
<1>4. PICK expected \in Expected : \E j \in 1 .. Len(expected) + 1 :
        /\ echo = SubSeq(expected, j, Len(expected))
        /\ ~Contains(wraps, "space") => Following(acc, expected, j)
  BY <1>2 DEF Echoing
<1>5. PICK j \in 1 .. Len(expected) + 1 :
        /\ echo = SubSeq(expected, j, Len(expected))
        /\ ~Contains(wraps, "space") => Following(acc, expected, j)
  BY <1>4
<1>6. expected \in Seq(Letters)
  BY ExpectedIsTried
<1>7. /\ j \in 1 .. Len(expected) /\ j + 1 \in 1 .. Len(expected) + 1
      /\ Head(echo) = expected[j] /\ Tail(echo) = SubSeq(expected, j + 1, Len(expected))
      /\ expected[j] \in Letters
  BY <1>1, <1>5, <1>6, StillToCome
<1> DEFINE c == expected[j]
           w == AppendChar(acc, c)
<1>8. c \in Simple /\ c \in Plain /\ c \notin LineEnds
  BY <1>7 DEF Letters, Simple, Plain, Chars, Kinds, LineEnds
<1>9. acc' = w /\ Appends(acc, c, w)
  BY <1>1, <1>3, <1>7, <1>8, PushedSimple
<1>10. w.partial = FALSE /\ w.ansi = "text" /\ w.crs = 0 /\ w.parts # <<>>
  <2>1. acc.parts \o Repeat("CR", acc.crs) \in Seq(Plain)
    <3>1. acc.parts \in Seq(Plain) /\ acc.crs \in Nat
      BY <1>3 DEF Accumulators
    <3>2. Repeat("CR", acc.crs) \in Seq(Plain)
      BY <3>1, RepeatIs
    <3> QED BY <3>1, <3>2
  <2>2. \A s \in Seq(Plain), d \in Plain : Append(s, d) # <<>>
    OBVIOUS
  <2> HIDE DEF w, c
  <2> QED BY <1>3, <1>8, <1>9, <2>1, <2>2 DEF Appends
<1>11. ~Contains(wraps, "space") => Following(w, expected, j + 1)
  BY <1>3, <1>5, <1>6, <1>7, FollowsOn
<1> HIDE DEF w, c
<1>12. Echoing'
  <2>1. (~silent /\ handled = 0 /\ shown = <<>>)'
    BY <1>1, <1>2 DEF Echoing
  <2>2. /\ echo' = SubSeq(expected, j + 1, Len(expected))
        /\ (~Contains(wraps, "space"))' => Following(acc', expected, j + 1)
    BY <1>1, <1>7, <1>9, <1>11
  <2> QED BY <1>7, <1>9, <1>10, <2>1, <2>2 DEF Echoing
<1> QED BY <1>1, <1>12 DEF PhaseInv

\* What a wrap adds to the history.
LEMMA WrapNoted ==
  ASSUME NEW s \in Seq({"space", "plain"}), NEW x \in {"space", "plain"}
  PROVE  /\ Append(s, x) \in Seq({"space", "plain"})
         /\ ~Contains(Append(s, x), "space") => ~Contains(s, "space") /\ x # "space"
<1> DEFINE t == Append(s, x)
<1>1. /\ t \in Seq({"space", "plain"}) /\ Len(t) = Len(s) + 1 /\ t[Len(s) + 1] = x
      /\ \A i \in 1 .. Len(s) : t[i] = s[i]
  OBVIOUS
<1>2. Len(s) \in Nat /\ Len(s) + 1 \in 1 .. Len(s) + 1
      /\ \A i \in 1 .. Len(s) : i \in 1 .. Len(s) + 1
  OBVIOUS
<1> HIDE DEF t
<1> QED BY <1>1, <1>2 DEF Contains, t

\* A wrap of the echo.
LEMMA WrapStep ==
  ASSUME ResponseInv, PhaseInv,
         NEW inserted \in {<<"LF">>, <<" ", "LF">>, <<" ", "CR">>}, Wrap(inserted)
  PROVE  PhaseInv'
<1> DEFINE note == IF Head(inserted) = " " /\ Head(echo) = " " THEN "space" ELSE "plain"
<1>1. /\ phase = "echo" /\ echo # <<>> /\ echo' = echo /\ acc' = Pushed(acc, inserted)
      /\ wraps' = Append(wraps, note)
      /\ UNCHANGED <<phase, handled, shown, silent>>
  BY DEF Wrap, Push
<1>2. Echoing /\ wraps \in Seq({"space", "plain"}) /\ note \in {"space", "plain"}
  BY <1>1 DEF PhaseInv
<1>3. acc \in Accumulators /\ acc.partial = FALSE /\ acc.ansi = "text"
  BY <1>2 DEF ResponseInv, Echoing
<1>4. PICK expected \in Expected : \E j \in 1 .. Len(expected) + 1 :
        /\ echo = SubSeq(expected, j, Len(expected))
        /\ ~Contains(wraps, "space") => Following(acc, expected, j)
  BY <1>2 DEF Echoing
<1>5. PICK j \in 1 .. Len(expected) + 1 :
        /\ echo = SubSeq(expected, j, Len(expected))
        /\ ~Contains(wraps, "space") => Following(acc, expected, j)
  BY <1>4
<1>6. expected \in Seq(Letters)
  BY ExpectedIsTried
<1>7. j \in 1 .. Len(expected) /\ Head(echo) = expected[j]
  BY <1>1, <1>5, <1>6, StillToCome, Zenon
<1>8. /\ wraps' \in Seq({"space", "plain"})
      /\ ~Contains(wraps', "space") => ~Contains(wraps, "space") /\ note # "space"
  <2> HIDE DEF note
  <2> QED BY <1>1, <1>2, WrapNoted
<1>9. Head(<<"LF">>) = "LF" /\ Head(<<" ", "LF">>) = " " /\ Head(<<" ", "CR">>) = " "
  BY HeadIs, Zenon
<1>10. /\ acc'.partial = FALSE /\ acc'.ansi = "text"
       /\ ~Contains(wraps', "space") => Following(acc', expected, j)
  <2>1. "LF" \in Simple /\ "CR" \in Simple /\ " " \in Simple
    BY DEF Simple, Plain, Chars, Kinds
  <2> HIDE DEF note
  <2>2. CASE inserted = <<"LF">>
    <3> DEFINE w == AppendChar(acc, "LF")
    <3>1. acc' = w /\ Appends(acc, "LF", w)
      BY <1>1, <1>3, <2>1, <2>2, PushedSimple
    <3>2. ~Contains(wraps, "space") => Following(w, expected, j)
      BY <1>3, <1>5, <1>6, <1>7, FollowsOn
    <3> HIDE DEF w
    <3>3. w.partial = FALSE /\ w.ansi = "text"
      BY <1>3, <3>1 DEF Appends
    <3> QED BY <1>8, <3>1, <3>2, <3>3
  <2>3. ASSUME NEW q \in {"LF", "CR"}, inserted = <<" ", q>>
        PROVE  /\ acc'.partial = FALSE /\ acc'.ansi = "text"
               /\ ~Contains(wraps', "space") => Following(acc', expected, j)
    <3> DEFINE w == AppendChar(AppendChar(acc, " "), q)
    <3>1. acc' = w /\ w.partial = FALSE /\ w.ansi = "text"
      BY <1>1, <1>3, <2>1, <2>3, PushedTwo
    <3>2. ASSUME ~Contains(wraps', "space") PROVE Following(w, expected, j)
      <4>1. expected[j] # " "
        <5>1. Head(inserted) = " "
          BY <1>9, <2>3
        <5>2. note # "space"
          BY <1>8, <3>2
        <5> QED BY <1>7, <5>1, <5>2 DEF note
      <4>2. Following(acc, expected, j)
        BY <1>5, <1>8, <3>2
      <4>3. /\ Following(AppendChar(AppendChar(acc, " "), "LF"), expected, j)
            /\ Following(AppendChar(AppendChar(acc, " "), "CR"), expected, j)
        BY <1>3, <1>6, <1>7, <4>1, <4>2, FollowsOn
      <4> QED BY <2>3, <4>3
    <3> HIDE DEF w
    <3> QED BY <3>1, <3>2
  <2>4. inserted = <<"LF">> \/ \E q \in {"LF", "CR"} : inserted = <<" ", q>>
    OBVIOUS
  <2> QED BY <2>2, <2>3, <2>4
<1>11. Echoing'
  <2>1. (~silent /\ handled = 0 /\ shown = <<>>)' /\ echo' # <<>>
    BY <1>1, <1>2 DEF Echoing
  <2>2. echo' = SubSeq(expected, j, Len(expected)) /\ j \in 1 .. Len(expected) + 1
    BY <1>1, <1>5
  <2> QED BY <1>10, <2>1, <2>2 DEF Echoing
<1> QED BY <1>1, <1>8, <1>11 DEF PhaseInv

\* Where the echo is complete, so is its line.
LEMMA EchoIsLine ==
  ASSUME ResponseInv, Echoing, echo = <<>>
  PROVE  EchoLine(acc.parts)
<1>1. acc \in Accumulators /\ acc.parts \in Seq(Plain) /\ Tidy(acc.parts)
  BY DEF ResponseInv, Accumulators
<1>2. acc.crs = 0 /\ acc.parts # <<>>
  BY DEF Echoing
<1>3. PICK expected \in Expected : \E j \in 1 .. Len(expected) + 1 :
        /\ echo = SubSeq(expected, j, Len(expected))
        /\ ~Contains(wraps, "space") => Following(acc, expected, j)
  BY DEF Echoing
<1>4. PICK j \in 1 .. Len(expected) + 1 :
        /\ echo = SubSeq(expected, j, Len(expected))
        /\ ~Contains(wraps, "space") => Following(acc, expected, j)
  BY <1>3
<1>5. expected \in Seq(Letters)
  BY ExpectedIsTried
<1>6. j = Len(expected) + 1
  BY <1>4, <1>5, StillToCome
<1>7. ~Contains(wraps, "space") => Greedy(acc.parts, expected)
  BY <1>1, <1>2, <1>4, <1>5, <1>6, FollowsToTheEnd
<1> QED BY <1>1, <1>2, <1>7 DEF EchoLine

\* The line of the echo ends.
LEMMA EchoEndsStep ==
  ResponseInv /\ PhaseInv /\ EchoEnds => PhaseInv'
<1> SUFFICES ASSUME ResponseInv, PhaseInv, EchoEnds PROVE PhaseInv'
  OBVIOUS
<1>1. /\ phase = "echo" /\ echo = <<>> /\ phase' = "output" /\ acc' = Pushed(acc, <<"CR", "LF">>)
      /\ UNCHANGED <<handled, shown, silent, wraps, ordinary>>
  BY DEF EchoEnds, Push
<1>2. Echoing
  BY <1>1 DEF PhaseInv
<1>3. acc \in Accumulators /\ acc.partial = FALSE /\ acc.ansi = "text"
  BY <1>2 DEF ResponseInv, Echoing
<1>4. EchoLine(acc.parts)
  BY <1>1, <1>2, EchoIsLine
<1>5. PICK v : v = acc.parts
  OBVIOUS
<1>6. PICK x : x = Append(v, "LF")
  OBVIOUS
<1> DEFINE b == AppendChar(acc, "CR")
           w == AppendChar(b, "LF")
<1>7. /\ acc' = w /\ Appends(acc, "CR", b) /\ Appends(b, "LF", w) /\ w \in Accumulators
      /\ w.partial = FALSE /\ w.ansi = "text"
  <2>1. "LF" \in Simple /\ "CR" \in Simple
    BY DEF Simple, Plain, Chars, Kinds
  <2> QED BY <1>1, <1>3, <2>1, PushedTwo
<1> HIDE DEF w, b
<1>8. w.parts = x /\ w.line = <<>> /\ w.col = 0 /\ w.crs = 0
  BY <1>5, <1>6, <1>7 DEF Appends
<1>9. x \in Seq(Plain) /\ Tidy(x)
  BY <1>7, <1>8 DEF Accumulators
<1>10. w = Prefixed(x, Fresh)
  <2> DEFINE z == Prefixed(x, Fresh)
  <2>1. /\ z \in Accumulators /\ z.parts = x \o Fresh.parts /\ z.line = Fresh.line
        /\ z.col = Fresh.col /\ z.crs = Fresh.crs /\ z.partial = Fresh.partial
        /\ z.ansi = Fresh.ansi
    BY <1>9, FreshIs, PrefixedIs
  <2> HIDE DEF z
  <2>2. /\ Fresh.parts = <<>> /\ Fresh.line = <<>> /\ Fresh.col = 0 /\ Fresh.crs = 0
        /\ Fresh.partial = FALSE /\ Fresh.ansi = "text"
    BY DEF Fresh
  <2>3. x \o <<>> = x
    BY <1>9
  <2>4. \A o \in Accumulators :
          o = [parts |-> o.parts, line |-> o.line, col |-> o.col, crs |-> o.crs,
               partial |-> o.partial, ansi |-> o.ansi]
    BY DEF Accumulators
  <2>5. w = [parts |-> w.parts, line |-> w.line, col |-> w.col, crs |-> w.crs,
             partial |-> w.partial, ansi |-> w.ansi]
    BY <1>7, <2>4
  <2>6. z = [parts |-> z.parts, line |-> z.line, col |-> z.col, crs |-> z.crs,
             partial |-> z.partial, ansi |-> z.ansi]
    BY <2>1, <2>4
  <2>7. /\ w.parts = z.parts /\ w.line = z.line /\ w.col = z.col /\ w.crs = z.crs
        /\ w.partial = z.partial /\ w.ansi = z.ansi
    BY <1>7, <1>8, <2>1, <2>2, <2>3
  <2>8. w = z
    BY <2>5, <2>6, <2>7, Zenon
  <2> QED BY <2>8 DEF z
<1>11. Proper(Fresh)'
  <2>1. handled = 0 /\ shown = <<>>
    BY <1>2 DEF Echoing
  <2>2. Proper(Fresh)
    BY <2>1, NoOutputYet
  <2> QED BY <1>1, <2>2 DEF Proper
<1>12. Lead(x)'
  <2>1. EchoLine(v)'
    BY <1>1, <1>4, <1>5 DEF EchoLine
  <2>2. ~silent'
    BY <1>1, <1>2 DEF Echoing
  <2> QED BY <1>6, <2>1, <2>2 DEF Lead
<1>13. OutputOf(acc)'
  <2>1. acc' = Prefixed(x, Fresh)
    BY <1>7, <1>10
  <2> QED BY <1>11, <1>12, <2>1 DEF OutputOf
<1>14. handled' \in Nat /\ shown' \in Seq(Chars) /\ wraps' \in Seq({"space", "plain"})
  BY <1>1 DEF PhaseInv
<1> QED BY <1>1, <1>13, <1>14 DEF PhaseInv

-----------------------------------------------------------------------------
(* Steps of the output and of the prompt.                                  *)

\* What comes before the output is tidy.
LEMMA LeadIs ==
  ASSUME NEW w, Lead(w)
  PROVE  w \in Seq(Plain) /\ Tidy(w)
<1>1. CASE silent
  <2>1. <<>> \in Seq(Plain) /\ Tidy(<<>>)
    BY DEF Tidy
  <2> QED BY <1>1, <2>1 DEF Lead
<1>2. CASE ~silent
  <2>1. PICK v : EchoLine(v) /\ w = Append(v, "LF")
    BY <1>2 DEF Lead
  <2>2. v \in Seq(Plain) /\ Tidy(v) /\ 0 \in Nat /\ "LF" \in Plain
    BY <2>1 DEF EchoLine, Plain, Chars, Kinds
  <2>3. Append(v \o Repeat("CR", 0), "LF") \in Seq(Plain) /\ Tidy(Append(v \o Repeat("CR", 0), "LF"))
    BY <2>2, TidyAppend
  <2>4. v \o Repeat("CR", 0) = v
    BY <2>2, NoCrs
  <2> QED BY <2>1, <2>3, <2>4
<1> QED BY <1>1, <1>2

\* An accumulator that is proper after what it takes makes the invariant hold.
LEMMA Takes ==
  ASSUME PhaseInv, phase = "output", phase' = phase, NEW received \in Seq(Chars),
         acc' = Pushed(acc, received), silent' = silent, wraps' = wraps,
         handled' \in Nat, shown' \in Seq(Chars),
         \A a, w : Proper(a) /\ w \in Seq(Plain) /\ Tidy(w) /\ acc = Prefixed(w, a)
                     => Proper(Pushed(a, received))'
  PROVE  PhaseInv'
<1>1. PICK w, a : Lead(w) /\ Proper(a) /\ acc = Prefixed(w, a)
  BY DEF PhaseInv, OutputOf
<1>2. w \in Seq(Plain) /\ Tidy(w) /\ a \in Accumulators
  BY <1>1, LeadIs DEF Proper, Showing
<1>3. PICK b : b = Pushed(a, received)
  OBVIOUS
<1>4. acc' = Prefixed(w, b)
  BY <1>1, <1>2, <1>3, PrefixedPushed
<1>5. Proper(b)'
  BY <1>1, <1>2, <1>3
<1>6. Lead(w)'
  <2>1. ASSUME NEW v, EchoLine(v) PROVE EchoLine(v)'
    BY <2>1 DEF EchoLine
  <2> QED BY <1>1, <2>1 DEF Lead
<1>7. OutputOf(acc)'
  BY <1>4, <1>5, <1>6 DEF OutputOf
<1> QED BY <1>7 DEF PhaseInv

\* Bytes of the output.
LEMMA ProperChunk ==
  ASSUME NEW a, Proper(a), shown \in Seq(Chars), NEW chunk \in Seq(Chars),
         shown' = shown \o chunk, handled' = handled,
         \/ ordinary' = TRUE
         \/ ordinary' = ordinary /\ chunk \in Seq(Kinds)
  PROVE  Proper(Pushed(a, chunk))'
<1> DEFINE p == Pushed(Fresh, shown)
           q == Pushed(Fresh, shown')
           b == Pushed(a, chunk)
<1>1. q = Pushed(p, chunk)
  BY FreshIs, PushedInPieces
<1>2. b \in Showing
  BY PushedShows DEF Proper
<1>3. handled' = 0 => b = q
  BY <1>1 DEF Proper
<1>4. ~ordinary' => Twins(b, q, handled')
  <2>1. ASSUME ~ordinary' PROVE Twins(b, q, handled')
    <3>1. ~ordinary /\ chunk \in Seq(Kinds)
      BY <2>1
    <3>2. Twins(a, p, handled)
      BY <3>1 DEF Proper
    <3> HIDE DEF p, q
    <3>3. Twins(b, Pushed(p, chunk), handled)
      BY <3>1, <3>2, TwinsPushed
    <3> HIDE DEF b
    <3> QED BY <1>1, <3>3
  <2> QED BY <2>1
<1> QED BY <1>2, <1>3, <1>4 DEF Proper

\* A marker that is paged.
LEMMA ProperPaged ==
  ASSUME NEW a, Proper(a), Clear(a), shown \in Seq(Chars), handled \in Nat,
         NEW after \in Afters, after \in Seq(Chars), <<"more">> \o after \in Seq(Chars),
         shown' = shown \o after, handled' = handled + 1, ordinary' = ordinary
  PROVE  Proper(Pushed(a, <<"more">> \o after))'
<1> DEFINE p == Pushed(Fresh, shown)
           q == Pushed(Fresh, shown')
           m == <<"more">> \o after
           b == Pushed(a, m)
<1>1. q = Pushed(p, after)
  BY FreshIs, PushedInPieces
<1>2. b \in Showing
  <2> HIDE DEF m
  <2> QED BY PushedShows DEF Proper, m
<1>3. handled' # 0
  OBVIOUS
<1>4. ~ordinary' => Twins(b, q, handled')
  <2>1. ASSUME ~ordinary' PROVE Twins(b, q, handled')
    <3>1. Twins(a, p, handled)
      BY <2>1 DEF Proper
    <3> HIDE DEF p, q
    <3>2. Twins(b, Pushed(p, after), handled + 1)
      BY <3>1, TwinsPaged
    <3> HIDE DEF b
    <3> QED BY <1>1, <3>2
  <2> QED BY <2>1
<1> HIDE DEF b, q
<1>5. handled' = 0 => b = q
  BY <1>3
<1>6. Proper(b)'
  BY <1>2, <1>4, <1>5 DEF Proper, q
<1> QED BY <1>6 DEF b, m

\* Bytes of the output arrive.
LEMMA PutChunkStep ==
  ASSUME PhaseInv, NEW chunk \in SeqOf(Bytes, MaxChunk), PutChunk(chunk)
  PROVE  PhaseInv'
<1>1. /\ phase = "output" /\ phase' = phase /\ acc' = Pushed(acc, chunk)
      /\ shown' = shown \o chunk /\ UNCHANGED <<silent, wraps, handled, ordinary>>
  BY DEF PutChunk, Puts, Push
<1>2. chunk \in Seq(Kinds) /\ chunk \in Seq(Chars)
  <2>1. MaxChunk \in Nat /\ Bytes \subseteq Kinds
    BY ResponseAssumption
  <2>2. PICK n \in 0 .. MaxChunk : chunk \in [1 .. n -> Bytes]
    BY DEF SeqOf
  <2>3. chunk \in Seq(Kinds)
    BY <2>1, <2>2
  <2> QED BY <2>3, GivenTexts
<1>3. handled \in Nat /\ shown \in Seq(Chars)
  BY DEF PhaseInv
<1>4. shown \o chunk \in Seq(Chars)
  BY <1>2, <1>3
<1>5. ASSUME NEW a, Proper(a) PROVE Proper(Pushed(a, chunk))'
  BY <1>1, <1>2, <1>3, <1>5, ProperChunk
<1> QED BY <1>1, <1>2, <1>3, <1>4, <1>5, Takes

\* A marker that is part of the output.
LEMMA OrdinaryMarkerStep ==
  ASSUME PhaseInv, PutOrdinaryMarker
  PROVE  PhaseInv'
<1> DEFINE m == <<"more", "LF">>
<1>1. /\ phase = "output" /\ phase' = phase /\ acc' = Pushed(acc, m)
      /\ shown' = shown \o m /\ UNCHANGED <<silent, wraps, handled>> /\ ordinary' = TRUE
  BY DEF PutOrdinaryMarker, Puts, Push
<1>2. m \in Seq(Chars)
  BY SmallTexts
<1>3. PICK s : s = m
  OBVIOUS
<1>4. handled \in Nat /\ shown \in Seq(Chars) /\ s \in Seq(Chars)
  BY <1>2, <1>3 DEF PhaseInv
<1> HIDE DEF m
<1>5. shown \o s \in Seq(Chars)
  BY <1>4
<1>6. ASSUME NEW a, Proper(a) PROVE Proper(Pushed(a, s))'
  BY <1>1, <1>3, <1>4, <1>6, ProperChunk
<1> QED BY <1>1, <1>3, <1>4, <1>5, <1>6, Takes

\* A marker that is paged.
LEMMA PagedMarkerStep ==
  ASSUME ResponseInv, PhaseInv, PutPagedMarker
  PROVE  PhaseInv'
<1>1. PICK after \in Afters : Puts(1, <<"more">> \o after, after)
  BY DEF PutPagedMarker, Afters
<1>2. PICK s : s = <<"more">> \o after
  OBVIOUS
<1>3. /\ phase = "output" /\ phase' = phase /\ acc' = Pushed(acc, s)
      /\ shown' = shown \o after /\ UNCHANGED <<silent, wraps, ordinary>>
      /\ handled' = handled + 1 /\ AtLineStart
  BY <1>1, <1>2 DEF PutPagedMarker, Puts, Push
<1>4. after \in Seq(Chars) /\ s \in Seq(Chars)
  <2>1. \A x \in {<<"LF">>, <<"CR", " ", "CR">>} : x \in Seq(Chars)
    BY SmallTexts, Zenon
  <2>2. after \in Seq(Chars) /\ <<"more">> \in Seq(Chars)
    BY <2>1, SmallTexts DEF Afters
  <2> QED BY <1>2, <2>2, JoinAssociates DEF Texts
<1>5. handled \in Nat /\ shown \in Seq(Chars)
  BY DEF PhaseInv
<1>6. shown \o after \in Seq(Chars) /\ handled + 1 \in Nat
  BY <1>4, <1>5, JoinAssociates DEF Texts
<1>7. Clear(acc)
  <2>1. input \in Seq(Chars) /\ acc = Pushed(Fresh, input)
    BY DEF ResponseInv, ChunksDoNotMatter
  <2>2. acc.ansi = "text" /\ LastLine(input) = <<>>
    BY <1>3 DEF AtLineStart
  <2> QED BY <2>1, <2>2, LineStarts
<1>8. ASSUME NEW a, NEW w, Proper(a), w \in Seq(Plain), Tidy(w), acc = Prefixed(w, a)
      PROVE  Proper(Pushed(a, s))'
  <2>1. a \in Accumulators
    BY <1>8 DEF Proper, Showing
  <2>2. Clear(a)
    <3>1. acc.line = a.line /\ acc.col = a.col /\ acc.crs = a.crs
          /\ acc.partial = a.partial /\ acc.ansi = a.ansi
      BY <1>8, <2>1, PrefixedIs
    <3> QED BY <1>7, <3>1 DEF Clear
  <2>3. Proper(Pushed(a, <<"more">> \o after))'
    BY <1>2, <1>3, <1>4, <1>5, <1>8, <2>2, ProperPaged
  <2> QED BY <1>2, <2>3
<1> QED BY <1>3, <1>4, <1>6, <1>8, Takes

\* The prompt arrives.
LEMMA PromptStep ==
  ASSUME ResponseInv, PhaseInv, PutPrompt
  PROVE  PhaseInv'
<1>1. PICK before \in Befores : acc' = Pushed(acc, before \o Current)
  BY DEF PutPrompt, Push, Befores
<1>2. /\ phase # "done" /\ phase' = "done" /\ echo = <<>> /\ acc.ansi = "text"
      /\ UNCHANGED <<handled, shown, silent, wraps, ordinary>>
  BY DEF PutPrompt
<1>3. PICK v : v = acc
  OBVIOUS
<1>4. v \in Accumulators /\ v.ansi = "text" /\ acc' = Pushed(v, before \o Current)
  BY <1>1, <1>2, <1>3 DEF ResponseInv
<1>5. \A x : EchoLine(x) => EchoLine(x)'
  BY <1>2 DEF EchoLine
<1>6. CASE phase = "output"
  <2>1. PICK w, a : Lead(w) /\ Proper(a) /\ v = Prefixed(w, a)
    BY <1>3, <1>6 DEF PhaseInv, OutputOf
  <2>2. Lead(w)' /\ Proper(a)'
    BY <1>2, <1>5, <2>1 DEF Lead, Proper
  <2>3. OutputOf(v)'
    BY <2>1, <2>2 DEF OutputOf
  <2>4. Finished'
    BY <1>4, <2>3 DEF Finished
  <2> QED BY <1>2, <2>4 DEF PhaseInv
<1>7. CASE phase = "echo"
  <2>1. Echoing
    BY <1>7 DEF PhaseInv
  <2>2. EchoLine(v.parts)
    BY <1>2, <1>3, <2>1, EchoIsLine
  <2>3. JustEcho(v)'
    BY <1>2, <1>3, <1>5, <2>1, <2>2 DEF JustEcho, Echoing
  <2>4. Finished'
    BY <1>4, <2>3 DEF Finished
  <2> QED BY <1>2, <2>4 DEF PhaseInv
<1> QED BY <1>2, <1>6, <1>7 DEF PhaseInv

\* Every step keeps the invariant.
LEMMA PhaseStep ==
  ResponseInv /\ PhaseInv /\ [ResponseNext]_responseVars => PhaseInv'
<1> SUFFICES ASSUME ResponseInv, PhaseInv, [ResponseNext]_responseVars PROVE PhaseInv'
  OBVIOUS
<1>1. CASE EchoChar
  BY <1>1, EchoCharStep
<1>2. CASE \E inserted \in {<<"LF">>, <<" ", "LF">>, <<" ", "CR">>} : Wrap(inserted)
  BY <1>2, WrapStep, Zenon
<1>3. CASE EchoEnds
  BY <1>3, EchoEndsStep
<1>4. CASE \E chunk \in SeqOf(Bytes, MaxChunk) : PutChunk(chunk)
  BY <1>4, PutChunkStep
<1>5. CASE PutOrdinaryMarker
  BY <1>5, OrdinaryMarkerStep
<1>6. CASE PutPagedMarker
  BY <1>6, PagedMarkerStep
<1>7. CASE PutPrompt
  BY <1>7, PromptStep
<1>8. CASE UNCHANGED responseVars
  <2>1. /\ UNCHANGED <<phase, echo, acc, handled, shown, silent, wraps, ordinary>>
    BY <1>8 DEF responseVars
  <2>2. \A x : EchoLine(x) => EchoLine(x)'
    BY <2>1 DEF EchoLine
  <2>3. \A x : (Lead(x) => Lead(x)') /\ (Proper(x) => Proper(x)')
    BY <2>1, <2>2 DEF Lead, Proper
  <2>4. \A x : (OutputOf(x) => OutputOf(x)') /\ (JustEcho(x) => JustEcho(x)')
    BY <2>1, <2>2, <2>3 DEF OutputOf, JustEcho
  <2>5. Finished => Finished'
    BY <2>1, <2>4 DEF Finished
  <2>6. OutputOf(acc) => OutputOf(acc)'
    BY <2>1, <2>3 DEF OutputOf
  <2>7. Echoing => Echoing'
    BY <2>1 DEF Echoing
  <2> QED BY <2>1, <2>5, <2>6, <2>7 DEF PhaseInv
<1> QED BY <1>1, <1>2, <1>3, <1>4, <1>5, <1>6, <1>7, <1>8 DEF ResponseNext

\* In each phase the accumulator is what the echo, the output and the prompt
\* make of it (Response: the whole of the device and of OutputAccumulator).
THEOREM Phases == ResponseSpec => [](ResponseInv /\ PhaseInv)
<1>1. ResponseInit => ResponseInv /\ PhaseInv
  BY ResponseInitInv, PhaseInit
<1>2. ResponseInv /\ PhaseInv /\ [ResponseNext]_responseVars => (ResponseInv /\ PhaseInv)'
  BY ResponseStep, PhaseStep
<1> QED BY <1>1, <1>2, PTL DEF ResponseSpec

-----------------------------------------------------------------------------
(* What a command returns.                                                 *)

\* When the prompt has come, the text that is cleaned is what came before it.
LEMMA CleanedText ==
  ASSUME ResponseInv, Completes, NEW v \in Accumulators, NEW before \in Befores,
         v.ansi = "text", acc = Pushed(v, before \o Current)
  PROVE  Stdout = RemoveHandledMarkers(ApplyCarriageReturns(
                    StripEcho(Ended(v).parts, Command, Previous, Current)), handled)
<1>1. acc.partial = FALSE /\ UpToLastLine(Snapshot(acc)) = Ended(v).parts
  BY PromptGoes
<1>2. acc.line = Current
  BY DEF Completes
<1> QED BY <1>1, <1>2, StdoutIs

\* Without an echo the output is what is shown, or it begins with the command.
LEMMA LossIsEcho ==
  ResponseInv /\ PhaseInv => OnlyTheEchoIsLost
<1> SUFFICES ASSUME ResponseInv, PhaseInv, Completes, silent, handled = 0 \/ ~ordinary,
                    Stdout # Screen(shown)
             PROVE  BeginsWithEcho(Whole(shown))
  BY DEF OnlyTheEchoIsLost
<1>1. PICK v \in Accumulators, before \in Befores :
        /\ v.ansi = "text" /\ acc = Pushed(v, before \o Current)
        /\ OutputOf(v) \/ JustEcho(v)
  BY DEF Completes, PhaseInv, Finished
<1>2. PICK w, a : Lead(w) /\ Proper(a) /\ v = Prefixed(w, a)
  BY <1>1 DEF OutputOf, JustEcho
<1>3. v = a
  <2>1. a \in Accumulators /\ a.parts \in Seq(Plain)
    BY <1>2, LineIs DEF Proper
  <2>2. w = <<>>
    BY <1>2 DEF Lead
  <2>3. <<>> \o a.parts = a.parts
    BY <2>1
  <2>4. [a EXCEPT !.parts = a.parts] = a
    BY <2>1 DEF Accumulators
  <2> QED BY <1>2, <2>2, <2>3, <2>4 DEF Prefixed
<1> DEFINE x == Ended(a).parts
           b == Ended(Pushed(Fresh, shown))
<1>4. Stdout = RemoveHandledMarkers(ApplyCarriageReturns(
                 StripEcho(x, Command, Previous, Current)), handled)
  BY <1>1, <1>3, CleanedText
<1>5. handled \in Nat /\ shown \in Seq(Chars)
  BY DEF PhaseInv
<1>6. /\ RemoveHandledMarkers(ApplyCarriageReturns(x), handled) = Screen(shown)
      /\ x \in Seq(Plain) /\ b \in Showing
      /\ Whole(shown) = Text(b) /\ Agree(x, b.parts)
  BY <1>1, <1>2, <1>3, <1>5, ScreenOfOutput
<1> HIDE DEF x, b
<1>7. Matches(x) # {}
  BY <1>4, <1>6, StripEchoIs
<1>8. PICK i \in Matches(x) : TRUE
  BY <1>7
<1> DEFINE expected == Tried[i] \o Command
           e == WrappedEnd(x, expected)
           y == b.parts \o Repeat("CR", b.crs)
<1>9. /\ i \in 1 .. 5 /\ expected \in Seq(Letters)
      /\ e # 0 /\ CharAt(x, e + 1) \in LineEnds \cup {"none"}
  BY <1>6, MatchIs
<1>10. e \in 1 .. Len(x) /\ Unmarked(SubSeq(x, 1, e)) /\ expected \in Unwrapped(SubSeq(x, 1, e))
  <2> HIDE DEF expected
  <2> QED BY <1>6, <1>9, MatchUnwraps
<1> HIDE DEF expected, e
<1>11. b.parts \in Seq(Plain) /\ b.crs \in Nat
  BY <1>6, LineIs
<1>12. /\ e \in DOMAIN y /\ CharAt(y, e + 1) \in LineEnds \cup {"none"}
       /\ SubSeq(y, 1, e) = SubSeq(x, 1, e)
  BY <1>6, <1>9, <1>10, <1>11, EchoInBoth
<1>13. Whole(shown) = y
  BY <1>6 DEF Text
<1> HIDE DEF y
<1>14. Tried[i] \in MayPrecede
  <2>1. i = 1 \/ i = 2 \/ i = 3 \/ i = 4 \/ i = 5
    BY <1>9
  <2> QED BY <2>1, TriedAre DEF MayPrecede
<1>15. Tried[i] \o Command \in Unwrapped(SubSeq(y, 1, e))
  BY <1>10, <1>12 DEF expected
<1> QED BY <1>12, <1>13, <1>14, <1>15 DEF BeginsWithEcho

\* When the device does not echo, output is lost only if its first line is the
\* command (Response: onSettled and cleanOutput).
THEOREM OnlyEchoesLost == ResponseSpec => []OnlyTheEchoIsLost
BY Phases, LossIsEcho, PTL

\* With an echo that is not ambiguous the output is what is shown.
LEMMA OutputIsShown ==
  ASSUME Unambiguous, ResponseInv, PhaseInv
  PROVE  StdoutIsTheOutput
<1> SUFFICES ASSUME Completes, ~silent, ~Contains(wraps, "space"), handled = 0 \/ ~ordinary
             PROVE  Stdout = Screen(shown)
  BY DEF StdoutIsTheOutput
<1>1. PICK v \in Accumulators, before \in Befores :
        /\ v.ansi = "text" /\ acc = Pushed(v, before \o Current)
        /\ OutputOf(v) \/ JustEcho(v)
  BY DEF Completes, PhaseInv, Finished
<1>2. Stdout = RemoveHandledMarkers(ApplyCarriageReturns(
                 StripEcho(Ended(v).parts, Command, Previous, Current)), handled)
  BY <1>1, CleanedText
<1>3. handled \in Nat /\ shown \in Seq(Chars)
  BY DEF PhaseInv
<1>4. CASE OutputOf(v)
  <2>1. PICK w, a : Lead(w) /\ Proper(a) /\ v = Prefixed(w, a)
    BY <1>4 DEF OutputOf
  <2>2. w \in Seq(Plain) /\ Tidy(w) /\ a \in Accumulators
    BY <2>1, LeadIs, LineIs DEF Proper
  <2>3. PICK u : EchoLine(u) /\ w = Append(u, "LF")
    BY <2>1 DEF Lead
  <2>4. u \in Seq(Plain) /\ u # <<>> /\ \E expected \in Expected : Greedy(u, expected)
    BY <2>3 DEF EchoLine
  <2> DEFINE x == Ended(a).parts
  <2>5. a.ansi = "text"
    BY <1>1, <2>1, <2>2, PrefixedIs
  <2>6. RemoveHandledMarkers(ApplyCarriageReturns(x), handled) = Screen(shown) /\ x \in Seq(Plain)
    BY <1>3, <2>1, <2>5, ScreenOfOutput
  <2>7. Ended(v).parts = Append(u, "LF") \o x
    <3>1. Ended(v) = Prefixed(w, Ended(a)) /\ Ended(a) \in Accumulators
      BY <2>1, <2>2, EndedIs
    <3>2. Prefixed(w, Ended(a)).parts = w \o x
      BY <2>2, <3>1, PrefixedIs
    <3> QED BY <2>3, <3>1, <3>2
  <2> HIDE DEF x
  <2>8. StripEcho(Append(u, "LF") \o x, Command, Previous, Current) = x
    BY <2>4, <2>6, EchoGoes
  <2> QED BY <1>2, <2>6, <2>7, <2>8
<1>5. CASE JustEcho(v)
  <2>1. handled = 0 /\ shown = <<>> /\ v.partial = FALSE /\ EchoLine(v.parts)
    BY <1>5 DEF JustEcho
  <2>2. v.parts \in Seq(Plain) /\ v.parts # <<>> /\ \E expected \in Expected : Greedy(v.parts, expected)
    BY <2>1 DEF EchoLine
  <2>3. Ended(v) = v
    BY <2>1, EndedIs
  <2>4. StripEcho(v.parts, Command, Previous, Current) = <<>>
    BY <2>2, EchoGoes
  <2>5. Proper(Fresh) /\ Fresh.ansi = "text" /\ Fresh.partial = FALSE /\ Fresh.parts = <<>>
    BY <2>1, NoOutputYet DEF Fresh
  <2>6. Ended(Fresh) = Fresh
    BY <2>5, FreshIs, EndedIs
  <2>7. RemoveHandledMarkers(ApplyCarriageReturns(<<>>), handled) = Screen(shown)
    BY <1>3, <2>5, <2>6, ScreenOfOutput
  <2> QED BY <1>2, <2>3, <2>4, <2>7
<1> QED BY <1>1, <1>4, <1>5

\* Where no echo that is looked for begins like another one and goes on, stdout
\* is the output as the screen shows it: the echo, the paged markers and the
\* prompt are gone and nothing else is (Response: onSettled and cleanOutput).
THEOREM StdoutIsOutput ==
  ASSUME Unambiguous
  PROVE  ResponseSpec => []StdoutIsTheOutput
<1>1. ResponseInv /\ PhaseInv => StdoutIsTheOutput
  BY OutputIsShown
<1> QED BY <1>1, Phases, PTL
=============================================================================
