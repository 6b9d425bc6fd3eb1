---------------------------- MODULE OutputProofs ----------------------------
(***************************************************************************)
(* Lemmas about the text that a command's output becomes: what the folds   *)
(* of the output accumulator and of the cleaning compute of any text, what *)
(* the accumulator holds after any bytes, and what stdout is when the      *)
(* prompt has come: the screen of the accumulated text, less the echo and  *)
(* the markers.                                                            *)
(***************************************************************************)
EXTENDS ResponseProofs

-----------------------------------------------------------------------------
(* The folds of applyCarriageReturns and removeHandledMarkers.             *)

SplitChar(t, ch) ==
  IF ch = "LF" THEN [done |-> Append(t.done \o ApplyCrLine(t.line), ch), line |-> <<>>]
  ELSE [t EXCEPT !.line = Append(@, ch)]

SplitStep(V, C) == [p \in V \X C |-> SplitChar(p[1], p[2])]
SplitAll(b, s) == FoldLeft(SplitChar, b, s)

RemoveChar(t, ch) ==
  IF ch = "more" /\ t.left > 0 THEN [t EXCEPT !.left = @ - 1]
  ELSE [t EXCEPT !.out = Append(@, ch)]

RemoveStep(V, C) == [p \in V \X C |-> RemoveChar(p[1], p[2])]
RemoveAll(b, s) == FoldLeft(RemoveChar, b, s)

\* The fold of SplitChar is the last state of a run of it.
LEMMA SplitRun ==
  ASSUME NEW V, NEW C, \A v \in V, c \in C : SplitChar(v, c) \in V,
         NEW b \in V, NEW s \in Seq(C)
  PROVE  \E r \in Runs(SplitStep(V, C), V, b, s) : SplitAll(b, s) = r[Len(s)]
<1> DEFINE F == SplitStep(V, C)
           D == SUBSET (1 .. Len(s))
           P(i) == i = [S \in D |-> IF S = {} THEN b
                                    ELSE SplitChar(i[S \ {Max(S)}], s[Max(S)])]
           i == CHOOSE x : P(x)
<1>1. IsStep(F, V, C) /\ \A v \in V, c \in C : F[<<v, c>>] = SplitChar(v, c)
  BY DEF SplitStep, IsStep
<1> HIDE DEF F
<1>2. \E x : P(x)
  <2> HIDE DEF P
  <2>1. PICK x : FoldsOver(x, Len(s), F, V, b, s)
    BY <1>1, FoldIsDefined
  <2>2. x[{}] = b /\ x = [S \in D |-> x[S]]
    BY <2>1 DEF FoldsOver, D
  <2>3. ASSUME NEW S \in D, S # {}
        PROVE  x[S] = SplitChar(x[S \ {Max(S)}], s[Max(S)])
    <3>1. /\ Max(S) \in 1 .. Len(s)
          /\ S \ {Max(S)} \in D
          /\ x[S] = F[<<x[S \ {Max(S)}], s[Max(S)]>>]
      BY <2>1, <2>3 DEF FoldsOver, D
    <3>2. x[S \ {Max(S)}] \in V /\ s[Max(S)] \in C
      BY <2>1, <3>1 DEF FoldsOver, D
    <3> QED BY <3>1, <3>2, <1>1
  <2> HIDE DEF D
  <2>4. P(x)
    BY <2>2, <2>3 DEF P
  <2> QED BY <2>4
<1>3. P(i)
  BY <1>2
<1>4. SplitAll(b, s) = i[1 .. Len(s)]
  <2>1. DOMAIN s = 1 .. Len(s)
    OBVIOUS
  <2> QED BY <2>1 DEF SplitAll, FoldLeft, MapThenFoldSet
<1> HIDE DEF i
<1>5. i[{}] = b
  <2>1. {} \in D
    OBVIOUS
  <2> HIDE DEF D
  <2> QED BY <1>3, <2>1
<1>6. ASSUME NEW S \in D, S # {}, i[S \ {Max(S)}] \in V, s[Max(S)] \in C
      PROVE  i[S] = F[<<i[S \ {Max(S)}], s[Max(S)]>>]
  <2> HIDE DEF D
  <2>1. i[S] = SplitChar(i[S \ {Max(S)}], s[Max(S)])
    BY <1>3, <1>6
  <2> QED BY <2>1, <1>1, <1>6
<1>7. \E r \in Runs(F, V, b, s) : i[1 .. Len(s)] = r[Len(s)]
  <2> HIDE DEF P
  <2>1. FollowsFold(i, F, V, C, b, s)
    BY <1>5, <1>6 DEF FollowsFold
  <2> HIDE DEF D
  <2> QED BY <1>1, <2>1, FoldIsRun
<1> QED BY <1>4, <1>7 DEF F

\* So the fold is in V, and every run of the step ends in it.
LEMMA SplitFold ==
  ASSUME NEW V, NEW C, \A v \in V, c \in C : SplitChar(v, c) \in V,
         NEW b \in V, NEW s \in Seq(C)
  PROVE  /\ SplitAll(b, s) \in V
         /\ \A q \in Runs(SplitStep(V, C), V, b, s) : q[Len(s)] = SplitAll(b, s)
<1>1. IsStep(SplitStep(V, C), V, C)
  BY DEF SplitStep, IsStep
<1>2. PICK r \in Runs(SplitStep(V, C), V, b, s) : SplitAll(b, s) = r[Len(s)]
  BY SplitRun
<1>3. r[Len(s)] \in V
  BY DEF Runs
<1>4. ASSUME NEW q \in Runs(SplitStep(V, C), V, b, s) PROVE q[Len(s)] = r[Len(s)]
  BY <1>1, <1>2, RunsAgree
<1> QED BY <1>2, <1>3, <1>4

\* A fold over s \o t goes on over t from where it was after s.
LEMMA SplitJoins ==
  ASSUME NEW V, NEW C, \A v \in V, c \in C : SplitChar(v, c) \in V,
         NEW b \in V, NEW s \in Seq(C), NEW t \in Seq(C)
  PROVE  SplitAll(b, s \o t) = SplitAll(SplitAll(b, s), t)
<1>1. IsStep(SplitStep(V, C), V, C) /\ s \o t \in Seq(C)
  BY DEF SplitStep, IsStep
<1>2. PICK r \in Runs(SplitStep(V, C), V, b, s \o t) : SplitAll(b, s \o t) = r[Len(s \o t)]
  BY <1>1, SplitRun
<1>3. /\ r[Len(s)] \in V
      /\ \E q \in Runs(SplitStep(V, C), V, b, s) : q[Len(s)] = r[Len(s)]
      /\ \E w \in Runs(SplitStep(V, C), V, r[Len(s)], t) : w[Len(t)] = r[Len(s \o t)]
  BY <1>1, <1>2, RunsJoin
<1>4. SplitAll(b, s) = r[Len(s)]
  BY <1>3, SplitFold
<1>5. SplitAll(r[Len(s)], t) = r[Len(s \o t)]
  BY <1>3, SplitFold
<1> QED BY <1>2, <1>4, <1>5

\* A fold over nothing, and over one character.
LEMMA SplitOne ==
  ASSUME NEW V, NEW C, \A v \in V, c \in C : SplitChar(v, c) \in V, NEW b \in V
  PROVE  /\ \A s \in Seq(C) : Len(s) = 0 => SplitAll(b, s) = b
         /\ \A c \in C : SplitAll(b, <<c>>) = SplitChar(b, c)
<1>1. ASSUME NEW s \in Seq(C), Len(s) = 0 PROVE SplitAll(b, s) = b
  <2>1. PICK r \in Runs(SplitStep(V, C), V, b, s) : SplitAll(b, s) = r[Len(s)]
    BY SplitRun
  <2> QED BY <1>1, <2>1 DEF Runs
<1>2. ASSUME NEW c \in C PROVE SplitAll(b, <<c>>) = SplitChar(b, c)
  <2> DEFINE s == <<c>>
  <2>1. s \in Seq(C) /\ Len(s) = 1 /\ s[1] = c
    OBVIOUS
  <2> HIDE DEF s
  <2>2. PICK r \in Runs(SplitStep(V, C), V, b, s) : SplitAll(b, s) = r[Len(s)]
    BY ZenonT(40), <2>1, SplitRun
  <2>3. r[0] = b /\ r[1] = SplitStep(V, C)[<<r[0], s[1]>>]
    <3>1. 1 \in 1 .. Len(s) /\ 1 - 1 = 0
      BY <2>1
    <3> QED BY <3>1 DEF Runs
  <2>4. SplitStep(V, C)[<<b, c>>] = SplitChar(b, c)
    BY DEF SplitStep
  <2> QED BY <2>1, <2>2, <2>3, <2>4 DEF s
<1> QED BY <1>1, <1>2

\* The fold of RemoveChar is the last state of a run of it.
LEMMA RemoveRun ==
  ASSUME NEW V, NEW C, \A v \in V, c \in C : RemoveChar(v, c) \in V,
         NEW b \in V, NEW s \in Seq(C)
  PROVE  \E r \in Runs(RemoveStep(V, C), V, b, s) : RemoveAll(b, s) = r[Len(s)]
<1> DEFINE F == RemoveStep(V, C)
           D == SUBSET (1 .. Len(s))
           P(i) == i = [S \in D |-> IF S = {} THEN b
                                    ELSE RemoveChar(i[S \ {Max(S)}], s[Max(S)])]
           i == CHOOSE x : P(x)
<1>1. IsStep(F, V, C) /\ \A v \in V, c \in C : F[<<v, c>>] = RemoveChar(v, c)
  BY DEF RemoveStep, IsStep
<1> HIDE DEF F
<1>2. \E x : P(x)
  <2> HIDE DEF P
  <2>1. PICK x : FoldsOver(x, Len(s), F, V, b, s)
    BY <1>1, FoldIsDefined
  <2>2. x[{}] = b /\ x = [S \in D |-> x[S]]
    BY <2>1 DEF FoldsOver, D
  <2>3. ASSUME NEW S \in D, S # {}
        PROVE  x[S] = RemoveChar(x[S \ {Max(S)}], s[Max(S)])
    <3>1. /\ Max(S) \in 1 .. Len(s)
          /\ S \ {Max(S)} \in D
          /\ x[S] = F[<<x[S \ {Max(S)}], s[Max(S)]>>]
      BY <2>1, <2>3 DEF FoldsOver, D
    <3>2. x[S \ {Max(S)}] \in V /\ s[Max(S)] \in C
      BY <2>1, <3>1 DEF FoldsOver, D
    <3> QED BY <3>1, <3>2, <1>1
  <2> HIDE DEF D
  <2>4. P(x)
    BY <2>2, <2>3 DEF P
  <2> QED BY <2>4
<1>3. P(i)
  BY <1>2
<1>4. RemoveAll(b, s) = i[1 .. Len(s)]
  <2>1. DOMAIN s = 1 .. Len(s)
    OBVIOUS
  <2> QED BY <2>1 DEF RemoveAll, FoldLeft, MapThenFoldSet
<1> HIDE DEF i
<1>5. i[{}] = b
  <2>1. {} \in D
    OBVIOUS
  <2> HIDE DEF D
  <2> QED BY <1>3, <2>1
<1>6. ASSUME NEW S \in D, S # {}, i[S \ {Max(S)}] \in V, s[Max(S)] \in C
      PROVE  i[S] = F[<<i[S \ {Max(S)}], s[Max(S)]>>]
  <2> HIDE DEF D
  <2>1. i[S] = RemoveChar(i[S \ {Max(S)}], s[Max(S)])
    BY <1>3, <1>6
  <2> QED BY <2>1, <1>1, <1>6
<1>7. \E r \in Runs(F, V, b, s) : i[1 .. Len(s)] = r[Len(s)]
  <2> HIDE DEF P
  <2>1. FollowsFold(i, F, V, C, b, s)
    BY <1>5, <1>6 DEF FollowsFold
  <2> HIDE DEF D
  <2> QED BY <1>1, <2>1, FoldIsRun
<1> QED BY <1>4, <1>7 DEF F

\* So the fold is in V, and every run of the step ends in it.
LEMMA RemoveFold ==
  ASSUME NEW V, NEW C, \A v \in V, c \in C : RemoveChar(v, c) \in V,
         NEW b \in V, NEW s \in Seq(C)
  PROVE  /\ RemoveAll(b, s) \in V
         /\ \A q \in Runs(RemoveStep(V, C), V, b, s) : q[Len(s)] = RemoveAll(b, s)
<1>1. IsStep(RemoveStep(V, C), V, C)
  BY DEF RemoveStep, IsStep
<1>2. PICK r \in Runs(RemoveStep(V, C), V, b, s) : RemoveAll(b, s) = r[Len(s)]
  BY RemoveRun
<1>3. r[Len(s)] \in V
  BY DEF Runs
<1>4. ASSUME NEW q \in Runs(RemoveStep(V, C), V, b, s) PROVE q[Len(s)] = r[Len(s)]
  BY <1>1, <1>2, RunsAgree
<1> QED BY <1>2, <1>3, <1>4

\* A fold over s \o t goes on over t from where it was after s.
LEMMA RemoveJoins ==
  ASSUME NEW V, NEW C, \A v \in V, c \in C : RemoveChar(v, c) \in V,
         NEW b \in V, NEW s \in Seq(C), NEW t \in Seq(C)
  PROVE  RemoveAll(b, s \o t) = RemoveAll(RemoveAll(b, s), t)
<1>1. IsStep(RemoveStep(V, C), V, C) /\ s \o t \in Seq(C)
  BY DEF RemoveStep, IsStep
<1>2. PICK r \in Runs(RemoveStep(V, C), V, b, s \o t) : RemoveAll(b, s \o t) = r[Len(s \o t)]
  BY <1>1, RemoveRun
<1>3. /\ r[Len(s)] \in V
      /\ \E q \in Runs(RemoveStep(V, C), V, b, s) : q[Len(s)] = r[Len(s)]
      /\ \E w \in Runs(RemoveStep(V, C), V, r[Len(s)], t) : w[Len(t)] = r[Len(s \o t)]
  BY <1>1, <1>2, RunsJoin
<1>4. RemoveAll(b, s) = r[Len(s)]
  BY <1>3, RemoveFold
<1>5. RemoveAll(r[Len(s)], t) = r[Len(s \o t)]
  BY <1>3, RemoveFold
<1> QED BY <1>2, <1>4, <1>5

\* A fold over nothing, and over one character.
LEMMA RemoveOne ==
  ASSUME NEW V, NEW C, \A v \in V, c \in C : RemoveChar(v, c) \in V, NEW b \in V
  PROVE  /\ \A s \in Seq(C) : Len(s) = 0 => RemoveAll(b, s) = b
         /\ \A c \in C : RemoveAll(b, <<c>>) = RemoveChar(b, c)
<1>1. ASSUME NEW s \in Seq(C), Len(s) = 0 PROVE RemoveAll(b, s) = b
  <2>1. PICK r \in Runs(RemoveStep(V, C), V, b, s) : RemoveAll(b, s) = r[Len(s)]
    BY RemoveRun
  <2> QED BY <1>1, <2>1 DEF Runs
<1>2. ASSUME NEW c \in C PROVE RemoveAll(b, <<c>>) = RemoveChar(b, c)
  <2> DEFINE s == <<c>>
  <2>1. s \in Seq(C) /\ Len(s) = 1 /\ s[1] = c
    OBVIOUS
  <2> HIDE DEF s
  <2>2. PICK r \in Runs(RemoveStep(V, C), V, b, s) : RemoveAll(b, s) = r[Len(s)]
    BY ZenonT(40), <2>1, RemoveRun
  <2>3. r[0] = b /\ r[1] = RemoveStep(V, C)[<<r[0], s[1]>>]
    <3>1. 1 \in 1 .. Len(s) /\ 1 - 1 = 0
      BY <2>1
    <3> QED BY <3>1 DEF Runs
  <2>4. RemoveStep(V, C)[<<b, c>>] = RemoveChar(b, c)
    BY DEF RemoveStep
  <2> QED BY <2>1, <2>2, <2>3, <2>4 DEF s
<1> QED BY <1>1, <1>2

-----------------------------------------------------------------------------
(* The lines of a text as the screen shows them.                           *)

Splittings == [done : Seq(Plain), line : Seq(Plain)]
NoLines == [done |-> <<>>, line |-> <<>>]

\* What applyCarriageReturns makes of the text up to its last LF.
Done(text) == SplitAll(NoLines, text).done

\* A character leaves a done part and a last line.
LEMMA SplitCloses ==
  ASSUME NEW v \in Splittings, NEW c \in Plain
  PROVE  LET w == SplitChar(v, c)
         IN /\ w \in Splittings
            /\ c = "LF" => w.done = Append(v.done \o ApplyCrLine(v.line), c) /\ w.line = <<>>
            /\ c # "LF" => w.done = v.done /\ w.line = Append(v.line, c)
<1>1. v = [done |-> v.done, line |-> v.line] /\ v.done \in Seq(Plain) /\ v.line \in Seq(Plain)
  BY DEF Splittings
<1>2. ApplyCrLine(v.line) \in Seq(Plain)
  BY <1>1, ApplyCrLineShows
<1>3. CASE c = "LF"
  <2>1. Append(v.done \o ApplyCrLine(v.line), c) \in Seq(Plain) /\ <<>> \in Seq(Plain)
    BY <1>1, <1>2
  <2> QED BY <1>3, <2>1 DEF SplitChar, Splittings
<1>4. CASE c # "LF"
  <2>1. Append(v.line, c) \in Seq(Plain)
    BY <1>1
  <2>2. SplitChar(v, c) = [done |-> v.done, line |-> Append(v.line, c)]
    BY <1>1, <1>4 DEF SplitChar
  <2> QED BY <1>1, <1>4, <2>1, <2>2 DEF Splittings
<1> QED BY <1>3, <1>4

\* The last line split off is the last line.
LEMMA SplitIs ==
  ASSUME NEW t \in Seq(Plain)
  PROVE  SplitAll(NoLines, t) \in Splittings /\ SplitAll(NoLines, t).line = LastLine(t)
<1> DEFINE F == SplitStep(Splittings, Plain)
<1>1. Len(t) \in Nat /\ NoLines \in Splittings /\ NoLines.line = <<>>
  BY DEF Splittings, NoLines
<1>2. /\ \A v \in Splittings, c \in Plain : SplitChar(v, c) \in Splittings
      /\ \A v \in Splittings, c \in Plain : F[<<v, c>>] = SplitChar(v, c)
  BY SplitCloses DEF SplitStep
<1> HIDE DEF F
<1>3. PICK r \in Runs(F, Splittings, NoLines, t) : SplitAll(NoLines, t) = r[Len(t)]
  BY <1>1, <1>2, SplitRun DEF F
<1>4. /\ r \in [0 .. Len(t) -> Splittings] /\ r[0] = NoLines
      /\ \A k \in 1 .. Len(t) : r[k] = F[<<r[k - 1], t[k]>>]
  BY DEF Runs
<1> DEFINE T == {n \in Nat : n <= Len(t) => r[n].line = LastLine(SubSeq(t, 1, n))}
<1>5. 0 \in T
  <2>1. SubSeq(t, 1, 0) = <<>>
    BY <1>1
  <2>2. LastLine(<<>>) = <<>>
    BY DEF LastLine, LastLF, SelectLastInSeq
  <2> QED BY <1>1, <1>4, <2>1, <2>2
<1>6. ASSUME NEW n \in T PROVE n + 1 \in T
  <2> SUFFICES ASSUME n + 1 <= Len(t) PROVE r[n + 1].line = LastLine(SubSeq(t, 1, n + 1))
    OBVIOUS
  <2>1. /\ n \in Nat /\ n + 1 \in 1 .. Len(t) /\ (n + 1) - 1 = n /\ n \in 0 .. Len(t)
        /\ t[n + 1] \in Plain /\ r[n] \in Splittings
    BY <1>1, <1>4
  <2>2. r[n].line = LastLine(SubSeq(t, 1, n))
    BY <2>1
  <2> HIDE DEF T
  <2> DEFINE p == SubSeq(t, 1, n)
             c == t[n + 1]
  <2>3. r[n + 1] = SplitChar(r[n], c)
    BY <1>2, <1>4, <2>1
  <2>4. p \in Seq(Plain) /\ SubSeq(t, 1, n + 1) = Append(p, c) /\ c \in Plain
    BY <2>1
  <2> HIDE DEF p, c
  <2>5. CASE c = "LF"
    <3>1. SplitChar(r[n], c).line = <<>>
      BY <2>1, <2>4, <2>5, SplitCloses
    <3>2. LastLine(Append(p, "LF")) = <<>>
      BY <2>4, LastLineEnds
    <3> QED BY <2>3, <2>4, <2>5, <3>1, <3>2
  <2>6. CASE c # "LF"
    <3>1. r[n + 1].line = Append(r[n].line, c)
      BY <2>1, <2>3, <2>4, <2>6, SplitCloses
    <3>2. <<c>> \in Seq(Plain) /\ (\A i \in 1 .. Len(<<c>>) : <<c>>[i] # "LF") /\ Append(p, c) = p \o <<c>>
      BY <2>4, <2>6
    <3>3. LastLine(p) \in Seq(Plain) /\ LastLine(p \o <<c>>) = LastLine(p) \o <<c>>
      BY <2>4, <3>2, LastLineGoesOn
    <3>4. Append(LastLine(p), c) = LastLine(p) \o <<c>>
      BY <2>4, <3>3
    <3>5. r[n].line = LastLine(p)
      BY <2>2 DEF p
    <3> QED BY <2>4, <3>1, <3>2, <3>3, <3>4, <3>5
  <2> QED BY <2>5, <2>6
<1> HIDE DEF T
<1>7. T = Nat
  BY <1>5, <1>6, Induction DEF T
<1>8. r[Len(t)].line = LastLine(SubSeq(t, 1, Len(t)))
  BY <1>1, <1>7 DEF T
<1>9. SubSeq(t, 1, Len(t)) = t
  BY <1>1
<1>10. r[Len(t)] \in Splittings
  BY <1>1, <1>4
<1> QED BY <1>3, <1>8, <1>9, <1>10

\* A character appended ends the last line or makes it longer.
LEMMA DoneChar ==
  ASSUME NEW t \in Seq(Plain), NEW c \in Plain
  PROVE  /\ Done(t) \in Seq(Plain)
         /\ c # "LF" => Done(Append(t, c)) = Done(t)
         /\ c = "LF" => Done(Append(t, c)) = Append(Done(t) \o ApplyCrLine(LastLine(t)), c)
<1> DEFINE w == SplitAll(NoLines, t)
           one == <<c>>
<1>1. w \in Splittings /\ w.line = LastLine(t) /\ w.done = Done(t)
  BY SplitIs DEF Done
<1>2. one \in Seq(Plain) /\ Append(t, c) = t \o one /\ NoLines \in Splittings
  BY DEF NoLines, Splittings
<1>3. \A v \in Splittings, x \in Plain : SplitChar(v, x) \in Splittings
  BY SplitCloses
<1> HIDE DEF w, one
<1>4. SplitAll(NoLines, t \o one) = SplitAll(w, one)
  BY <1>2, <1>3, SplitJoins DEF w
<1>5. SplitAll(w, one) = SplitChar(w, c)
  BY <1>1, <1>3, SplitOne DEF one
<1>6. Done(Append(t, c)) = SplitChar(w, c).done
  BY <1>2, <1>4, <1>5 DEF Done
<1>7. Done(t) \in Seq(Plain)
  BY <1>1 DEF Splittings
<1> QED BY ZenonT(40), <1>1, <1>6, <1>7, SplitCloses

\* A text without an LF adds no line.
LEMMA DoneGoesOn ==
  ASSUME NEW t \in Seq(Plain), NEW u \in Seq(Plain), \A i \in 1 .. Len(u) : u[i] # "LF"
  PROVE  Done(t \o u) = Done(t)
<1> DEFINE T == {n \in Nat : n <= Len(u) => Done(t \o SubSeq(u, 1, n)) = Done(t)}
<1>1. 0 \in T
  <2>1. SubSeq(u, 1, 0) = <<>> /\ t \o <<>> = t
    OBVIOUS
  <2> QED BY <2>1
<1>2. ASSUME NEW n \in T PROVE n + 1 \in T
  <2> SUFFICES ASSUME n + 1 <= Len(u) PROVE Done(t \o SubSeq(u, 1, n + 1)) = Done(t)
    OBVIOUS
  <2>1. n \in Nat /\ n + 1 \in 1 .. Len(u) /\ Done(t \o SubSeq(u, 1, n)) = Done(t)
    OBVIOUS
  <2> HIDE DEF T
  <2> DEFINE p == SubSeq(u, 1, n)
             c == u[n + 1]
  <2>2. p \in Seq(Plain) /\ SubSeq(u, 1, n + 1) = Append(p, c) /\ c \in Plain /\ c # "LF"
    BY <2>1
  <2> HIDE DEF p, c
  <2>3. Append(t \o p, c) = t \o Append(p, c)
    BY <2>2, AppendAssociates DEF PlainTexts
  <2>4. t \o p \in Seq(Plain)
    BY <2>2
  <2>5. Done(Append(t \o p, c)) = Done(t \o p)
    BY <2>2, <2>4, DoneChar
  <2> QED BY <2>1, <2>2, <2>3, <2>5 DEF p
<1> HIDE DEF T
<1>3. T = Nat
  BY <1>1, <1>2, Induction DEF T
<1>4. Len(u) \in Nat /\ SubSeq(u, 1, Len(u)) = u
  OBVIOUS
<1>5. Done(t \o SubSeq(u, 1, Len(u))) = Done(t)
  BY <1>3, <1>4 DEF T
<1> QED BY <1>4, <1>5

\* The screen shows the lines that are done, and the last one.
LEMMA ScreenIs ==
  ASSUME NEW t \in Seq(Plain)
  PROVE  ApplyCarriageReturns(t) = Done(t) \o ApplyCrLine(LastLine(t))
<1> DEFINE all == SplitAll([done |-> <<>>, line |-> <<>>], t)
<1>1. ApplyCarriageReturns(t) = all.done \o ApplyCrLine(all.line)
  BY DEF ApplyCarriageReturns, SplitAll, SplitChar, FoldLeft, MapThenFoldSet
<1>2. all.done = Done(t) /\ all.line = LastLine(t)
  BY SplitIs DEF Done, NoLines
<1> QED BY <1>1, <1>2

-----------------------------------------------------------------------------
(* Markers removed.                                                        *)

Removings == [out : Seq(Plain), left : Nat]
Unmarked(text) == \A i \in 1 .. Len(text) : text[i] # "more"

\* y is x without the first markers, n of them at most.
Gone(x, y, n) ==
  \E k \in 0 .. n : \A h \in Nat :
    h >= k => RemoveAll([out |-> <<>>, left |-> h], x) = [out |-> y, left |-> h - k]

\* A character is kept or a marker is removed.
LEMMA RemoveCloses ==
  ASSUME NEW v \in Removings, NEW c \in Plain
  PROVE  LET w == RemoveChar(v, c)
         IN /\ w \in Removings
            /\ c # "more" \/ v.left = 0 => w = [out |-> Append(v.out, c), left |-> v.left]
            /\ c = "more" /\ v.left > 0 => w = [out |-> v.out, left |-> v.left - 1]
<1>1. v = [out |-> v.out, left |-> v.left] /\ v.out \in Seq(Plain) /\ v.left \in Nat
  BY DEF Removings
<1>2. CASE c # "more" \/ v.left = 0
  <2>1. RemoveChar(v, c) = [out |-> Append(v.out, c), left |-> v.left]
    <3>1. RemoveChar(v, c) = [v EXCEPT !.out = Append(@, c)]
      BY <1>1, <1>2 DEF RemoveChar
    <3> QED BY <1>1, <3>1
  <2>2. Append(v.out, c) \in Seq(Plain)
    BY <1>1
  <2> QED BY <1>1, <1>2, <2>1, <2>2 DEF Removings
<1>3. CASE c = "more" /\ v.left > 0
  <2>1. RemoveChar(v, c) = [out |-> v.out, left |-> v.left - 1]
    BY <1>1, <1>3 DEF RemoveChar
  <2>2. v.left - 1 \in Nat
    BY <1>1, <1>3
  <2> QED BY <1>1, <1>3, <2>1, <2>2 DEF Removings
<1> QED BY <1>1, <1>2, <1>3

\* A text without markers is kept, and any text when none is to be removed.
LEMMA RemoveKeeps ==
  ASSUME NEW v \in Removings, NEW u \in Seq(Plain), Unmarked(u) \/ v.left = 0
  PROVE  RemoveAll(v, u) = [out |-> v.out \o u, left |-> v.left]
<1> DEFINE F == RemoveStep(Removings, Plain)
           r == [k \in 0 .. Len(u) |-> [out |-> v.out \o SubSeq(u, 1, k), left |-> v.left]]
<1>1. /\ Len(u) \in Nat /\ v = [out |-> v.out, left |-> v.left]
      /\ v.out \in Seq(Plain) /\ v.left \in Nat
  BY DEF Removings
<1>2. r \in [0 .. Len(u) -> Removings] /\ r[0] = v
  <2>1. \A k \in 0 .. Len(u) : v.out \o SubSeq(u, 1, k) \in Seq(Plain)
    BY <1>1
  <2>2. v.out \o SubSeq(u, 1, 0) = v.out
    BY <1>1
  <2> QED BY <1>1, <2>1, <2>2 DEF Removings
<1>3. ASSUME NEW k \in 1 .. Len(u) PROVE r[k] = F[<<r[k - 1], u[k]>>]
  <2> DEFINE p == SubSeq(u, 1, k - 1)
             c == u[k]
             x == [out |-> v.out \o p, left |-> v.left]
  <2>1. k - 1 \in 0 .. Len(u) /\ k \in 0 .. Len(u) /\ c \in Plain /\ r[k - 1] \in Removings
    <3>1. k - 1 \in 0 .. Len(u) /\ k \in 0 .. Len(u) /\ c \in Plain
      BY <1>1
    <3> HIDE DEF r
    <3> QED BY <1>2, <3>1
  <2>2. p \in Seq(Plain) /\ SubSeq(u, 1, k) = Append(p, c)
    BY <2>1
  <2>3. r[k - 1] = x /\ r[k] = [out |-> v.out \o Append(p, c), left |-> v.left]
    BY <2>1, <2>2
  <2>4. c # "more" \/ v.left = 0
    BY <2>1 DEF Unmarked
  <2>5. v.out \o Append(p, c) = Append(v.out \o p, c)
    <3> HIDE DEF p, c
    <3> QED BY <1>1, <2>1, <2>2, AppendAssociates DEF PlainTexts
  <2>6. x.out = v.out \o p /\ x.left = v.left
    OBVIOUS
  <2> HIDE DEF r, x, p, c
  <2>7. RemoveChar(x, c) = [out |-> Append(v.out \o p, c), left |-> v.left]
    BY <2>1, <2>3, <2>4, <2>6, RemoveCloses
  <2>8. F[<<x, c>>] = RemoveChar(x, c)
    BY <2>1, <2>3 DEF RemoveStep
  <2> QED BY <2>3, <2>5, <2>7, <2>8 DEF c
<1> HIDE DEF r
<1>4. r \in Runs(F, Removings, v, u)
  BY <1>2, <1>3 DEF Runs
<1>5. \A w \in Removings, c \in Plain : RemoveChar(w, c) \in Removings
  BY RemoveCloses
<1>6. r[Len(u)] = RemoveAll(v, u)
  BY <1>4, <1>5, RemoveFold
<1>7. SubSeq(u, 1, Len(u)) = u /\ Len(u) \in 0 .. Len(u)
  BY <1>1
<1> QED BY <1>6, <1>7 DEF r

\* The start of a removal, and a removal of a text and what follows it.
LEMMA RemoveStarts ==
  ASSUME NEW x \in Seq(Plain), NEW u \in Seq(Plain), NEW h \in Nat
  PROVE  LET b == [out |-> <<>>, left |-> h]
         IN b \in Removings /\ RemoveAll(b, x \o u) = RemoveAll(RemoveAll(b, x), u)
<1> DEFINE b == [out |-> <<>>, left |-> h]
<1>1. b \in Removings
  BY DEF Removings
<1>2. \A w \in Removings, c \in Plain : RemoveChar(w, c) \in Removings
  BY RemoveCloses
<1> HIDE DEF b
<1>3. RemoveAll(b, x \o u) = RemoveAll(RemoveAll(b, x), u)
  BY <1>1, <1>2, RemoveJoins
<1> QED BY <1>1, <1>3 DEF b

\* One marker more on the one side; the same text without markers on both.
LEMMA GoneGoesOn ==
  ASSUME NEW x \in Seq(Plain), NEW y \in Seq(Plain), NEW n \in Nat, Gone(x, y, n),
         NEW u \in Seq(Plain)
  PROVE  /\ u = <<"more">> => Gone(x \o u, y, n + 1)
         /\ Unmarked(u) => Gone(x \o u, y \o u, n)
<1> DEFINE b(h) == [out |-> <<>>, left |-> h]
<1>1. PICK k \in 0 .. n : \A h \in Nat : h >= k => RemoveAll(b(h), x) = [out |-> y, left |-> h - k]
  BY DEF Gone
<1>2. \A h \in Nat : RemoveAll(b(h), x \o u) = RemoveAll(RemoveAll(b(h), x), u)
  BY RemoveStarts
<1> HIDE DEF b
<1>3. ASSUME u = <<"more">> PROVE Gone(x \o u, y, n + 1)
  <2>1. ASSUME NEW h \in Nat, h >= k + 1
        PROVE  RemoveAll(b(h), x \o u) = [out |-> y, left |-> h - (k + 1)]
    <3> DEFINE v == [out |-> y, left |-> h - k]
    <3>1. RemoveAll(b(h), x) = v
      BY <1>1, <2>1
    <3>2. v \in Removings /\ v.left > 0 /\ v.out = y /\ v.left = h - k
      BY <2>1 DEF Removings
    <3>3. "more" \in Plain
      BY DEF Plain, Chars, Kinds
    <3>4. \A w \in Removings, c \in Plain : RemoveChar(w, c) \in Removings
      BY RemoveCloses
    <3> HIDE DEF v
    <3>5. RemoveAll(v, u) = RemoveChar(v, "more")
      BY <1>3, <3>2, <3>3, <3>4, RemoveOne
    <3>6. RemoveChar(v, "more") = [out |-> v.out, left |-> v.left - 1]
      BY <3>2, <3>3, RemoveCloses
    <3>7. (h - k) - 1 = h - (k + 1)
      BY <2>1
    <3> QED BY <1>2, <3>1, <3>2, <3>5, <3>6, <3>7
  <2>2. k + 1 \in 0 .. n + 1
    OBVIOUS
  <2> QED BY <2>1, <2>2 DEF Gone, b
<1>4. ASSUME Unmarked(u) PROVE Gone(x \o u, y \o u, n)
  <2>1. ASSUME NEW h \in Nat, h >= k
        PROVE  RemoveAll(b(h), x \o u) = [out |-> y \o u, left |-> h - k]
    <3> DEFINE v == [out |-> y, left |-> h - k]
    <3>1. RemoveAll(b(h), x) = v
      BY <1>1, <2>1
    <3>2. v \in Removings /\ v.out = y /\ v.left = h - k
      BY <2>1 DEF Removings
    <3> HIDE DEF v
    <3>3. RemoveAll(v, u) = [out |-> v.out \o u, left |-> v.left]
      BY <1>4, <3>2, RemoveKeeps
    <3> QED BY <1>2, <3>1, <3>2, <3>3
  <2> QED BY <2>1 DEF Gone, b
<1> QED BY <1>3, <1>4

\* removeHandledMarkers removes what is gone, or nothing if there is nothing.
LEMMA MarkersRemoved ==
  ASSUME NEW x \in Seq(Plain), NEW y \in Seq(Plain), NEW n \in Nat
  PROVE  /\ Gone(x, y, n) => RemoveHandledMarkers(x, n) = y
         /\ RemoveHandledMarkers(x, 0) = x
         /\ Gone(<<>>, <<>>, 0)
<1> DEFINE b(h) == [out |-> <<>>, left |-> h]
<1>1. \A h : RemoveHandledMarkers(x, h) = RemoveAll(b(h), x).out
  BY DEF RemoveHandledMarkers, RemoveAll, RemoveChar, FoldLeft, MapThenFoldSet
<1>2. ASSUME NEW h \in Nat PROVE b(h) \in Removings /\ b(h).out = <<>> /\ b(h).left = h
  BY DEF Removings
<1>3. ASSUME Gone(x, y, n) PROVE RemoveHandledMarkers(x, n) = y
  <2>1. PICK k \in 0 .. n : \A h \in Nat : h >= k => RemoveAll(b(h), x) = [out |-> y, left |-> h - k]
    BY <1>3 DEF Gone
  <2> HIDE DEF b
  <2>2. RemoveAll(b(n), x) = [out |-> y, left |-> n - k]
    BY <2>1
  <2> QED BY <1>1, <2>2
<1> HIDE DEF b
<1>4. RemoveHandledMarkers(x, 0) = x
  <2>1. b(0) \in Removings /\ b(0).out = <<>> /\ b(0).left = 0
    BY <1>2
  <2>2. RemoveAll(b(0), x) = [out |-> b(0).out \o x, left |-> b(0).left]
    BY <2>1, RemoveKeeps
  <2>3. <<>> \o x = x
    OBVIOUS
  <2>4. RemoveAll(b(0), x).out = b(0).out \o x
    BY <2>2
  <2>5. RemoveHandledMarkers(x, 0) = RemoveAll(b(0), x).out
    BY <1>1
  <2> QED BY <2>1, <2>3, <2>4, <2>5
<1>5. Gone(<<>>, <<>>, 0)
  <2>1. ASSUME NEW h \in Nat PROVE RemoveAll(b(h), <<>>) = b(h)
    <3>1. \A w \in Removings, c \in Plain : RemoveChar(w, c) \in Removings
      BY RemoveCloses
    <3>2. <<>> \in Seq(Plain) /\ Len(<<>>) = 0
      OBVIOUS
    <3> QED BY <1>2, <3>1, <3>2, RemoveOne
  <2>2. \A h \in Nat : b(h) = [out |-> <<>>, left |-> h - 0]
    BY DEF b
  <2>3. \A h \in Nat : RemoveAll(b(h), <<>>) = [out |-> <<>>, left |-> h - 0]
    BY <2>1, <2>2
  <2> QED BY <2>3 DEF Gone, b
<1> QED BY <1>3, <1>4, <1>5

-----------------------------------------------------------------------------
(* The echo, wrapped.                                                      *)

\* r[k] is computed from r[k - 1] by F.
Recurs(r, F, V, b, n) ==
  r \in [0 .. n -> V] /\ r[0] = b /\ \A k \in 1 .. n : r[k] = F[<<r[k - 1], k>>]

\* There is such a function.
LEMMA Recursion ==
  ASSUME NEW V, NEW n \in Nat, NEW F, IsStep(F, V, 1 .. n), NEW b \in V
  PROVE  \E r : Recurs(r, F, V, b, n)
<1> DEFINE C == 1 .. n
           s == [k \in C |-> k]
<1>1. s \in Seq(C) /\ Len(s) = n /\ \A k \in C : s[k] = k
  <2>1. s \in [1 .. n -> C]
    OBVIOUS
  <2>2. s \in Seq(C)
    BY <2>1
  <2> QED BY <2>1, <2>2
<1>2. IsStep(F, V, C)
  OBVIOUS
<1> HIDE DEF s, C
<1>3. PICK i : FoldsOver(i, Len(s), F, V, b, s)
  BY <1>1, <1>2, FoldIsDefined
<1>4. FollowsFold(i, F, V, C, b, s)
  <2>1. {} \in SUBSET (1 .. Len(s))
    OBVIOUS
  <2> QED BY <1>3, <2>1 DEF FoldsOver, FollowsFold
<1>5. PICK r \in Runs(F, V, b, s) : i[1 .. Len(s)] = r[Len(s)]
  BY <1>1, <1>2, <1>4, FoldIsRun
<1>6. r \in [0 .. n -> V] /\ r[0] = b /\ \A k \in 1 .. n : r[k] = F[<<r[k - 1], s[k]>>]
  BY <1>1, <1>5 DEF Runs
<1> QED BY <1>1, <1>6 DEF C, Recurs

\* The character at i is a wrap's.
Skipped(text, i) ==
  \/ CharAt(text, i) = " " /\ CharAt(text, i + 1) \in LineEnds
  \/ CharAt(text, i) \in LineEnds

\* What WrappedEnd tabulates.
EndFrom(f, text, expected, i, j) ==
  IF j > Len(expected) THEN i - 1
  ELSE IF CharAt(text, i) = expected[j] THEN f[i + 1][j + 1]
  ELSE IF Skipped(text, i) THEN f[i + 1][j]
  ELSE 0

IsTable(f, text, expected) ==
  f = [i \in 1 .. Len(text) + 1 |->
         [j \in 1 .. Len(expected) + 1 |-> EndFrom(f, text, expected, i, j)]]

Table(text, expected) == CHOOSE f : IsTable(f, text, expected)

\* The end that matchWrapped finds is the table's first entry.
LEMMA WrappedEndIs ==
  ASSUME NEW text, NEW expected
  PROVE  WrappedEnd(text, expected) = Table(text, expected)[1][1]
BY Zenon DEF WrappedEnd, Table, IsTable, EndFrom, Skipped

\* There is such a table.
LEMMA TableExists ==
  ASSUME NEW text \in Seq(Plain), NEW expected \in Seq(Letters)
  PROVE  \E f : IsTable(f, text, expected)
<1> DEFINE L == Len(text)
           M == Len(expected)
           V == [1 .. M + 1 -> Nat]
           b == [j \in 1 .. M + 1 |-> IF j > M THEN L ELSE 0]
           Row(v, i) == [j \in 1 .. M + 1 |->
                           IF j > M THEN i - 1
                           ELSE IF CharAt(text, i) = expected[j] THEN v[j + 1]
                           ELSE IF Skipped(text, i) THEN v[j]
                           ELSE 0]
           F == [p \in V \X (1 .. L) |-> Row(p[1], (L + 1) - p[2])]
<1>1. L \in Nat /\ M \in Nat
  OBVIOUS
<1> HIDE DEF L, M
<1>2. b \in V
  BY <1>1
<1>3. ASSUME NEW v \in V, NEW k \in 1 .. L PROVE Row(v, (L + 1) - k) \in V
  <2>1. ((L + 1) - k) - 1 \in Nat
    BY <1>1
  <2>2. ASSUME NEW j \in 1 .. M + 1 PROVE Row(v, (L + 1) - k)[j] \in Nat
    <3>1. v[j] \in Nat
      OBVIOUS
    <3>2. CASE j > M
      BY <2>1, <3>2
    <3>3. CASE ~(j > M)
      <4>1. j + 1 \in 1 .. M + 1
        BY <1>1, <3>3
      <4>2. v[j + 1] \in Nat
        BY <4>1
      <4> QED BY <3>1, <3>3, <4>2
    <3> QED BY <3>2, <3>3
  <2> QED BY <2>2
<1>4. IsStep(F, V, 1 .. L)
  <2> HIDE DEF Row, V
  <2> QED BY <1>3 DEF IsStep
<1>5. PICK r : Recurs(r, F, V, b, L)
  <2> HIDE DEF F, V, b
  <2> QED BY <1>1, <1>2, <1>4, Recursion
<1>6. r \in [0 .. L -> V] /\ r[0] = b /\ \A k \in 1 .. L : r[k] = F[<<r[k - 1], k>>]
  BY <1>5 DEF Recurs
<1> DEFINE f == [i \in 1 .. L + 1 |-> r[(L + 1) - i]]
<1>7. ASSUME NEW i \in 1 .. L + 1
      PROVE  f[i] = [j \in 1 .. M + 1 |-> EndFrom(f, text, expected, i, j)]
  <2>1. CASE i = L + 1
    <3>1. f[i] = b
      BY <1>1, <1>6, <2>1
    <3>2. CharAt(text, i) = "none"
      BY <1>1, <2>1 DEF CharAt, L
    <3>3. ~Skipped(text, i)
      BY <3>2 DEF Skipped, LineEnds
    <3>4. ASSUME NEW j \in 1 .. M, expected[j] = "none" PROVE FALSE
      <4>1. expected[j] \in Letters
        BY DEF M
      <4> QED BY <3>4, <4>1 DEF Letters, Kinds
    <3>5. ASSUME NEW j \in 1 .. M + 1 PROVE EndFrom(f, text, expected, i, j) = b[j]
      <4>1. CASE j > M
        BY <1>1, <2>1, <4>1 DEF EndFrom, M
      <4>2. CASE ~(j > M)
        <5>1. j \in 1 .. M
          BY <1>1, <4>2
        <5> QED BY <3>2, <3>3, <3>4, <4>2, <5>1 DEF EndFrom, M
      <4> QED BY <4>1, <4>2
    <3> HIDE DEF f
    <3>6. b = [j \in 1 .. M + 1 |-> EndFrom(f, text, expected, i, j)]
      BY <3>5
    <3> QED BY <3>1, <3>6
  <2>2. CASE i # L + 1
    <3> DEFINE k == (L + 1) - i
    <3>1. k \in 1 .. L /\ k - 1 = (L + 1) - (i + 1) /\ i + 1 \in 1 .. L + 1 /\ (L + 1) - k = i
      BY <1>1, <2>2
    <3>2. f[i] = r[k] /\ f[i + 1] = r[k - 1]
      BY <3>1
    <3>3. r[k - 1] \in V
      <4>1. k - 1 \in 0 .. L
        BY <1>1, <3>1
      <4> QED BY <1>6, <4>1
    <3> HIDE DEF k, f, V, Row
    <3>4. F[<<r[k - 1], k>>] = Row(r[k - 1], (L + 1) - k)
      BY <3>1, <3>3
    <3>5. r[k] = F[<<r[k - 1], k>>]
      BY <1>6, <3>1
    <3> HIDE DEF F
    <3>6. f[i] = Row(f[i + 1], i)
      BY <3>1, <3>2, <3>4, <3>5
    <3>7. Row(f[i + 1], i) = [j \in 1 .. M + 1 |-> EndFrom(f, text, expected, i, j)]
      BY DEF Row, EndFrom, M
    <3> QED BY <3>6, <3>7
  <2> QED BY <2>1, <2>2
<1>8. IsTable(f, text, expected)
  <2>1. f = [i \in 1 .. L + 1 |-> f[i]]
    OBVIOUS
  <2> HIDE DEF f
  <2>2. f = [i \in 1 .. L + 1 |-> [j \in 1 .. M + 1 |-> EndFrom(f, text, expected, i, j)]]
    BY <1>7, <2>1
  <2> QED BY <2>2 DEF IsTable, L, M
<1> QED BY <1>8

\* Its entries.
LEMMA TableIs ==
  ASSUME NEW text \in Seq(Plain), NEW expected \in Seq(Letters),
         NEW i \in 1 .. Len(text) + 1, NEW j \in 1 .. Len(expected) + 1
  PROVE  LET f == Table(text, expected)
         IN f[i][j] = EndFrom(f, text, expected, i, j)
<1> DEFINE f == Table(text, expected)
<1>1. IsTable(f, text, expected)
  BY TableExists DEF Table
<1> HIDE DEF f
<1>2. f[i] = [y \in 1 .. Len(expected) + 1 |-> EndFrom(f, text, expected, i, y)]
  BY <1>1 DEF IsTable
<1> QED BY <1>2 DEF f

\* A match ends in the text, and not before it began.
LEMMA TableBounds ==
  ASSUME NEW text \in Seq(Plain), NEW expected \in Seq(Letters)
  PROVE  \A i \in 1 .. Len(text) + 1, j \in 1 .. Len(expected) + 1 :
           LET e == Table(text, expected)[i][j]
           IN e \in 0 .. Len(text) /\ (j <= Len(expected) => e = 0 \/ e >= i)
<1> DEFINE L == Len(text)
           M == Len(expected)
           f == Table(text, expected)
           Bound(i, j) == f[i][j] \in 0 .. L /\ (j <= M => f[i][j] = 0 \/ f[i][j] >= i)
           T == {n \in Nat : n <= L => \A j \in 1 .. M + 1 : Bound((L + 1) - n, j)}
<1>1. L \in Nat /\ M \in Nat
  OBVIOUS
<1>2. ASSUME NEW i \in 1 .. L + 1, NEW j \in 1 .. M + 1
      PROVE  f[i][j] = EndFrom(f, text, expected, i, j)
  BY <1>2, TableIs
<1> HIDE DEF L, M, f
<1>3. ASSUME NEW j \in 1 .. M + 1 PROVE Bound(L + 1, j)
  <2>1. L + 1 \in 1 .. L + 1 /\ (L + 1) - 1 = L
    BY <1>1
  <2>2. CASE j > M
    <3>1. f[L + 1][j] = L
      BY <1>2, <2>1, <2>2 DEF EndFrom, M
    <3> QED BY <1>1, <2>2, <3>1
  <2>3. CASE ~(j > M)
    <3>1. CharAt(text, L + 1) = "none"
      BY <1>1 DEF CharAt, L
    <3>2. ~Skipped(text, L + 1)
      BY <3>1 DEF Skipped, LineEnds
    <3>3. expected[j] # "none"
      <4>1. expected[j] \in Letters
        BY <2>3 DEF M
      <4> QED BY <4>1 DEF Letters, Kinds
    <3>4. f[L + 1][j] = 0
      BY <1>2, <2>1, <2>3, <3>1, <3>2, <3>3 DEF EndFrom, M
    <3> QED BY <1>1, <3>4
  <2> QED BY <2>2, <2>3
<1>4. 0 \in T
  <2>1. (L + 1) - 0 = L + 1
    BY <1>1
  <2> HIDE DEF Bound
  <2> QED BY <1>3, <2>1
<1>5. ASSUME NEW n \in T PROVE n + 1 \in T
  <2> SUFFICES ASSUME n + 1 <= L, NEW j \in 1 .. M + 1 PROVE Bound((L + 1) - (n + 1), j)
    OBVIOUS
  <2> DEFINE i == (L + 1) - (n + 1)
  <2>1. /\ n \in Nat /\ n <= L
        /\ i \in 1 .. L + 1 /\ i + 1 = (L + 1) - n /\ i - 1 \in 0 .. L
    BY <1>1
  <2>2. \A y \in 1 .. M + 1 : Bound(i + 1, y)
    BY <2>1
  <2> HIDE DEF T, i
  <2>3. f[i][j] = EndFrom(f, text, expected, i, j)
    BY <1>2, <2>1
  <2>4. CASE j > M
    <3>1. f[i][j] = i - 1
      BY <2>3, <2>4 DEF EndFrom, M
    <3> QED BY <1>1, <2>1, <2>4, <3>1 DEF i
  <2>5. CASE ~(j > M)
    <3>1. j \in 1 .. M + 1 /\ j + 1 \in 1 .. M + 1
      BY <1>1, <2>5
    <3>2. f[i][j] \in {f[i + 1][j + 1], f[i + 1][j], 0}
      BY <2>3, <2>5 DEF EndFrom, M
    <3>3. ASSUME NEW y \in 1 .. M + 1, f[i][j] = f[i + 1][y] PROVE Bound(i, j)
      <4>1. Bound(i + 1, y)
        BY <2>2
      <4>2. CASE y <= M
        BY <1>1, <2>1, <3>3, <4>1, <4>2
      <4>3. CASE ~(y <= M)
        <5>1. y > M /\ i + 1 \in 1 .. L + 1 /\ (i + 1) - 1 = i
          BY <1>1, <2>1, <4>3 DEF i
        <5>2. f[i + 1][y] = i
          BY <1>2, <5>1 DEF EndFrom, M
        <5> QED BY <1>1, <2>1, <3>3, <4>1, <5>2
      <4> QED BY <4>2, <4>3
    <3>4. ASSUME f[i][j] = 0 PROVE Bound(i, j)
      BY <1>1, <3>4
    <3> QED BY <3>1, <3>2, <3>3, <3>4 DEF i
  <2> QED BY <2>4, <2>5 DEF i
<1> HIDE DEF T
<1>6. T = Nat
  BY <1>4, <1>5, Induction DEF T
<1>7. ASSUME NEW i \in 1 .. L + 1, NEW j \in 1 .. M + 1 PROVE Bound(i, j)
  <2> DEFINE n == (L + 1) - i
  <2>1. n \in Nat /\ n <= L /\ (L + 1) - n = i
    BY <1>1
  <2> HIDE DEF Bound, n
  <2>2. Bound((L + 1) - n, j)
    BY <1>6, <2>1 DEF T
  <2> QED BY <2>1, <2>2
<1> QED BY <1>7 DEF f, L, M

\* What Unwrapped tabulates.
UpTo(u, text, k) ==
  IF k = 0 THEN {<<>>}
  ELSE LET kept == {Append(t, text[k]) : t \in u[k - 1]}
       IN IF text[k] \in LineEnds THEN u[k - 1]
          ELSE IF text[k] = " " /\ CharAt(text, k + 1) \in LineEnds
            THEN kept \cup u[k - 1]
          ELSE kept

IsUnwrapping(u, text) == u = [k \in 0 .. Len(text) |-> UpTo(u, text, k)]
Unwrapping(text) == CHOOSE u : IsUnwrapping(u, text)

\* The readings of a text are the last entry of what is tabulated.
LEMMA UnwrappedIs ==
  ASSUME NEW text
  PROVE  Unwrapped(text) = Unwrapping(text)[Len(text)]
BY Zenon DEF Unwrapped, Unwrapping, IsUnwrapping, UpTo

\* Its entries.
LEMMA UnwrappingIs ==
  ASSUME NEW text \in Seq(Plain)
  PROVE  \A k \in 0 .. Len(text) :
           LET u == Unwrapping(text)
           IN u[k] = UpTo(u, text, k) /\ u[k] \in SUBSET Seq(Plain)
<1> DEFINE L == Len(text)
           V == SUBSET Seq(Plain)
           b == {<<>>}
           Next(v, k) ==
             LET kept == {Append(t, text[k]) : t \in v}
             IN IF text[k] \in LineEnds THEN v
                ELSE IF text[k] = " " /\ CharAt(text, k + 1) \in LineEnds THEN kept \cup v
                ELSE kept
           F == [p \in V \X (1 .. L) |-> Next(p[1], p[2])]
<1>1. L \in Nat /\ \A k \in 1 .. L : text[k] \in Plain
  OBVIOUS
<1>2. b \in V
  OBVIOUS
<1>3. ASSUME NEW v \in V, NEW k \in 1 .. L PROVE Next(v, k) \in V
  <2> DEFINE kept == {Append(t, text[k]) : t \in v}
  <2>1. kept \in V
    <3>1. \A t \in v : Append(t, text[k]) \in Seq(Plain)
      BY <1>1
    <3> QED BY <3>1
  <2>2. kept \cup v \in V
    BY <2>1
  <2> HIDE DEF kept
  <2> QED BY <2>1, <2>2 DEF kept
<1>4. IsStep(F, V, 1 .. L)
  <2> HIDE DEF Next, V
  <2> QED BY <1>3 DEF IsStep
<1>5. PICK r : Recurs(r, F, V, b, L)
  <2> HIDE DEF F, V, b
  <2> QED BY <1>1, <1>2, <1>4, Recursion
<1>6. r \in [0 .. L -> V] /\ r[0] = b /\ \A k \in 1 .. L : r[k] = F[<<r[k - 1], k>>]
  BY <1>5 DEF Recurs
<1>7. ASSUME NEW k \in 0 .. L PROVE r[k] = UpTo(r, text, k)
  <2>1. CASE k = 0
    BY <1>6, <2>1 DEF UpTo
  <2>2. CASE k # 0
    <3>1. k \in 1 .. L /\ k - 1 \in 0 .. L
      BY <1>1, <2>2
    <3>2. r[k - 1] \in V
      BY <1>6, <3>1
    <3> HIDE DEF V, Next
    <3>3. F[<<r[k - 1], k>>] = Next(r[k - 1], k)
      BY <3>1, <3>2
    <3> HIDE DEF F
    <3>4. r[k] = Next(r[k - 1], k)
      BY <1>6, <3>1, <3>3
    <3> QED BY <2>2, <3>4 DEF UpTo, Next
  <2> QED BY <2>1, <2>2
<1>8. IsUnwrapping(r, text)
  <2>1. r = [k \in 0 .. L |-> r[k]]
    <3> HIDE DEF V
    <3> QED BY <1>6
  <2>2. r = [k \in 0 .. L |-> UpTo(r, text, k)]
    BY <1>7, <2>1
  <2> QED BY <2>2 DEF IsUnwrapping
<1> DEFINE u == Unwrapping(text)
<1>9. IsUnwrapping(u, text)
  BY <1>8 DEF Unwrapping
<1> HIDE DEF u
<1>10. ASSUME NEW k \in 0 .. L PROVE u[k] = UpTo(u, text, k)
  BY <1>9 DEF IsUnwrapping
<1> DEFINE T == {n \in Nat : n <= L => u[n] \in V}
<1>11. 0 \in T
  <2>1. 0 \in 0 .. L
    BY <1>1
  <2>2. u[0] = b
    BY <1>10, <2>1 DEF UpTo
  <2> HIDE DEF b, V
  <2> QED BY <1>2, <2>2
<1>12. ASSUME NEW n \in T PROVE n + 1 \in T
  <2> SUFFICES ASSUME n + 1 <= L PROVE u[n + 1] \in V
    OBVIOUS
  <2>1. n \in Nat /\ n + 1 \in 1 .. L /\ n + 1 \in 0 .. L /\ (n + 1) - 1 = n /\ n + 1 # 0
    BY <1>1
  <2>2. u[n] \in V
    BY <2>1
  <2> HIDE DEF T, V
  <2>3. u[n + 1] = Next(u[n], n + 1)
    BY <1>10, <2>1 DEF UpTo
  <2> HIDE DEF Next
  <2> QED BY <1>3, <2>1, <2>2, <2>3
<1> HIDE DEF T
<1>13. T = Nat
  BY <1>11, <1>12, Induction DEF T
<1>14. ASSUME NEW k \in 0 .. L PROVE u[k] \in V
  <2>1. k \in Nat /\ k <= L
    BY <1>1
  <2> QED BY <1>13, <2>1 DEF T
<1> QED BY <1>10, <1>14 DEF u

\* What is matched at the start of a text is what it unwraps to; it has no
\* marker, and ends where the match does.
LEMMA MatchUnwraps ==
  ASSUME NEW text \in Seq(Plain), NEW expected \in Seq(Letters),
         WrappedEnd(text, expected) # 0
  PROVE  LET e == WrappedEnd(text, expected)
             m == SubSeq(text, 1, e)
         IN /\ e \in 1 .. Len(text)
            /\ Unmarked(m)
            /\ expected \in Unwrapped(m)
            /\ expected # <<>> /\ text[e] = expected[Len(expected)]
<1> DEFINE L == Len(text)
           M == Len(expected)
           f == Table(text, expected)
           e == WrappedEnd(text, expected)
           s == SubSeq(text, 1, e)
           u == Unwrapping(s)
<1>1. L \in Nat /\ M \in Nat /\ 1 \in 1 .. L + 1 /\ 1 \in 1 .. M + 1
  OBVIOUS
<1>2. e = f[1][1] /\ e # 0
  BY WrappedEndIs
<1>3. ASSUME NEW i \in 1 .. L + 1, NEW j \in 1 .. M + 1
      PROVE  /\ f[i][j] = EndFrom(f, text, expected, i, j)
             /\ f[i][j] \in 0 .. L
             /\ j <= M => f[i][j] = 0 \/ f[i][j] >= i
  BY <1>3, TableIs, TableBounds
<1> HIDE DEF f, e
<1>4. e \in 1 .. L
  <2>1. e \in 0 .. L
    BY <1>1, <1>2, <1>3
  <2> QED BY <1>1, <1>2, <2>1
<1>5. /\ s \in Seq(Plain) /\ Len(s) = e
      /\ \A i \in 1 .. e : s[i] = text[i] /\ CharAt(s, i) = text[i] /\ CharAt(text, i) = text[i]
  <2>1. s \in Seq(Plain) /\ Len(s) = e
    BY <1>1, <1>4
  <2>2. ASSUME NEW i \in 1 .. e PROVE s[i] = text[i] /\ i \in DOMAIN text /\ i \in DOMAIN s
    BY <1>1, <1>4, <2>1
  <2> QED BY <2>1, <2>2 DEF CharAt
<1> HIDE DEF s
<1>6. \A k \in 0 .. e : u[k] = UpTo(u, s, k)
  BY <1>5, UnwrappingIs
<1>7. Unwrapped(s) = u[e]
  BY <1>5, UnwrappedIs
<1> HIDE DEF u, L, M
<1> DEFINE At(n, j) ==
             /\ f[n + 1][j] = e
             /\ SubSeq(expected, 1, j - 1) \in u[n]
             /\ \A i \in 1 .. n : text[i] # "more"
             /\ n > 0 /\ j > M => j > 1 /\ text[n] = expected[j - 1]
           T == {n \in Nat : n <= e => \E j \in 1 .. M + 1 : At(n, j)}
<1>8. 0 \in T
  <2>1. 0 \in 0 .. e /\ SubSeq(expected, 1, 1 - 1) = <<>> /\ 0 + 1 = 1
    BY <1>4
  <2>2. u[0] = {<<>>}
    BY <1>6, <2>1 DEF UpTo
  <2>3. At(0, 1)
    BY <1>2, <2>1, <2>2
  <2> HIDE DEF At
  <2> QED BY <1>1, <2>3
<1>9. ASSUME NEW n \in T PROVE n + 1 \in T
  <2> SUFFICES ASSUME n + 1 <= e PROVE \E j \in 1 .. M + 1 : At(n + 1, j)
    OBVIOUS
  <2> DEFINE i == n + 1
  <2>1. /\ n \in Nat /\ n <= e /\ i \in 1 .. e /\ i \in 1 .. L + 1 /\ i + 1 \in 1 .. L + 1
        /\ i \in 0 .. e /\ i - 1 = n /\ i # 0 /\ i \in Nat /\ e \in Nat /\ i > 0 /\ i > n
        /\ i \in 1 .. L
    BY <1>1, <1>4
  <2>2. PICK j \in 1 .. M + 1 : At(n, j)
    BY <2>1
  <2> HIDE DEF T
  <2>3. f[i][j] = e /\ SubSeq(expected, 1, j - 1) \in u[n] /\ \A k \in 1 .. n : text[k] # "more"
    BY <2>2
  <2> HIDE DEF i
  <2>4. f[i][j] = EndFrom(f, text, expected, i, j)
    BY <1>3, <2>1
  <2>5. j <= M
    <3> SUFFICES ASSUME j > M PROVE FALSE
      BY <1>1
    <3>1. f[i][j] = i - 1
      BY <2>4 DEF EndFrom, M
    <3> QED BY <2>1, <2>3, <3>1
  <2>6. text[i] = CharAt(text, i) /\ text[i] = s[i] /\ u[i] = UpTo(u, s, i)
    BY <1>5, <1>6, <2>1
  <2>7. j \in 1 .. M /\ j + 1 \in 1 .. M + 1 /\ expected[j] \in Letters /\ ~(j > M)
    <3>1. j \in 1 .. M /\ j + 1 \in 1 .. M + 1 /\ ~(j > M)
      BY <1>1, <2>5
    <3> QED BY <3>1 DEF M
  <2>8. ASSUME text[i] # "more" PROVE \A k \in 1 .. i : text[k] # "more"
    <3>1. \A k \in 1 .. i : k \in 1 .. n \/ k = i
      BY <2>1
    <3> QED BY <2>3, <2>8, <3>1
  <2>9. CASE text[i] = expected[j]
    <3>1. f[i + 1][j + 1] = e
      BY <2>3, <2>4, <2>6, <2>7, <2>9 DEF EndFrom, M
    <3>2. text[i] \notin LineEnds /\ text[i] # "more"
      BY <2>7, <2>9 DEF Letters, Kinds, LineEnds
    <3>3. SubSeq(expected, 1, (j + 1) - 1) = Append(SubSeq(expected, 1, j - 1), expected[j])
      BY <2>7 DEF M
    <3>4. Append(SubSeq(expected, 1, j - 1), s[i]) \in {Append(t, s[i]) : t \in u[i - 1]}
      BY <2>1, <2>3
    <3>5. {Append(t, s[i]) : t \in u[i - 1]} \subseteq u[i]
      BY <2>1, <2>6, <3>2 DEF UpTo
    <3>6. SubSeq(expected, 1, (j + 1) - 1) \in u[i]
      BY <2>6, <2>9, <3>3, <3>4, <3>5
    <3>7. j + 1 > 1 /\ (j + 1) - 1 = j
      BY <2>7
    <3>8. At(i, j + 1)
      BY <2>8, <2>9, <3>1, <3>2, <3>6, <3>7
    <3> HIDE DEF At
    <3> QED BY <2>7, <3>8 DEF i
  <2>10. CASE text[i] # expected[j] /\ Skipped(text, i)
    <3>1. f[i + 1][j] = e
      BY <2>3, <2>4, <2>6, <2>7, <2>10 DEF EndFrom, M
    <3>2. i + 1 \in 1 .. e
      <4>1. e >= i + 1
        BY <1>2, <1>3, <2>1, <2>5, <3>1
      <4> QED BY <2>1, <4>1
    <3>3. text[i] # "more"
      BY <2>6, <2>10 DEF Skipped, LineEnds
    <3>4. s[i] \in LineEnds \/ (s[i] = " " /\ CharAt(s, i + 1) \in LineEnds)
      BY <1>5, <2>6, <2>10, <3>2 DEF Skipped
    <3>5. u[i - 1] \subseteq u[i]
      BY <2>1, <2>6, <3>4 DEF UpTo
    <3>6. SubSeq(expected, 1, j - 1) \in u[i]
      BY <2>1, <2>3, <3>5
    <3>7. At(i, j)
      BY <2>7, <2>8, <3>1, <3>3, <3>6
    <3> HIDE DEF At
    <3> QED BY <2>7, <3>7 DEF i
  <2>11. CASE text[i] # expected[j] /\ ~Skipped(text, i)
    BY <1>2, <2>3, <2>4, <2>6, <2>7, <2>11 DEF EndFrom, M
  <2> QED BY <2>9, <2>10, <2>11
<1> HIDE DEF T
<1>10. T = Nat
  BY <1>8, <1>9, Induction DEF T
<1>11. PICK j \in 1 .. M + 1 : At(e, j)
  <2>1. e \in Nat /\ e <= e
    BY <1>1, <1>4
  <2> HIDE DEF At
  <2> QED BY <1>10, <2>1 DEF T
<1>12. j = M + 1
  <2> SUFFICES ASSUME j <= M PROVE FALSE
    BY <1>1
  <2>1. e + 1 \in 1 .. L + 1 /\ ~(e >= e + 1)
    BY <1>1, <1>4
  <2> QED BY <1>2, <1>3, <1>11, <2>1
<1>13. expected \in Unwrapped(s)
  <2>1. SubSeq(expected, 1, j - 1) = expected
    BY <1>1, <1>12 DEF M
  <2> QED BY <1>7, <1>11, <2>1
<1>14. Unmarked(s)
  BY <1>5, <1>11 DEF Unmarked
<1>15. expected # <<>> /\ text[e] = expected[M]
  <2>1. j > M /\ e > 0 /\ j - 1 = M
    BY <1>1, <1>4, <1>12
  <2>2. j > 1 /\ text[e] = expected[j - 1]
    BY <1>11, <2>1
  <2>3. M # 0
    BY <1>1, <1>12, <2>2
  <2> QED BY <2>1, <2>2, <2>3 DEF M
<1> QED BY <1>4, <1>13, <1>14, <1>15 DEF s, e, L, M

-----------------------------------------------------------------------------
(* Chunks of plain bytes, and chunks without markers.                      *)

\* What the decoder gives for a byte sent alone.
Simple == Plain \ {"lead", "cont"}
Calm == Plain \ {"more"}

\* What is shown of an unfinished character.
Ended(a) == AppendAll(a, DecoderEnd(a.partial))

\* The text of an accumulator, the CRs that are held back included.
Text(a) == a.parts \o Repeat("CR", a.crs)

\* One character appended, or filtered.
LEMMA AppendSingle ==
  ASSUME NEW b \in Accumulators, NEW s \in Seq(Plain), Len(s) = 1
  PROVE  AppendAll(b, s) = AppendChar(b, s[1])
<1>1. 1 \in 1 .. Len(s) /\ 1 - 1 = 0 /\ s[1] \in Plain
  OBVIOUS
<1>2. PICK r \in Runs(AppendStep(Accumulators, Plain), Accumulators, b, s) : AppendAll(b, s) = r[Len(s)]
  BY AppendCloses, AppendRun
<1>3. r[0] = b /\ r[1] = AppendStep(Accumulators, Plain)[<<r[0], s[1]>>]
  BY <1>1, <1>2 DEF Runs
<1>4. AppendStep(Accumulators, Plain)[<<b, s[1]>>] = AppendChar(b, s[1])
  BY <1>1 DEF AppendStep
<1> QED BY <1>2, <1>3, <1>4

\* The filter on one character.
LEMMA StripSingle ==
  ASSUME NEW b \in Strippings, NEW s \in Seq(Chars), Len(s) = 1
  PROVE  StripAll(b, s) = StripChar(b, s[1])
<1>1. 1 \in 1 .. Len(s) /\ 1 - 1 = 0 /\ s[1] \in Chars
  OBVIOUS
<1>2. PICK r \in Runs(StripStep(Strippings, Chars), Strippings, b, s) : StripAll(b, s) = r[Len(s)]
  BY StripCloses, StripRun
<1>3. r[0] = b /\ r[1] = StripStep(Strippings, Chars)[<<r[0], s[1]>>]
  BY <1>1, <1>2 DEF Runs
<1>4. StripStep(Strippings, Chars)[<<b, s[1]>>] = StripChar(b, s[1])
  BY <1>1 DEF StripStep
<1> QED BY <1>2, <1>3, <1>4

\* Appending one character, or nothing.
LEMMA AppendOne ==
  ASSUME NEW a \in Accumulators
  PROVE  /\ \A s \in Seq(Plain) : Len(s) = 0 => AppendAll(a, s) = a
         /\ \A c \in Plain : AppendAll(a, <<c>>) = AppendChar(a, c)
         /\ \A s \in Seq(Plain), c \in Plain :
              AppendAll(a, Append(s, c)) = AppendChar(AppendAll(a, s), c)
<1>1. ASSUME NEW s \in Seq(Plain), Len(s) = 0 PROVE AppendAll(a, s) = a
  BY <1>1, AppendCloses, AppendNothing
<1>2. ASSUME NEW b \in Accumulators, NEW c \in Plain PROVE AppendAll(b, <<c>>) = AppendChar(b, c)
  <2> DEFINE s == <<c>>
  <2>1. s \in Seq(Plain) /\ Len(s) = 1 /\ s[1] = c
    OBVIOUS
  <2> HIDE DEF s
  <2>2. AppendAll(b, s) = AppendChar(b, s[1])
    BY <1>2, <2>1, AppendSingle
  <2> QED BY <2>1, <2>2 DEF s
<1>3. ASSUME NEW s \in Seq(Plain), NEW c \in Plain
      PROVE  AppendAll(a, Append(s, c)) = AppendChar(AppendAll(a, s), c)
  <2> DEFINE one == <<c>>
  <2>1. one \in Seq(Plain) /\ Append(s, c) = s \o one
    BY <1>3
  <2> HIDE DEF one
  <2>2. AppendAll(a, s \o one) = AppendAll(AppendAll(a, s), one)
    BY <1>3, <2>1, AppendCloses, AppendJoins
  <2>3. AppendAll(a, s) \in Accumulators
    BY <1>3, AppendCloses, AppendFold
  <2>4. AppendAll(AppendAll(a, s), one) = AppendChar(AppendAll(a, s), c)
    BY <1>2, <1>3, <2>3 DEF one
  <2> QED BY <2>1, <2>2, <2>4
<1> QED BY <1>1, <1>2, <1>3

\* Decoding one byte.
LEMMA DecodeOne ==
  ASSUME NEW v \in Decodings, NEW c \in Chars
  PROVE  DecodeAll(v, <<c>>) = DecodeByte(v, c)
<1> DEFINE s == <<c>>
           F == DecodeStep(Decodings, Chars)
<1>1. s \in Seq(Chars) /\ Len(s) = 1 /\ s[1] = c
  OBVIOUS
<1> HIDE DEF s
<1>2. PICK r \in Runs(F, Decodings, v, s) : DecodeAll(v, s) = r[Len(s)]
  BY ZenonT(40), <1>1, DecodeCloses, DecodeRun
<1>3. r[0] = v /\ r[1] = F[<<r[0], s[1]>>]
  <2>1. 1 \in 1 .. Len(s) /\ 1 - 1 = 0
    BY <1>1
  <2> QED BY <2>1 DEF Runs
<1>4. F[<<v, c>>] = DecodeByte(v, c)
  BY DEF DecodeStep
<1> QED BY <1>1, <1>2, <1>3, <1>4 DEF s

\* Filtering one character more.
LEMMA StripOne ==
  ASSUME NEW v \in Strippings, NEW s \in Seq(Chars), NEW c \in Chars
  PROVE  /\ StripAll(v, <<c>>) = StripChar(v, c)
         /\ StripAll(v, Append(s, c)) = StripChar(StripAll(v, s), c)
<1>1. ASSUME NEW x \in Strippings PROVE StripAll(x, <<c>>) = StripChar(x, c)
  <2> DEFINE t == <<c>>
  <2>1. t \in Seq(Chars) /\ Len(t) = 1 /\ t[1] = c
    OBVIOUS
  <2> HIDE DEF t
  <2>2. StripAll(x, t) = StripChar(x, t[1])
    BY <1>1, <2>1, StripSingle
  <2> QED BY <2>1, <2>2 DEF t
<1> DEFINE one == <<c>>
<1>2. one \in Seq(Chars) /\ Append(s, c) = s \o one
  OBVIOUS
<1> HIDE DEF one
<1>3. StripAll(v, s \o one) = StripAll(StripAll(v, s), one)
  BY <1>2, StripCloses, StripJoins
<1>4. StripAll(v, s) \in Strippings
  BY StripCloses, StripFold
<1>5. StripAll(StripAll(v, s), one) = StripChar(StripAll(v, s), c)
  BY <1>1, <1>4 DEF one
<1> QED BY <1>1, <1>2, <1>3, <1>5

\* A character's end decoded.
LEMMA DecoderEndIs ==
  ASSUME NEW p \in BOOLEAN
  PROVE  /\ DecoderEnd(p) \in Seq(Chars) /\ DecoderEnd(p) \in Seq(Calm) /\ DecoderEnd(p) \in Seq(Plain)
         /\ ~p => Len(DecoderEnd(p)) = 0 /\ DecoderEnd(p) = <<>>
<1>1. "bad" \in Chars /\ "bad" \in Plain /\ "bad" \in Calm
  BY DEF Chars, Plain, Calm, Kinds
<1>2. \A S : "bad" \in S => <<"bad">> \in Seq(S) /\ <<>> \in Seq(S)
  OBVIOUS
<1> QED BY <1>1, <1>2 DEF DecoderEnd

\* A simple byte ends a character that was not finished.
LEMMA DecodeSimple ==
  ASSUME NEW p \in BOOLEAN, NEW c \in Simple
  PROVE  DecodeAll([partial |-> p, text |-> <<>>], <<c>>)
           = [partial |-> FALSE, text |-> DecoderEnd(p) \o <<c>>]
<1> DEFINE none == <<>>
           v == [partial |-> p, text |-> none]
<1>1. v \in Decodings /\ v.partial = p /\ v.text = none /\ c \in Chars
  BY DEF Decodings, Simple, Plain
<1> HIDE DEF v
<1>2. DecodeAll(v, <<c>>) = DecodeByte(v, c)
  BY <1>1, DecodeOne
<1>3. c # "lead" /\ c # "cont"
  BY DEF Simple
<1>4. DecodeByte(v, c) = [partial |-> FALSE, text |-> (none \o DecoderEnd(p)) \o <<c>>]
  BY <1>1, <1>3 DEF DecodeByte, DecoderEnd
<1>5. none \o DecoderEnd(p) = DecoderEnd(p)
  <2>1. DecoderEnd(p) \in Seq(Chars)
    BY DecoderEndIs
  <2> HIDE DEF none
  <2>2. none = <<>>
    BY DEF none
  <2> QED BY <2>1, <2>2
<1> QED BY <1>2, <1>4, <1>5 DEF v

\* So do simple bytes, and come through as they are.
LEMMA DecodeSimples ==
  ASSUME NEW p \in BOOLEAN, NEW t \in Seq(Simple), t # <<>>
  PROVE  DecodeAll([partial |-> p, text |-> <<>>], t)
           = [partial |-> FALSE, text |-> DecoderEnd(p) \o t]
<1> DEFINE v == [partial |-> p, text |-> <<>>]
           T == {n \in Nat : n + 1 <= Len(t) =>
                   DecodeAll(v, SubSeq(t, 1, n + 1))
                     = [partial |-> FALSE, text |-> DecoderEnd(p) \o SubSeq(t, 1, n + 1)]}
<1>1. /\ Len(t) \in Nat /\ Len(t) # 0 /\ Seq(Simple) \subseteq Seq(Chars)
      /\ \A i \in 1 .. Len(t) : t[i] \in Simple /\ t[i] \in Chars
  <2>1. Simple \subseteq Chars
    BY DEF Simple, Plain
  <2>2. Seq(Simple) \subseteq Seq(Chars)
    BY <2>1
  <2>3. Len(t) # 0
    BY EmptySeq
  <2> QED BY <2>1, <2>2, <2>3
<1>2. v \in Decodings
  BY DEF Decodings
<1>3. DecoderEnd(p) \in Seq(Chars)
  BY DecoderEndIs
<1>4. 0 \in T
  <2>1. 1 \in 1 .. Len(t) /\ 0 + 1 = 1
    BY <1>1
  <2> HIDE DEF T, v
  <2>2. SubSeq(t, 1, 1) = <<t[1]>>
    <3>1. SubSeq(t, 1, 1) = Append(SubSeq(t, 1, 0), t[1]) /\ SubSeq(t, 1, 0) = <<>>
      BY <2>1
    <3>2. Append(<<>>, t[1]) = <<t[1]>>
      OBVIOUS
    <3> QED BY <3>1, <3>2
  <2>3. DecodeAll(v, <<t[1]>>) = [partial |-> FALSE, text |-> DecoderEnd(p) \o <<t[1]>>]
    BY <1>1, <2>1, DecodeSimple DEF v
  <2> QED BY <2>1, <2>2, <2>3 DEF T
<1> HIDE DEF v
<1>5. ASSUME NEW n \in T PROVE n + 1 \in T
  <2> DEFINE m == n + 1
             s == SubSeq(t, 1, m)
             c == t[m + 1]
             w == [partial |-> FALSE, text |-> DecoderEnd(p) \o s]
  <2> SUFFICES ASSUME m + 1 <= Len(t)
               PROVE  DecodeAll(v, SubSeq(t, 1, m + 1))
                        = [partial |-> FALSE, text |-> DecoderEnd(p) \o SubSeq(t, 1, m + 1)]
    OBVIOUS
  <2>1. m \in Nat /\ m >= 1 /\ m + 1 \in 1 .. Len(t) /\ m <= Len(t)
    BY <1>1
  <2>2. DecodeAll(v, s) = w
    BY <2>1
  <2> HIDE DEF T, m
  <2> DEFINE one == <<c>>
  <2>3. /\ s \in Seq(Chars) /\ c \in Simple /\ c \in Chars /\ one \in Seq(Chars)
        /\ SubSeq(t, 1, m + 1) = s \o one
    <3>1. s \in Seq(Simple) /\ SubSeq(t, 1, m + 1) = Append(s, c)
      BY <2>1
    <3>2. c \in Simple /\ c \in Chars
      BY <1>1, <2>1
    <3> HIDE DEF s, c
    <3>3. s \in Seq(Chars)
      BY <1>1, <3>1
    <3>4. Append(s, c) = s \o <<c>> /\ <<c>> \in Seq(Chars)
      BY <3>2, <3>3
    <3> QED BY <3>1, <3>2, <3>3, <3>4
  <2> HIDE DEF s, c, one
  <2>4. w \in Decodings /\ w.partial = FALSE /\ w.text = DecoderEnd(p) \o s
    BY <1>3, <2>3 DEF Decodings
  <2> HIDE DEF w
  <2>5. DecodeAll(v, s \o one) = DecodeByte(w, c)
    <3>1. DecodeAll(v, s \o one) = DecodeAll(DecodeAll(v, s), one)
      BY <1>2, <2>3, DecodeCloses, DecodeJoins
    <3>2. DecodeAll(w, one) = DecodeByte(w, c)
      BY <2>3, <2>4, DecodeOne DEF one
    <3> QED BY <2>2, <3>1, <3>2
  <2>6. DecodeByte(w, c) = [partial |-> FALSE, text |-> (w.text \o <<>>) \o one]
    <3>1. c # "lead" /\ c # "cont"
      BY <2>3 DEF Simple
    <3> QED BY <2>4, <3>1 DEF DecodeByte, one
  <2>7. (w.text \o <<>>) \o one = DecoderEnd(p) \o (s \o one)
    <3>1. w.text \in Seq(Chars) /\ w.text \o <<>> = w.text
      BY <1>3, <2>3, <2>4
    <3>2. (DecoderEnd(p) \o s) \o one = DecoderEnd(p) \o (s \o one)
      BY <1>3, <2>3, JoinAssociates DEF Texts
    <3> QED BY <2>4, <3>1, <3>2
  <2> QED BY <2>3, <2>5, <2>6, <2>7
<1> HIDE DEF T
<1>6. T = Nat
  BY <1>4, <1>5, Induction DEF T
<1>7. Len(t) - 1 \in Nat /\ (Len(t) - 1) + 1 = Len(t) /\ Len(t) <= Len(t)
  BY <1>1
<1>8. DecodeAll(v, SubSeq(t, 1, Len(t))) = [partial |-> FALSE, text |-> DecoderEnd(p) \o SubSeq(t, 1, Len(t))]
  BY <1>6, <1>7 DEF T
<1>9. SubSeq(t, 1, Len(t)) = t
  BY <1>1
<1> QED BY <1>8, <1>9 DEF v

\* Simple bytes that come outside an escape sequence are appended.
LEMMA PushedSimples ==
  ASSUME NEW a \in Accumulators, a.ansi = "text", NEW t \in Seq(Simple), t # <<>>
  PROVE  /\ Ended(a) \in Accumulators
         /\ Pushed(a, t) = With(AppendAll(Ended(a), t), FALSE, "text")
<1> DEFINE e == DecoderEnd(a.partial)
           u == e \o t
<1>1. a.partial \in BOOLEAN
  BY DEF Accumulators
<1>2. e \in Seq(Plain) /\ t \in Seq(Plain) /\ t \in Seq(Chars) /\ u \in Seq(Plain)
  <2>1. Simple \subseteq Plain /\ Plain \subseteq Chars
    BY DEF Simple, Plain
  <2>2. \A s \in Seq(Simple) : s \in Seq(Plain) /\ s \in Seq(Chars)
    BY <2>1
  <2>3. e \in Seq(Plain)
    BY <1>1, DecoderEndIs
  <2> HIDE DEF e
  <2> QED BY <2>2, <2>3
<1> HIDE DEF e
<1>3. DecodeAll([partial |-> a.partial, text |-> <<>>], t) = [partial |-> FALSE, text |-> u]
  BY <1>1, DecodeSimples DEF e
<1> HIDE DEF u
<1>4. StripAll([ansi |-> a.ansi, out |-> <<>>], u) = [ansi |-> "text", out |-> u]
  BY <1>2, NothingToStrip
<1> DEFINE d == DecodeAll([partial |-> a.partial, text |-> <<>>], t)
           s == StripAll([ansi |-> a.ansi, out |-> <<>>], d.text)
<1>5. Pushed(a, t) = With(AppendAll(a, s.out), d.partial, s.ansi)
  BY <1>2, PushedIs
<1>6. Pushed(a, t) = With(AppendAll(a, u), FALSE, "text")
  <2>1. d.text = u /\ d.partial = FALSE
    BY <1>3
  <2> HIDE DEF d
  <2>2. s.out = u /\ s.ansi = "text"
    BY <1>4, <2>1
  <2> QED BY <1>5, <2>1, <2>2
<1> HIDE DEF d, s
<1>7. AppendAll(a, u) = AppendAll(AppendAll(a, e), t)
  BY <1>2, AppendCloses, AppendJoins DEF u
<1>8. AppendAll(a, e) \in Accumulators
  BY <1>2, AppendCloses, AppendFold
<1> QED BY <1>6, <1>7, <1>8 DEF Ended, e

\* A simple byte after a finished character.
LEMMA PushedSimple ==
  ASSUME NEW a \in Accumulators, a.ansi = "text", a.partial = FALSE, NEW c \in Simple
  PROVE  /\ Pushed(a, <<c>>) = AppendChar(a, c)
         /\ Appends(a, c, AppendChar(a, c)) /\ AppendChar(a, c) \in Accumulators
<1>1. <<c>> \in Seq(Simple) /\ <<c>> # <<>> /\ c \in Plain
  BY DEF Simple
<1>2. Ended(a) = a
  <2>1. DecoderEnd(a.partial) \in Seq(Plain) /\ Len(DecoderEnd(a.partial)) = 0
    BY DecoderEndIs
  <2> QED BY <2>1, AppendOne DEF Ended
<1>3. Pushed(a, <<c>>) = With(AppendChar(a, c), FALSE, "text")
  <2>1. Pushed(a, <<c>>) = With(AppendAll(Ended(a), <<c>>), FALSE, "text")
    BY <1>1, PushedSimples
  <2>2. AppendAll(a, <<c>>) = AppendChar(a, c)
    BY <1>1, AppendOne
  <2> QED BY <1>2, <2>1, <2>2
<1> DEFINE w == AppendChar(a, c)
<1>4. w \in Accumulators /\ Appends(a, c, w)
  BY <1>1, AppendCloses, AppendCharIs
<1> HIDE DEF w
<1>5. w.partial = FALSE /\ w.ansi = "text"
  BY <1>4 DEF Appends
<1>6. With(w, FALSE, "text") = w
  BY <1>4, <1>5 DEF With, Accumulators
<1> QED BY <1>3, <1>4, <1>6 DEF w

-----------------------------------------------------------------------------
(* The same output with and without paged markers.                         *)

\* x and y are equal, or as far as a marker in x.
Agree(x, y) ==
  \/ x = y
  \/ \E m \in 0 .. Len(y) :
       m < Len(x) /\ x[m + 1] = "more" /\ \A i \in 1 .. m : x[i] = y[i]

\* What both say goes on agreeing; so does a marker more in x.
LEMMA AgreeGoesOn ==
  ASSUME NEW x \in Seq(Plain), NEW y \in Seq(Plain), Agree(x, y)
  PROVE  /\ \A u \in Seq(Plain) : Agree(x \o u, y \o u)
         /\ Agree(Append(x, "more"), y)
<1>1. ASSUME NEW u \in Seq(Plain) PROVE Agree(x \o u, y \o u)
  <2>1. CASE x = y
    BY <2>1 DEF Agree
  <2>2. CASE x # y
    <3>1. PICK m \in 0 .. Len(y) :
            m < Len(x) /\ x[m + 1] = "more" /\ \A i \in 1 .. m : x[i] = y[i]
      BY <2>2 DEF Agree
    <3>2. /\ Len(x \o u) = Len(x) + Len(u) /\ Len(y \o u) = Len(y) + Len(u)
          /\ \A i \in 1 .. Len(x) : (x \o u)[i] = x[i]
          /\ \A i \in 1 .. Len(y) : (y \o u)[i] = y[i]
          /\ Len(x) \in Nat /\ Len(y) \in Nat /\ Len(u) \in Nat
      BY <1>1
    <3> DEFINE X == x \o u
               Y == y \o u
    <3> HIDE DEF X, Y
    <3>3. m \in 0 .. Len(Y) /\ m < Len(X) /\ X[m + 1] = "more" /\ \A i \in 1 .. m : X[i] = Y[i]
      BY <3>1, <3>2 DEF X, Y
    <3> QED BY <3>3 DEF Agree, X, Y
  <2> QED BY <2>1, <2>2
<1>2. Agree(Append(x, "more"), y)
  <2> DEFINE X == Append(x, "more")
  <2>1. "more" \in Plain
    BY DEF Plain, Chars
  <2>2. /\ Len(X) = Len(x) + 1 /\ X[Len(x) + 1] = "more" /\ \A i \in 1 .. Len(x) : X[i] = x[i]
        /\ Len(x) \in Nat /\ Len(y) \in Nat
    BY <2>1
  <2> HIDE DEF X
  <2>3. CASE x = y
    <3>1. Len(y) \in 0 .. Len(y) /\ Len(y) < Len(X) /\ X[Len(y) + 1] = "more"
      BY <2>2, <2>3
    <3>2. \A i \in 1 .. Len(y) : X[i] = y[i]
      BY <2>2, <2>3
    <3> QED BY <3>1, <3>2 DEF Agree, X
  <2>4. CASE x # y
    <3>1. PICK m \in 0 .. Len(y) :
            m < Len(x) /\ x[m + 1] = "more" /\ \A i \in 1 .. m : x[i] = y[i]
      BY <2>4 DEF Agree
    <3>2. m < Len(X) /\ X[m + 1] = "more" /\ \A i \in 1 .. m : X[i] = y[i]
      BY <2>2, <3>1
    <3> QED BY <3>2 DEF Agree, X
  <2> QED BY <2>3, <2>4
<1> QED BY <1>1, <1>2

\* A text is shown as the line the accumulator keeps.
LEMMA LineIs ==
  ASSUME NEW a \in Showing
  PROVE  /\ a \in Accumulators /\ a.parts \in Seq(Plain) /\ a.line \in Seq(Plain)
         /\ a.col \in Nat /\ a.crs \in Nat /\ a.partial \in BOOLEAN /\ a.ansi \in AnsiStates
         /\ LastLine(a.parts) \in Seq(Plain) /\ ApplyCrLine(LastLine(a.parts)) = a.line
<1>1. /\ a \in Accumulators /\ a.parts \in Seq(Plain) /\ a.line \in Seq(Plain)
      /\ a.col \in Nat /\ a.crs \in Nat /\ a.partial \in BOOLEAN /\ a.ansi \in AnsiStates
      /\ Visible(LastLine(a.parts), a.line)
  BY DEF Showing, Accumulators, Shown
<1> DEFINE none == <<>>
<1>2. none \in Seq(Plain) /\ Len(none) = 0 /\ \A i \in 1 .. Len(none) : none[i] # "LF"
  OBVIOUS
<1> HIDE DEF none
<1>3. LastLine(a.parts) \in Seq(Plain)
  BY <1>1, <1>2, LastLineGoesOn
<1> QED BY <1>1, <1>3, ApplyCrLineShows, VisibleIsUnique

\* a has taken what b has, and n paged markers.
Twins(a, b, n) ==
  /\ a \in Showing /\ b \in Showing /\ n \in Nat
  /\ a.line = b.line /\ a.line \in Seq(Calm)
  /\ a.col = b.col /\ a.crs = b.crs /\ a.partial = b.partial /\ a.ansi = b.ansi
  /\ Gone(Done(a.parts), Done(b.parts), n)
  /\ Agree(a.parts, b.parts)

\* A calm line stays calm.
LEMMA CalmLine ==
  ASSUME NEW l \in Seq(Calm), NEW k \in Nat, NEW c \in Calm
  PROVE  WriteDisplay([line |-> l, col |-> k], c).line \in Seq(Calm)
<1>1. CASE k < Len(l)
  <2>1. k + 1 \in 1 .. Len(l)
    BY <1>1
  <2>2. [l EXCEPT ![k + 1] = c] \in Seq(Calm)
    BY <2>1, ExceptSeq
  <2> QED BY <1>1, <2>2 DEF WriteDisplay
<1>2. CASE ~(k < Len(l))
  <2>1. Append(l, c) \in Seq(Calm)
    OBVIOUS
  <2> QED BY <1>2, <2>1 DEF WriteDisplay
<1> QED BY <1>1, <1>2

\* The lines done after a character.
LEMMA DoneAfter ==
  ASSUME NEW a \in Showing, NEW c \in Plain
  PROVE  LET w == AppendChar(a, c)
             u == IF c = "LF" THEN Append(a.line, c) ELSE <<>>
             v == IF c = "CR" THEN <<>> ELSE IF c = "LF" THEN <<c>>
                  ELSE Append(Repeat("CR", a.crs), c)
         IN /\ w \in Showing /\ Appends(a, c, w)
            /\ u \in Seq(Plain) /\ Done(w.parts) = Done(a.parts) \o u
            /\ v \in Seq(Plain) /\ w.parts = a.parts \o v
<1> DEFINE w == AppendChar(a, c)
           r == Repeat("CR", a.crs)
<1>1. w \in Showing /\ Appends(a, c, w)
  BY LineIs, AppendKeepsShowing, AppendCharIs
<1>2. a.parts \in Seq(Plain) /\ a.line \in Seq(Plain) /\ a.crs \in Nat /\ Done(a.parts) \in Seq(Plain)
  BY LineIs, DoneChar
<1>3. r \in Seq(Plain) /\ \A i \in 1 .. Len(r) : r[i] # "LF"
  BY <1>2, RepeatIs
<1> HIDE DEF w, r
<1>4. Done(a.parts) \o <<>> = Done(a.parts) /\ a.parts \o <<>> = a.parts /\ <<>> \in Seq(Plain)
  BY <1>2
<1>5. CASE c = "CR"
  <2>1. w.parts = a.parts
    BY <1>1, <1>5 DEF Appends
  <2> QED BY <1>1, <1>4, <1>5, <2>1 DEF w
<1>6. CASE c = "LF"
  <2>1. w.parts = Append(a.parts, c)
    BY <1>1, <1>6 DEF Appends
  <2>2. Done(Append(a.parts, c)) = Append(Done(a.parts) \o a.line, c)
    <3>1. Done(Append(a.parts, c)) = Append(Done(a.parts) \o ApplyCrLine(LastLine(a.parts)), c)
      BY <1>2, <1>6, DoneChar
    <3>2. ApplyCrLine(LastLine(a.parts)) = a.line
      BY LineIs
    <3> QED BY <3>1, <3>2
  <2>3. Append(Done(a.parts) \o a.line, c) = Done(a.parts) \o Append(a.line, c)
    BY <1>2, AppendAssociates DEF PlainTexts
  <2>4. Append(a.line, c) \in Seq(Plain) /\ <<c>> \in Seq(Plain) /\ Append(a.parts, c) = a.parts \o <<c>>
    <3>1. \A s \in Seq(Plain) : Append(s, c) = s \o <<c>> /\ Append(s, c) \in Seq(Plain)
      OBVIOUS
    <3>2. <<c>> \in Seq(Plain)
      OBVIOUS
    <3> QED BY <1>2, <3>1, <3>2
  <2> QED BY <1>1, <1>6, <2>1, <2>2, <2>3, <2>4 DEF w
<1>7. CASE c \notin LineEnds
  <2>1. w.parts = Append(a.parts \o r, c) /\ c # "LF" /\ c # "CR"
    BY <1>1, <1>7 DEF Appends, LineEnds, r
  <2>2. Append(a.parts \o r, c) = a.parts \o Append(r, c)
    BY <1>2, <1>3, AppendAssociates DEF PlainTexts
  <2> DEFINE v == Append(r, c)
  <2>3. v \in Seq(Plain) /\ \A i \in 1 .. Len(v) : v[i] # "LF"
    BY <1>3, <2>1
  <2> HIDE DEF v
  <2>4. Done(a.parts \o v) = Done(a.parts)
    BY <1>2, <2>3, DoneGoesOn
  <2>5. Done(w.parts) = Done(a.parts) \o <<>> /\ w.parts = a.parts \o v
    BY <1>4, <2>1, <2>2, <2>4 DEF v
  <2> QED BY <1>1, <1>4, <2>1, <2>3, <2>5 DEF w, v, r
<1> QED BY <1>5, <1>6, <1>7 DEF LineEnds

\* Twins that take the same character are twins.
LEMMA TwinsChar ==
  ASSUME NEW a, NEW b, NEW n, Twins(a, b, n), NEW c \in Calm
  PROVE  Twins(AppendChar(a, c), AppendChar(b, c), n)
<1> DEFINE w == AppendChar(a, c)
           z == AppendChar(b, c)
<1>1. /\ a \in Showing /\ b \in Showing /\ n \in Nat /\ c \in Plain
      /\ a.line = b.line /\ a.line \in Seq(Calm)
      /\ a.col = b.col /\ a.crs = b.crs /\ a.partial = b.partial /\ a.ansi = b.ansi
      /\ Gone(Done(a.parts), Done(b.parts), n) /\ Agree(a.parts, b.parts)
  BY DEF Twins, Calm
<1>2. /\ a.parts \in Seq(Plain) /\ b.parts \in Seq(Plain) /\ a.col \in Nat /\ a.crs \in Nat
      /\ Done(a.parts) \in Seq(Plain) /\ Done(b.parts) \in Seq(Plain) /\ a.line \in Seq(Plain)
  BY <1>1, LineIs, DoneChar
<1> DEFINE u == IF c = "LF" THEN Append(a.line, c) ELSE <<>>
           v == IF c = "CR" THEN <<>> ELSE IF c = "LF" THEN <<c>>
                ELSE Append(Repeat("CR", a.crs), c)
<1>3. /\ w \in Showing /\ Appends(a, c, w)
      /\ u \in Seq(Plain) /\ Done(w.parts) = Done(a.parts) \o u
      /\ v \in Seq(Plain) /\ w.parts = a.parts \o v
  BY <1>1, DoneAfter
<1>4. /\ z \in Showing /\ Appends(b, c, z)
      /\ Done(z.parts) = Done(b.parts) \o u /\ z.parts = b.parts \o v
  BY <1>1, DoneAfter
<1>5. Unmarked(u)
  <2>1. Append(a.line, c) \in Seq(Calm) /\ <<>> \in Seq(Calm)
    BY <1>1
  <2>2. u \in Seq(Calm)
    BY <2>1
  <2> HIDE DEF u
  <2> QED BY <2>2 DEF Unmarked, Calm
<1> HIDE DEF w, z, u, v
<1>6. Gone(Done(w.parts), Done(z.parts), n)
  BY <1>1, <1>2, <1>3, <1>4, <1>5, GoneGoesOn
<1>7. Agree(w.parts, z.parts)
  BY <1>1, <1>2, <1>3, <1>4, AgreeGoesOn
<1>8. /\ w.line = z.line /\ w.line \in Seq(Calm)
      /\ w.col = z.col /\ w.crs = z.crs /\ w.partial = z.partial /\ w.ansi = z.ansi
  <2>1. w.partial = a.partial /\ w.ansi = a.ansi /\ z.partial = b.partial /\ z.ansi = b.ansi
    BY <1>3, <1>4 DEF Appends
  <2>2. CASE c = "CR"
    <3>1. w.line = a.line /\ w.col = a.col /\ w.crs = a.crs + 1
      BY <1>3, <2>2 DEF Appends
    <3>2. z.line = b.line /\ z.col = b.col /\ z.crs = b.crs + 1
      BY <1>4, <2>2 DEF Appends
    <3> QED BY <1>1, <2>1, <3>1, <3>2
  <2>3. CASE c = "LF"
    <3>1. w.line = <<>> /\ w.col = 0 /\ w.crs = 0
      BY <1>3, <2>3 DEF Appends
    <3>2. z.line = <<>> /\ z.col = 0 /\ z.crs = 0
      BY <1>4, <2>3 DEF Appends
    <3>3. <<>> \in Seq(Calm)
      OBVIOUS
    <3> QED BY <1>1, <2>1, <3>1, <3>2, <3>3
  <2>4. CASE c \notin LineEnds
    <3> DEFINE k == IF a.crs = 0 THEN a.col ELSE 0
               d == WriteDisplay([line |-> a.line, col |-> k], c)
    <3>1. w.line = d.line /\ w.col = d.col /\ w.crs = 0
      BY <1>3, <2>4 DEF Appends
    <3>2. z.line = d.line /\ z.col = d.col /\ z.crs = 0
      BY <1>1, <1>4, <2>4 DEF Appends
    <3>3. k \in Nat
      BY <1>2
    <3> HIDE DEF k
    <3>4. d.line \in Seq(Calm)
      BY <1>1, <3>3, CalmLine
    <3> QED BY <1>1, <2>1, <3>1, <3>2, <3>4
  <2> QED BY <2>2, <2>3, <2>4 DEF LineEnds
<1>9. Twins(w, z, n)
  BY <1>1, <1>3, <1>4, <1>6, <1>7, <1>8 DEF Twins
<1> QED BY <1>9 DEF w, z

\* Twins that take the same characters are twins.
LEMMA TwinsAll ==
  ASSUME NEW a, NEW b, NEW n, Twins(a, b, n), NEW s \in Seq(Calm)
  PROVE  Twins(AppendAll(a, s), AppendAll(b, s), n)
<1> DEFINE T == {k \in Nat : k <= Len(s) =>
                   Twins(AppendAll(a, SubSeq(s, 1, k)), AppendAll(b, SubSeq(s, 1, k)), n)}
<1>1. a \in Accumulators /\ b \in Accumulators /\ Len(s) \in Nat /\ Calm \subseteq Plain
  BY LineIs DEF Twins, Calm
<1>2. \A x \in Seq(Calm) : x \in Seq(Plain)
  BY <1>1
<1>3. 0 \in T
  <2>1. SubSeq(s, 1, 0) \in Seq(Plain) /\ Len(SubSeq(s, 1, 0)) = 0
    BY <1>2
  <2>2. AppendAll(a, SubSeq(s, 1, 0)) = a /\ AppendAll(b, SubSeq(s, 1, 0)) = b
    BY <1>1, <2>1, AppendOne
  <2> QED BY <2>2
<1>4. ASSUME NEW k \in T PROVE k + 1 \in T
  <2> SUFFICES ASSUME k + 1 <= Len(s)
               PROVE  Twins(AppendAll(a, SubSeq(s, 1, k + 1)), AppendAll(b, SubSeq(s, 1, k + 1)), n)
    OBVIOUS
  <2> DEFINE p == SubSeq(s, 1, k)
             c == s[k + 1]
  <2>1. k \in Nat /\ k + 1 \in 1 .. Len(s)
    BY <1>1
  <2>2. Twins(AppendAll(a, p), AppendAll(b, p), n)
    BY <1>1, <2>1
  <2> HIDE DEF T
  <2>3. p \in Seq(Calm) /\ SubSeq(s, 1, k + 1) = Append(p, c) /\ c \in Calm
    BY <2>1
  <2> HIDE DEF p, c
  <2>4. p \in Seq(Plain) /\ c \in Plain
    BY <1>1, <1>2, <2>3
  <2>5. /\ AppendAll(a, Append(p, c)) = AppendChar(AppendAll(a, p), c)
        /\ AppendAll(b, Append(p, c)) = AppendChar(AppendAll(b, p), c)
    BY <1>1, <2>4, AppendOne
  <2>6. Twins(AppendChar(AppendAll(a, p), c), AppendChar(AppendAll(b, p), c), n)
    BY <2>2, <2>3, TwinsChar
  <2> QED BY <2>3, <2>5, <2>6
<1> HIDE DEF T
<1>5. T = Nat
  BY <1>3, <1>4, Induction DEF T
<1>6. Twins(AppendAll(a, SubSeq(s, 1, Len(s))), AppendAll(b, SubSeq(s, 1, Len(s))), n)
  BY <1>1, <1>5 DEF T
<1>7. SubSeq(s, 1, Len(s)) = s
  OBVIOUS
<1> QED BY <1>6, <1>7

\* What is decoded from bytes, and filtered, has no markers.
Unpaged == Chars \ {"more"}

\* The decoder puts no marker into the text.
LEMMA CalmDecoding ==
  ASSUME NEW p \in BOOLEAN, NEW s \in Seq(Kinds)
  PROVE  DecodeAll([partial |-> p, text |-> <<>>], s).text \in Seq(Unpaged)
<1> DEFINE V == [partial : BOOLEAN, text : Seq(Unpaged)]
           v0 == [partial |-> p, text |-> <<>>]
<1>1. /\ "bad" \in Unpaged /\ "wide" \in Unpaged /\ Kinds \subseteq Unpaged
  BY DEF Unpaged, Chars, Kinds
<1>2. ASSUME NEW v \in V, NEW c \in Kinds PROVE DecodeByte(v, c) \in V
  <2> DEFINE broken == IF v.partial THEN <<"bad">> ELSE <<>>
  <2>1. v.text \in Seq(Unpaged) /\ v.partial \in BOOLEAN /\ c \in Unpaged
    BY <1>1, <1>2
  <2>2. \A x \in Unpaged : <<x>> \in Seq(Unpaged)
    OBVIOUS
  <2>3. broken \in Seq(Unpaged) /\ <<c>> \in Seq(Unpaged)
    BY <1>1, <2>1, <2>2
  <2> HIDE DEF broken
  <2>4. v.text \o broken \in Seq(Unpaged) /\ (v.text \o broken) \o <<c>> \in Seq(Unpaged)
    BY <2>1, <2>3
  <2>5. Append(v.text, IF v.partial THEN "wide" ELSE "bad") \in Seq(Unpaged)
    <3>1. (IF v.partial THEN "wide" ELSE "bad") \in Unpaged
      BY <1>1
    <3> QED BY <2>1, <3>1
  <2> QED BY <2>1, <2>4, <2>5 DEF DecodeByte, broken
<1>3. v0 \in V
  OBVIOUS
<1> HIDE DEF v0
<1>4. DecodeAll(v0, s) \in V
  <2> HIDE DEF V
  <2> QED BY <1>2, <1>3, DecodeFold
<1> QED BY <1>4 DEF v0

\* Nor does the escape filter, and no bytes of a character or of a sequence are left.
LEMMA CalmFiltering ==
  ASSUME NEW m \in AnsiStates, NEW s \in Seq(Unpaged)
  PROVE  StripAll([ansi |-> m, out |-> <<>>], s).out \in Seq(Calm)
<1> DEFINE V == [ansi : AnsiStates, out : Seq(Calm)]
           v0 == [ansi |-> m, out |-> <<>>]
<1>1. ASSUME NEW v \in V, NEW c \in Unpaged PROVE StripChar(v, c) \in V
  <2>1. v = [ansi |-> v.ansi, out |-> v.out] /\ v.ansi \in AnsiStates /\ v.out \in Seq(Calm)
    BY <1>1
  <2>2. ASSUME NEW x \in AnsiStates PROVE [v EXCEPT !.ansi = x] \in V
    BY <2>1, <2>2
  <2>3. AsText(v, c) \in V
    <3>1. CASE c = "ESC"
      <4>1. "esc" \in AnsiStates
        BY DEF AnsiStates
      <4> QED BY <2>2, <3>1, <4>1 DEF AsText
    <3>2. CASE c # "ESC"
      <4>1. c \in Calm
        BY <1>1, <3>2 DEF Unpaged, Calm, Plain
      <4>2. Append(v.out, c) \in Seq(Calm)
        BY <2>1, <4>1
      <4>3. "text" \in AnsiStates
        BY DEF AnsiStates
      <4> QED BY <3>2, <4>2, <4>3 DEF AsText
    <3> QED BY <3>1, <3>2
  <2> HIDE DEF V
  <2>4. CASE v.ansi = "text"
    BY <2>3, <2>4 DEF StripChar
  <2>5. CASE v.ansi = "esc"
    BY <2>2, <2>3, <2>5 DEF StripChar, AnsiStates
  <2>6. CASE v.ansi = "esc-int"
    BY <1>1, <2>2, <2>3, <2>6 DEF StripChar, AnsiStates
  <2>7. CASE v.ansi = "csi"
    BY <1>1, <2>2, <2>7 DEF StripChar, AnsiStates
  <2>8. CASE v.ansi = "osc"
    BY <1>1, <2>2, <2>8 DEF StripChar, AnsiStates
  <2>9. CASE v.ansi = "osc-esc"
    BY <2>2, <2>9 DEF StripChar, AnsiStates
  <2> QED BY <2>1, <2>4, <2>5, <2>6, <2>7, <2>8, <2>9 DEF AnsiStates
<1>2. v0 \in V
  OBVIOUS
<1> HIDE DEF v0
<1>3. StripAll(v0, s) \in V
  <2> HIDE DEF V
  <2> QED BY <1>1, <1>2, StripFold
<1> QED BY <1>3 DEF v0

\* Twins that take the same bytes are twins.
LEMMA TwinsPushed ==
  ASSUME NEW a, NEW b, NEW n, Twins(a, b, n), NEW s \in Seq(Kinds)
  PROVE  Twins(Pushed(a, s), Pushed(b, s), n)
<1> DEFINE d == DecodeAll([partial |-> a.partial, text |-> <<>>], s)
           f == StripAll([ansi |-> a.ansi, out |-> <<>>], d.text)
<1>1. /\ a \in Showing /\ b \in Showing /\ a.partial = b.partial /\ a.ansi = b.ansi
      /\ a \in Accumulators /\ b \in Accumulators /\ a.partial \in BOOLEAN /\ a.ansi \in AnsiStates
  BY LineIs DEF Twins
<1>2. s \in Seq(Chars)
  BY GivenTexts
<1>3. d.text \in Seq(Unpaged)
  BY <1>1, CalmDecoding
<1>4. f.out \in Seq(Calm)
  <2> HIDE DEF d
  <2> QED BY <1>1, <1>3, CalmFiltering
<1>5. /\ Pushed(a, s) = With(AppendAll(a, f.out), d.partial, f.ansi)
      /\ d \in Decodings /\ f \in Strippings
  BY <1>1, <1>2, PushedIs
<1>6. Pushed(b, s) = With(AppendAll(b, f.out), d.partial, f.ansi)
  <2> DEFINE e == DecodeAll([partial |-> b.partial, text |-> <<>>], s)
             g == StripAll([ansi |-> b.ansi, out |-> <<>>], e.text)
  <2>1. Pushed(b, s) = With(AppendAll(b, g.out), e.partial, g.ansi)
    BY <1>1, <1>2, PushedIs
  <2>2. e = d /\ g = f
    BY <1>1
  <2> QED BY <2>1, <2>2
<1>7. d.partial \in BOOLEAN /\ f.ansi \in AnsiStates
  BY <1>5 DEF Decodings, Strippings
<1> HIDE DEF d, f
<1>8. Twins(AppendAll(a, f.out), AppendAll(b, f.out), n)
  BY <1>4, TwinsAll
<1> DEFINE v == AppendAll(a, f.out)
           w == AppendAll(b, f.out)
<1> HIDE DEF v, w
<1>9. v \in Accumulators /\ w \in Accumulators
  BY <1>8, LineIs DEF Twins, v, w
<1>10. ASSUME NEW x \in Accumulators
       PROVE  LET y == With(x, d.partial, f.ansi)
              IN /\ y.parts = x.parts /\ y.line = x.line /\ y.col = x.col /\ y.crs = x.crs
                 /\ y.partial = d.partial /\ y.ansi = f.ansi /\ y \in Accumulators
  BY <1>7, <1>10 DEF With, Accumulators
<1>11. Pushed(a, s) \in Showing /\ Pushed(b, s) \in Showing
  BY <1>1, <1>2, PushedShows
<1> QED BY <1>5, <1>6, <1>8, <1>9, <1>10, <1>11 DEF Twins, v, w

\* What is left of a character is shown as bad by both.
LEMMA TwinsEnded ==
  ASSUME NEW a, NEW b, NEW n, Twins(a, b, n)
  PROVE  Twins(Ended(a), Ended(b), n)
<1>1. a.partial = b.partial /\ a.partial \in BOOLEAN
  BY LineIs DEF Twins
<1>2. DecoderEnd(a.partial) \in Seq(Calm)
  BY <1>1, DecoderEndIs
<1> QED BY <1>1, <1>2, TwinsAll DEF Ended

\* An accumulator at the start of a line, outside any sequence.
Clear(a) == /\ a.ansi = "text" /\ a.partial = FALSE /\ a.crs = 0
            /\ a.line = <<>> /\ a.col = 0

\* Simple bytes one by one.
LEMMA PushedOneMore ==
  ASSUME NEW a \in Showing, a.ansi = "text", a.partial = FALSE, NEW c \in Simple,
         NEW s \in Seq(Chars)
  PROVE  LET w == AppendChar(a, c)
         IN /\ Pushed(a, <<c>> \o s) = Pushed(w, s)
            /\ w \in Showing /\ Appends(a, c, w) /\ w.ansi = "text" /\ w.partial = FALSE
<1> DEFINE w == AppendChar(a, c)
           one == <<c>>
<1>1. c \in Plain /\ c \in Chars /\ a \in Accumulators
  BY LineIs DEF Simple, Plain
<1>2. Pushed(a, one) = w /\ Appends(a, c, w) /\ w \in Showing
  BY <1>1, PushedSimple, AppendKeepsShowing
<1>3. w.ansi = "text" /\ w.partial = FALSE
  BY <1>2 DEF Appends
<1>4. one \in Seq(Chars)
  BY <1>1
<1> HIDE DEF one, w
<1>5. Pushed(Pushed(a, one), s) = Pushed(a, one \o s)
  BY <1>1, <1>4, PushedInPieces
<1> QED BY <1>2, <1>3, <1>5 DEF one, w

\* A text of one character before another.
LEMMA JoinOne ==
  ASSUME NEW s \in Seq(Plain), NEW t \in Seq(Plain)
  PROVE  Len(s) = 1 =>
           /\ s \o t \in Seq(Plain) /\ Len(s \o t) = 1 + Len(t) /\ (s \o t)[1] = s[1]
           /\ \A i \in 1 .. Len(t) : (s \o t)[1 + i] = t[i]
<1>1. \A i \in 1 .. Len(s) : (s \o t)[i] = s[i]
  OBVIOUS
<1>2. \A i \in 1 .. Len(t) : (s \o t)[Len(s) + i] = t[i]
  OBVIOUS
<1>3. s \o t \in Seq(Plain) /\ Len(s \o t) = Len(s) + Len(t) /\ Len(s) \in Nat
  OBVIOUS
<1> QED BY <1>1, <1>2, <1>3

\* Texts of two and three characters, put together.
LEMMA PutTogether ==
  ASSUME NEW p \in Plain, NEW q \in Plain, NEW r \in Plain
  PROVE  <<p>> \o <<q>> = <<p, q>> /\ <<p>> \o (<<q>> \o <<r>>) = <<p, q, r>>
<1> DEFINE u == <<p>>
           v == <<q>>
           w == <<r>>
           two == <<p, q>>
           three == <<p, q, r>>
<1>1. /\ u \in Seq(Plain) /\ Len(u) = 1 /\ u[1] = p
      /\ v \in Seq(Plain) /\ Len(v) = 1 /\ v[1] = q
      /\ w \in Seq(Plain) /\ Len(w) = 1 /\ w[1] = r
  OBVIOUS
<1>2. two \in Seq(Plain) /\ Len(two) = 2 /\ two[1] = p /\ two[2] = q
  OBVIOUS
<1>3. three \in Seq(Plain) /\ Len(three) = 3 /\ three[1] = p /\ three[2] = q /\ three[3] = r
  OBVIOUS
<1> HIDE DEF u, v, w, two, three
<1>4. /\ u \o v \in Seq(Plain) /\ Len(u \o v) = 2 /\ (u \o v)[1] = p /\ (u \o v)[2] = q
      /\ v \o w \in Seq(Plain) /\ Len(v \o w) = 2 /\ (v \o w)[1] = q /\ (v \o w)[2] = r
  <2>1. 1 \in 1 .. 1 /\ 1 + 1 = 2
    OBVIOUS
  <2> QED BY <1>1, <2>1, JoinOne
<1> DEFINE x == u \o v
           y == v \o w
           z == u \o y
<1>5. x = two
  <2> HIDE DEF x
  <2>1. \A i \in 1 .. 2 : x[i] = two[i]
    BY <1>2, <1>4 DEF x
  <2> QED BY <1>2, <1>4, <2>1, SeqEqual DEF x
<1>6. z \in Seq(Plain) /\ Len(z) = 3 /\ z[1] = p /\ z[2] = q /\ z[3] = r
  <2>1. /\ z \in Seq(Plain) /\ Len(z) = 1 + Len(y) /\ z[1] = u[1]
        /\ \A i \in 1 .. Len(y) : z[1 + i] = y[i]
    <3> HIDE DEF y
    <3> QED BY <1>1, <1>4, JoinOne DEF y
  <2>2. 1 \in 1 .. 2 /\ 2 \in 1 .. 2 /\ 1 + 1 = 2 /\ 1 + 2 = 3
    OBVIOUS
  <2> HIDE DEF y, z
  <2> QED BY <1>1, <1>4, <2>1, <2>2 DEF y
<1>7. z = three
  <2> HIDE DEF z
  <2>1. \A i \in 1 .. 3 : z[i] = three[i]
    BY <1>3, <1>6
  <2> QED BY <1>3, <1>6, <2>1, SeqEqual
<1> QED BY <1>5, <1>7 DEF u, v, w, two, three

\* A character written at the start of a line of one character at most.
LEMMA WriteFirst ==
  ASSUME NEW l \in Seq(Plain), Len(l) <= 1, NEW c \in Plain, NEW k \in Nat, k = 0
  PROVE  /\ WriteDisplay([line |-> l, col |-> k], c).line = <<c>>
         /\ WriteDisplay([line |-> l, col |-> k], c).col = 1
<1>1. ASSUME NEW x \in Seq(Plain), Len(x) = 1, x[1] = c PROVE x = <<c>>
  <2> DEFINE y == <<c>>
  <2>1. y \in Seq(Plain) /\ Len(y) = 1 /\ y[1] = c
    OBVIOUS
  <2> HIDE DEF y
  <2>2. x = y
    BY <1>1, <2>1, SeqEqual
  <2> QED BY <2>2 DEF y
<1>2. CASE 0 < Len(l)
  <2> DEFINE x == [l EXCEPT ![k + 1] = c]
  <2>1. x \in Seq(Plain) /\ Len(x) = 1 /\ x[1] = c
    <3>1. 1 \in 1 .. Len(l) /\ k + 1 = 1
      BY <1>2
    <3>2. x \in Seq(Plain) /\ Len(x) = Len(l) /\ x[1] = c
      BY <3>1, ExceptSeq
    <3> QED BY <1>2, <3>2
  <2>2. /\ WriteDisplay([line |-> l, col |-> k], c).line = x
        /\ WriteDisplay([line |-> l, col |-> k], c).col = 1
    BY <1>2 DEF WriteDisplay
  <2> HIDE DEF x
  <2> QED BY <1>1, <2>1, <2>2
<1>3. CASE ~(0 < Len(l))
  <2> DEFINE x == Append(l, c)
  <2>1. x \in Seq(Plain) /\ Len(x) = 1 /\ x[1] = c
    BY <1>3
  <2>2. /\ WriteDisplay([line |-> l, col |-> k], c).line = x
        /\ WriteDisplay([line |-> l, col |-> k], c).col = 1
    BY <1>3 DEF WriteDisplay
  <2> HIDE DEF x
  <2> QED BY <1>1, <2>1, <2>2
<1> QED BY <1>2, <1>3

\* What the device goes on with after a marker.
Afters == {<<"LF">>, <<"CR", " ", "CR">>}

\* A marker on a line of its own, taken by the one and not by the other.
LEMMA TwinsPaged ==
  ASSUME NEW a, NEW b, NEW n, Twins(a, b, n), Clear(a),
         NEW after \in Afters
  PROVE  Twins(Pushed(a, <<"more">> \o after), Pushed(b, after), n + 1)
<1> DEFINE m == AppendChar(a, "more")
<1>1. /\ a \in Showing /\ b \in Showing /\ a.parts \in Seq(Plain) /\ b.parts \in Seq(Plain)
      /\ Clear(a) /\ Clear(b) /\ n \in Nat
      /\ Gone(Done(a.parts), Done(b.parts), n) /\ Agree(a.parts, b.parts)
  BY LineIs DEF Twins, Clear
<1>2. /\ {"more", "CR", "LF", " "} \subseteq Simple /\ Simple \subseteq Plain
      /\ {"CR", "LF", " "} \subseteq Calm /\ "more" \notin LineEnds
  BY DEF Simple, Plain, Chars, Kinds, Calm, LineEnds
<1>3. after \in Seq(Chars)
  BY SmallTexts, Zenon DEF Afters
<1>4. /\ Pushed(a, <<"more">> \o after) = Pushed(m, after)
      /\ m \in Showing /\ Appends(a, "more", m) /\ m.ansi = "text" /\ m.partial = FALSE
  BY <1>1, <1>2, <1>3, PushedOneMore DEF Clear
<1>5. m.parts = Append(a.parts, "more") /\ m.line = <<"more">> /\ m.col = 1 /\ m.crs = 0
  <2> DEFINE d == WriteDisplay([line |-> a.line, col |-> 0], "more")
  <2>1. d.line = <<"more">> /\ d.col = 1
    <3>1. a.line \in Seq(Plain) /\ Len(a.line) <= 1
      BY <1>1, LineIs DEF Clear
    <3> QED BY <1>2, <3>1, WriteFirst
  <2>2. a.parts \o Repeat("CR", 0) = a.parts
    BY <1>1, NoCrs
  <2> HIDE DEF m, d
  <2>3. m.line = d.line /\ m.col = d.col /\ m.crs = 0 /\ m.parts = Append(a.parts \o Repeat("CR", 0), "more")
    BY <1>1, <1>2, <1>4 DEF Appends, Clear, d
  <2> QED BY <2>1, <2>2, <2>3
<1> HIDE DEF m
<1>6. /\ Done(m.parts) = Done(a.parts) /\ Done(a.parts) \in Seq(Plain) /\ Done(b.parts) \in Seq(Plain)
      /\ m.parts \in Seq(Plain)
  <2>1. "more" \in Plain /\ "more" # "LF"
    BY <1>2
  <2>2. m.parts \in Seq(Plain)
    BY <1>4, LineIs
  <2> QED BY <1>1, <1>5, <2>1, <2>2, DoneChar
<1>7. Agree(m.parts, b.parts)
  BY <1>1, <1>5, AgreeGoesOn
<1>8. Gone(Done(a.parts), Done(b.parts), n + 1)
  BY <1>1 DEF Gone
<1>9. CASE after = <<"LF">>
  <2> DEFINE w == AppendChar(m, "LF")
             z == AppendChar(b, "LF")
             u == Append(m.line, "LF")
             lf == <<"LF">>
  <2>1. Pushed(m, after) = w /\ Pushed(b, after) = z
    <3>1. m \in Accumulators /\ b \in Accumulators
      BY <1>1, <1>4, LineIs
    <3> QED BY <1>1, <1>2, <1>4, <1>9, <3>1, PushedSimple DEF Clear
  <2>2. /\ w \in Showing /\ Appends(m, "LF", w) /\ Done(w.parts) = Done(m.parts) \o u
        /\ w.parts = m.parts \o lf
    BY <1>2, <1>4, DoneAfter
  <2>3. /\ z \in Showing /\ Appends(b, "LF", z) /\ z.parts = b.parts \o lf
        /\ Done(z.parts) = Done(b.parts) \o Append(b.line, "LF")
    BY <1>1, <1>2, DoneAfter
  <2> DEFINE mm == <<"more">>
  <2>4. u = mm \o lf /\ Append(b.line, "LF") = lf
    BY <1>1, <1>5 DEF Clear
  <2>5. lf \in Seq(Plain) /\ Unmarked(lf) /\ mm \in Seq(Plain)
    <3>1. "LF" \in Plain /\ "more" \in Plain
      BY <1>2
    <3>2. \A x \in Plain : <<x>> \in Seq(Plain)
      OBVIOUS
    <3>3. Unmarked(lf)
      BY DEF Unmarked
    <3> QED BY <3>1, <3>2, <3>3
  <2>6. mm = <<"more">>
    OBVIOUS
  <2> HIDE DEF w, z, u, lf, mm
  <2>7. Gone(Done(m.parts) \o mm, Done(b.parts), n + 1)
    BY <1>1, <1>6, <2>5, <2>6, GoneGoesOn
  <2>8. Gone((Done(m.parts) \o mm) \o lf, Done(b.parts) \o lf, n + 1)
    <3>1. Done(m.parts) \o mm \in Seq(Plain) /\ n + 1 \in Nat
      BY <1>1, <1>6, <2>5
    <3> QED BY <1>6, <2>5, <2>7, <3>1, GoneGoesOn
  <2>9. (Done(m.parts) \o mm) \o lf = Done(m.parts) \o (mm \o lf)
    <3>1. Done(m.parts) \in Seq(Plain)
      BY <1>6
    <3> QED BY <2>5, <3>1, JoinAssociates DEF PlainTexts
  <2>10. Agree(w.parts, z.parts)
    BY <1>1, <1>6, <1>7, <2>2, <2>3, <2>5, AgreeGoesOn
  <2>11. w.line = <<>> /\ w.col = 0 /\ w.crs = 0 /\ z.line = <<>> /\ z.col = 0 /\ z.crs = 0
    BY <2>2, <2>3 DEF Appends
  <2>12. w.partial = z.partial /\ w.ansi = z.ansi
    BY <1>1, <1>4, <2>2, <2>3 DEF Appends, Clear
  <2>13. <<>> \in Seq(Calm) /\ n + 1 \in Nat
    BY <1>1
  <2>14. Gone(Done(w.parts), Done(z.parts), n + 1)
    BY <2>2, <2>3, <2>4, <2>8, <2>9
  <2>15. Twins(w, z, n + 1)
    BY <2>2, <2>3, <2>10, <2>11, <2>12, <2>13, <2>14 DEF Twins
  <2> QED BY <1>4, <2>1, <2>15
<1>10. CASE after = <<"CR", " ", "CR">>
  <2> DEFINE cr == <<"CR">>
             m1 == AppendChar(m, "CR")
             b1 == AppendChar(b, "CR")
             m2 == AppendChar(m1, " ")
             b2 == AppendChar(b1, " ")
  <2>1. /\ m1 \in Showing /\ Appends(m, "CR", m1) /\ m1.ansi = "text" /\ m1.partial = FALSE
        /\ b1 \in Showing /\ Appends(b, "CR", b1) /\ b1.ansi = "text" /\ b1.partial = FALSE
    <3>1. <<>> \in Seq(Chars)
      OBVIOUS
    <3> QED BY <1>1, <1>2, <1>4, <3>1, PushedOneMore DEF Clear
  <2>2. /\ m1.parts = m.parts /\ m1.line = m.line /\ m1.col = 1 /\ m1.crs = 1
        /\ b1.parts = b.parts /\ b1.line = b.line /\ b1.col = 0 /\ b1.crs = 1
    <3> HIDE DEF m1, b1
    <3> QED BY <1>1, <1>5, <2>1 DEF Appends, Clear
  <2> HIDE DEF m1, b1
  <2>3. /\ m2 \in Showing /\ Appends(m1, " ", m2) /\ m2.ansi = "text" /\ m2.partial = FALSE
        /\ b2 \in Showing /\ Appends(b1, " ", b2) /\ b2.ansi = "text" /\ b2.partial = FALSE
    <3>1. <<>> \in Seq(Chars)
      OBVIOUS
    <3> QED BY <1>2, <2>1, <3>1, PushedOneMore
  <2> DEFINE v == Append(Repeat("CR", 1), " ")
  <2>4. /\ Done(m2.parts) = Done(m1.parts) \o <<>> /\ m2.parts = m1.parts \o v /\ v \in Seq(Plain)
        /\ Done(b2.parts) = Done(b1.parts) \o <<>> /\ b2.parts = b1.parts \o v
    <3>1. /\ Done(m2.parts) = Done(m1.parts) \o <<>> /\ m2.parts = m1.parts \o v /\ v \in Seq(Plain)
      BY ZenonT(40), <1>2, <2>1, <2>2, DoneAfter
    <3>2. Done(b2.parts) = Done(b1.parts) \o <<>> /\ b2.parts = b1.parts \o v
      BY ZenonT(40), <1>2, <2>1, <2>2, DoneAfter
    <3> QED BY <3>1, <3>2
  <2> HIDE DEF m2, b2, v
  <2>5. /\ m2.line = <<" ">> /\ m2.col = 1 /\ m2.crs = 0
        /\ b2.line = <<" ">> /\ b2.col = 1 /\ b2.crs = 0
    <3> DEFINE d == WriteDisplay([line |-> m1.line, col |-> 0], " ")
               e == WriteDisplay([line |-> b1.line, col |-> 0], " ")
    <3>1. /\ m1.line \in Seq(Plain) /\ Len(m1.line) <= 1
          /\ b1.line \in Seq(Plain) /\ Len(b1.line) <= 1
      BY <1>1, <1>5, <2>1, <2>2, LineIs DEF Clear
    <3>2. " " \in Plain /\ 0 \in Nat
      BY <1>2
    <3>3. d.line = <<" ">> /\ d.col = 1 /\ e.line = <<" ">> /\ e.col = 1
      BY <3>1, <3>2, WriteFirst
    <3>4. " " \notin LineEnds
      BY DEF LineEnds
    <3> HIDE DEF d, e
    <3>5. m2.line = d.line /\ m2.col = d.col /\ m2.crs = 0
      BY <2>2, <2>3, <3>4 DEF Appends, d
    <3>6. b2.line = e.line /\ b2.col = e.col /\ b2.crs = 0
      BY <2>2, <2>3, <3>4 DEF Appends, e
    <3> QED BY <3>3, <3>5, <3>6
  <2>6. Twins(m2, b2, n + 1)
    <3>1. Done(m2.parts) = Done(a.parts) /\ Done(b2.parts) = Done(b.parts)
      BY <1>6, <2>2, <2>4
    <3>2. Agree(m2.parts, b2.parts)
      BY <1>1, <1>6, <1>7, <2>2, <2>4, AgreeGoesOn
    <3>3. <<" ">> \in Seq(Calm) /\ n + 1 \in Nat
      <4>1. " " \in Calm
        BY <1>2
      <4>2. \A x \in Calm : <<x>> \in Seq(Calm)
        OBVIOUS
      <4>3. <<" ">> \in Seq(Calm)
        BY <4>1, <4>2, Zenon
      <4>4. n + 1 \in Nat
        BY <1>1
      <4> QED BY <4>3, <4>4, Zenon
    <3> QED BY <1>8, <2>3, <2>5, <3>1, <3>2, <3>3 DEF Twins
  <2>7. Twins(AppendChar(m2, "CR"), AppendChar(b2, "CR"), n + 1)
    BY <1>2, <2>6, TwinsChar
  <2>8. ASSUME NEW x \in Showing, x.ansi = "text", x.partial = FALSE
        PROVE  Pushed(x, after) = AppendChar(AppendChar(AppendChar(x, "CR"), " "), "CR")
    <3> DEFINE s == <<"CR">>
               t == <<" ">> \o s
               y == AppendChar(x, "CR")
               y2 == AppendChar(y, " ")
    <3>1. after = <<"CR">> \o t
      <4>1. <<"CR">> \o (<<" ">> \o <<"CR">>) = <<"CR", " ", "CR">>
        BY <1>2, PutTogether
      <4> QED BY <1>10, <4>1
    <3>2. s \in Seq(Chars) /\ t \in Seq(Chars)
      <4>1. "CR" \in Chars /\ " " \in Chars
        BY <1>2 DEF Plain
      <4>2. \A u \in Chars : <<u>> \in Seq(Chars)
        OBVIOUS
      <4>3. \A u, v1 \in Seq(Chars) : u \o v1 \in Seq(Chars)
        OBVIOUS
      <4> QED BY <4>1, <4>2, <4>3
    <3> HIDE DEF s, t
    <3>3. Pushed(x, after) = Pushed(y, t) /\ y \in Showing /\ y.ansi = "text" /\ y.partial = FALSE
      BY <1>2, <2>8, <3>1, <3>2, PushedOneMore
    <3> HIDE DEF y
    <3>4. Pushed(y, t) = Pushed(y2, s) /\ y2 \in Showing /\ y2.ansi = "text" /\ y2.partial = FALSE
      BY <1>2, <3>2, <3>3, PushedOneMore DEF t
    <3> HIDE DEF y2
    <3>5. Pushed(y2, s) = AppendChar(y2, "CR")
      <4>1. y2 \in Accumulators
        BY <3>4, LineIs
      <4> QED BY <1>2, <3>4, <4>1, PushedSimple DEF s
    <3> QED BY <3>3, <3>4, <3>5 DEF y, y2
  <2>9. /\ Pushed(m, after) = AppendChar(m2, "CR")
        /\ Pushed(b, after) = AppendChar(b2, "CR")
    BY <1>1, <1>4, <2>8 DEF m1, m2, b1, b2, Clear
  <2> QED BY <1>4, <2>7, <2>9
<1> QED BY <1>9, <1>10, Zenon DEF Afters

-----------------------------------------------------------------------------
(* The start of a line, and what is in front of the output.                *)

\* After a line feed that is shown the display line is empty.
LEMMA LineStarts ==
  ASSUME NEW t \in Seq(Chars), LastLine(t) = <<>>, Pushed(Fresh, t).ansi = "text"
  PROVE  Clear(Pushed(Fresh, t))
<1> DEFINE a == Pushed(Fresh, t)
           L == Len(t)
           n == LastLF(t)
<1>1. IsLastLF(t, n) /\ L \in Nat
  BY LastLFIs
<1>2. n = L
  <2>1. n \in 0 .. L
    BY <1>1 DEF IsLastLF
  <2>2. SubSeq(t, n + 1, L) = <<>>
    BY DEF LastLine
  <2> HIDE DEF n, L
  <2>3. Len(SubSeq(t, n + 1, L)) = L - n
    BY <1>1, <2>1 DEF L
  <2>4. Len(<<>>) = 0
    OBVIOUS
  <2>5. L - n = 0
    BY <2>2, <2>3, <2>4, Zenon
  <2>6. L \in Nat
    BY <1>1 DEF L
  <2> QED BY <2>1, <2>5, <2>6
<1>3. CASE L = 0
  <2>1. t = <<>>
    BY <1>3
  <2>2. a = Fresh
    BY <2>1, FreshIs
  <2> QED BY <2>2 DEF Clear, Fresh
<1>4. CASE L # 0
  <2> DEFINE s == SubSeq(t, 1, L - 1)
             one == <<"LF">>
             v == Pushed(Fresh, s)
             e == DecoderEnd(v.partial)
             g == StripAll([ansi |-> v.ansi, out |-> <<>>], e)
             f == StripChar(g, "LF")
  <2>1. t[L] = "LF" /\ L \in 1 .. L
    BY <1>1, <1>2, <1>4 DEF IsLastLF
  <2>2. s \in Seq(Chars) /\ t = Append(s, "LF") /\ t = s \o one
    <3>1. s \in Seq(Chars) /\ t = Append(s, t[L])
      BY <2>1
    <3> HIDE DEF s
    <3>2. Append(s, "LF") = s \o <<"LF">>
      <4>1. \A x \in Chars : Append(s, x) = s \o <<x>>
        BY <3>1
      <4>2. "LF" \in Chars
        BY DEF Chars, Kinds
      <4> QED BY <4>1, <4>2
    <3> QED BY <2>1, <3>1, <3>2
  <2>3. one \in Seq(Chars) /\ "LF" \in Simple /\ "LF" \in Chars /\ "LF" \in Plain
    BY SmallTexts DEF Simple, Plain, Chars, Kinds
  <2> HIDE DEF s, one
  <2>4. v \in Accumulators /\ a = Pushed(v, one)
    <3>1. v \in Accumulators
      BY <2>2, FreshIs, PushedIs
    <3>2. Pushed(v, one) = Pushed(Fresh, s \o one)
      BY <2>2, <2>3, FreshIs, PushedInPieces
    <3> QED BY <2>2, <3>1, <3>2
  <2> HIDE DEF v
  <2>5. v.partial \in BOOLEAN /\ v.ansi \in AnsiStates
    BY <2>4 DEF Accumulators
  <2>6. e \in Seq(Chars)
    BY <2>5, DecoderEndIs
  <2>7. DecodeAll([partial |-> v.partial, text |-> <<>>], one) = [partial |-> FALSE, text |-> e \o one]
    BY <2>3, <2>5, DecodeSimple DEF one
  <2> HIDE DEF e
  <2> DEFINE none == <<>>
             b == [ansi |-> v.ansi, out |-> none]
  <2>8. b \in Strippings
    BY <2>5 DEF Strippings
  <2>9. g \in Strippings /\ StripAll(b, Append(e, "LF")) = f
    <3> HIDE DEF b
    <3>1. StripAll(b, e) \in Strippings
      BY <2>6, <2>8, StripCloses, StripFold
    <3>2. StripAll(b, Append(e, "LF")) = StripChar(StripAll(b, e), "LF")
      BY <2>3, <2>6, <2>8, StripOne
    <3> QED BY <3>1, <3>2 DEF b, none
  <2>10. Append(e, "LF") = e \o one
    <3>1. \A x \in Chars : Append(e, x) = e \o <<x>>
      BY <2>6
    <3> QED BY <2>3, <3>1 DEF one
  <2> HIDE DEF g, b
  <2>11. a = With(AppendAll(v, f.out), FALSE, f.ansi) /\ a.partial = FALSE /\ a.ansi = f.ansi
    <3> DEFINE d == DecodeAll([partial |-> v.partial, text |-> <<>>], one)
               h == StripAll([ansi |-> v.ansi, out |-> <<>>], d.text)
    <3>1. /\ a = With(AppendAll(v, h.out), d.partial, h.ansi)
          /\ a.partial = d.partial /\ a.ansi = h.ansi
      BY <2>3, <2>4, PushedIs
    <3>2. d.partial = FALSE /\ d.text = e \o one
      BY <2>7
    <3> HIDE DEF d
    <3>3. h = f
      BY <2>9, <2>10, <3>2 DEF b, none
    <3> QED BY <3>1, <3>2, <3>3
  <2>12. f.out = Append(g.out, "LF") /\ g.out \in Seq(Plain)
    <3>1. f.ansi = "text"
      BY <2>11
    <3>2. /\ g = [ansi |-> g.ansi, out |-> g.out] /\ g.ansi \in AnsiStates
          /\ g.out \in Seq(Plain)
      BY <2>9 DEF Strippings
    <3>3. AsText(g, "LF").out = Append(g.out, "LF")
      BY DEF AsText
    <3>4. CASE g.ansi = "text"
      BY <3>2, <3>3, <3>4 DEF StripChar
    <3>5. CASE g.ansi = "esc"
      BY <3>2, <3>3, <3>5 DEF StripChar, Intermediates, Columns4And5
    <3>6. CASE g.ansi = "esc-int"
      BY <3>2, <3>3, <3>6 DEF StripChar, Intermediates, Finals, Columns4And5
    <3>7. CASE g.ansi = "csi"
      BY <3>1, <3>2, <3>7 DEF StripChar, Finals, Columns4And5
    <3>8. CASE g.ansi = "osc"
      BY <3>1, <3>2, <3>8 DEF StripChar
    <3>9. CASE g.ansi = "osc-esc"
      BY <3>1, <3>2, <3>9 DEF StripChar
    <3> QED BY <3>2, <3>4, <3>5, <3>6, <3>7, <3>8, <3>9 DEF AnsiStates
  <2> HIDE DEF f
  <2> DEFINE y == AppendAll(v, g.out)
             w == AppendChar(y, "LF")
  <2>13. AppendAll(v, f.out) = w
    BY <2>3, <2>4, <2>12, AppendOne
  <2>14. y \in Accumulators
    BY <2>4, <2>12, AppendCloses, AppendFold
  <2> HIDE DEF y
  <2>15. w \in Accumulators /\ Appends(y, "LF", w)
    BY <2>3, <2>14, AppendCloses, AppendCharIs
  <2> HIDE DEF w
  <2>16. w.line = <<>> /\ w.col = 0 /\ w.crs = 0
    BY <2>15 DEF Appends
  <2>17. a = With(w, FALSE, "text")
    BY <2>11, <2>13
  <2>18. a.line = w.line /\ a.col = w.col /\ a.crs = w.crs
    BY <2>15, <2>17 DEF With, Accumulators
  <2> QED BY <2>11, <2>16, <2>18 DEF Clear
<1> QED BY <1>3, <1>4

\* An accumulator with w in front of its text.
Prefixed(w, a) == [a EXCEPT !.parts = w \o @]

\* It is an accumulator, and differs in its text only.
LEMMA PrefixedIs ==
  ASSUME NEW w \in Seq(Plain), Tidy(w), NEW a \in Accumulators
  PROVE  LET b == Prefixed(w, a)
         IN /\ b \in Accumulators /\ b.parts = w \o a.parts /\ b.line = a.line /\ b.col = a.col
            /\ b.crs = a.crs /\ b.partial = a.partial /\ b.ansi = a.ansi
<1> DEFINE p == a.parts
           q == w \o p
<1>1. p \in Seq(Plain) /\ Tidy(p)
  BY DEF Accumulators
<1> HIDE DEF p
<1>2. /\ q \in Seq(Plain) /\ Len(q) = Len(w) + Len(p) /\ Len(w) \in Nat /\ Len(p) \in Nat
      /\ \A i \in 1 .. Len(w) : q[i] = w[i]
      /\ \A i \in 1 .. Len(p) : q[Len(w) + i] = p[i]
  BY <1>1
<1> HIDE DEF q
<1>3. ASSUME NEW i \in DOMAIN q, q[i] = "CR" PROVE i < Len(q) /\ q[i + 1] # "LF"
  <2>1. i \in 1 .. Len(w) + Len(p)
    BY <1>2
  <2>2. CASE i <= Len(w)
    <3>1. i \in DOMAIN w /\ w[i] = "CR"
      BY <1>2, <1>3, <2>1, <2>2
    <3>2. i < Len(w) /\ w[i + 1] # "LF"
      BY <3>1 DEF Tidy
    <3>3. i + 1 \in 1 .. Len(w)
      BY <1>2, <2>1, <3>2
    <3> QED BY <1>2, <2>1, <3>2, <3>3
  <2>3. CASE i > Len(w)
    <3> DEFINE k == i - Len(w)
    <3>1. k \in 1 .. Len(p) /\ i = Len(w) + k /\ k \in DOMAIN p
      BY <1>1, <1>2, <2>1, <2>3
    <3> HIDE DEF k
    <3>2. p[k] = "CR"
      BY <1>2, <1>3, <3>1
    <3>3. k < Len(p) /\ p[k + 1] # "LF"
      BY <1>1, <3>1, <3>2 DEF Tidy
    <3>4. k + 1 \in 1 .. Len(p) /\ i + 1 = Len(w) + (k + 1)
      <4>1. k \in Nat /\ k >= 1 /\ Len(p) \in Nat /\ Len(w) \in Nat
        BY <1>2, <3>1
      <4>2. k + 1 \in 1 .. Len(p)
        BY <3>3, <4>1
      <4> QED BY <3>1, <4>1, <4>2
    <3> QED BY SMTT(20), <1>2, <3>1, <3>3, <3>4
  <2> QED BY <1>2, <2>1, <2>2, <2>3
<1>4. Tidy(q)
  BY <1>3 DEF Tidy
<1>5. Prefixed(w, a) = [a EXCEPT !.parts = q]
  BY DEF Prefixed, q, p
<1> QED BY <1>2, <1>4, <1>5 DEF Accumulators, q, p

\* What is in front has no part in what is appended, or pushed.
LEMMA PrefixedAll ==
  ASSUME NEW w \in Seq(Plain), Tidy(w), NEW a \in Accumulators, NEW s \in Seq(Plain)
  PROVE  AppendAll(Prefixed(w, a), s) = Prefixed(w, AppendAll(a, s))
<1> DEFINE H == [v \in Accumulators |-> Prefixed(w, v)]
<1>1. H \in [Accumulators -> Accumulators]
  BY PrefixedIs
<1>2. ASSUME NEW v \in Accumulators, NEW c \in Plain
      PROVE  AppendChar(H[v], c) = H[AppendChar(v, c)]
  <2> DEFINE x == AppendChar(v, c)
             u == Prefixed(w, v)
             y == AppendChar(u, c)
             z == Prefixed(w, x)
  <2>1. x \in Accumulators /\ Appends(v, c, x) /\ H[v] = u
    BY <1>2, AppendCloses, AppendCharIs
  <2> HIDE DEF x
  <2>2. /\ u \in Accumulators /\ u.parts = w \o v.parts /\ u.line = v.line /\ u.col = v.col
        /\ u.crs = v.crs /\ u.partial = v.partial /\ u.ansi = v.ansi
    BY <1>2, PrefixedIs
  <2>3. /\ z \in Accumulators /\ z.parts = w \o x.parts /\ z.line = x.line /\ z.col = x.col
        /\ z.crs = x.crs /\ z.partial = x.partial /\ z.ansi = x.ansi
    BY <2>1, PrefixedIs
  <2> HIDE DEF u, z
  <2>4. y \in Accumulators /\ Appends(u, c, y)
    BY <1>2, <2>2, AppendCloses, AppendCharIs
  <2> HIDE DEF y
  <2>5. v.parts \in Seq(Plain) /\ v.crs \in Nat
    BY <1>2 DEF Accumulators
  <2>6. y.parts = z.parts
    <3>1. CASE c = "CR"
      BY <2>1, <2>2, <2>3, <2>4, <3>1 DEF Appends
    <3>2. CASE c = "LF"
      <4>1. y.parts = Append(w \o v.parts, c) /\ x.parts = Append(v.parts, c)
        BY <2>1, <2>2, <2>4, <3>2 DEF Appends
      <4>2. Append(w \o v.parts, c) = w \o Append(v.parts, c)
        BY <1>2, <2>5, AppendAssociates DEF PlainTexts
      <4> QED BY <2>3, <4>1, <4>2
    <3>3. CASE c \notin LineEnds
      <4> DEFINE r == Repeat("CR", v.crs)
      <4>1. y.parts = Append((w \o v.parts) \o r, c) /\ x.parts = Append(v.parts \o r, c)
        BY <2>1, <2>2, <2>4, <3>3 DEF Appends
      <4>2. r \in Seq(Plain)
        BY <2>5, RepeatIs
      <4> HIDE DEF r
      <4>3. (w \o v.parts) \o r = w \o (v.parts \o r) /\ v.parts \o r \in Seq(Plain)
        BY <2>5, <4>2, JoinAssociates DEF PlainTexts
      <4>4. Append(w \o (v.parts \o r), c) = w \o Append(v.parts \o r, c)
        BY <1>2, <4>3, AppendAssociates DEF PlainTexts
      <4> QED BY <2>3, <4>1, <4>3, <4>4
    <3> QED BY <3>1, <3>2, <3>3 DEF LineEnds
  <2>7. /\ y.line = z.line /\ y.col = z.col /\ y.crs = z.crs
        /\ y.partial = z.partial /\ y.ansi = z.ansi
    <3>1. c = "CR" \/ c = "LF" \/ c \notin LineEnds
      BY DEF LineEnds
    <3> QED BY ZenonT(40), <2>1, <2>2, <2>3, <2>4, <3>1 DEF Appends
  <2>8. y = z
    <3>1. \A o \in Accumulators :
            o = [parts |-> o.parts, line |-> o.line, col |-> o.col, crs |-> o.crs,
                 partial |-> o.partial, ansi |-> o.ansi]
      BY DEF Accumulators
    <3> QED BY <2>3, <2>4, <2>6, <2>7, <3>1
  <2>9. H[x] = z
    BY <2>1 DEF z
  <2> QED BY <2>1, <2>8, <2>9 DEF x, y, u
<1>3. AppendAll(a, s) \in Accumulators
  BY AppendCloses, AppendFold
<1>4. H[a] = Prefixed(w, a) /\ H[AppendAll(a, s)] = Prefixed(w, AppendAll(a, s)) /\ H[a] \in Accumulators
  BY <1>1, <1>3
<1> HIDE DEF H
<1>5. AppendAll(H[a], s) = H[AppendAll(a, s)]
  <2>1. Commutes(H, AppendStep(Accumulators, Plain), Accumulators, Plain)
    BY <1>1, <1>2, AppendCloses DEF Commutes, AppendStep
  <2> QED BY <2>1, AppendCloses, AppendMaps
<1> QED BY <1>4, <1>5

\* Bytes change nothing in front of the text they arrive after.
LEMMA PrefixedPushed ==
  ASSUME NEW w \in Seq(Plain), Tidy(w), NEW a \in Accumulators, NEW s \in Seq(Chars)
  PROVE  Pushed(Prefixed(w, a), s) = Prefixed(w, Pushed(a, s))
<1> DEFINE b == Prefixed(w, a)
           d == DecodeAll([partial |-> a.partial, text |-> <<>>], s)
           f == StripAll([ansi |-> a.ansi, out |-> <<>>], d.text)
<1>1. b \in Accumulators /\ b.partial = a.partial /\ b.ansi = a.ansi
  BY PrefixedIs
<1> HIDE DEF b
<1>2. /\ d \in Decodings /\ f \in Strippings
      /\ Pushed(a, s) = With(AppendAll(a, f.out), d.partial, f.ansi)
  BY PushedIs
<1>3. Pushed(b, s) = With(AppendAll(b, f.out), d.partial, f.ansi)
  <2> DEFINE e == DecodeAll([partial |-> b.partial, text |-> <<>>], s)
             g == StripAll([ansi |-> b.ansi, out |-> <<>>], e.text)
  <2>1. Pushed(b, s) = With(AppendAll(b, g.out), e.partial, g.ansi)
    BY <1>1, PushedIs
  <2>2. e = d /\ g = f
    BY <1>1
  <2> QED BY <2>1, <2>2
<1>4. f.out \in Seq(Plain)
  BY <1>2 DEF Strippings
<1> HIDE DEF d, f
<1>5. AppendAll(b, f.out) = Prefixed(w, AppendAll(a, f.out)) /\ AppendAll(a, f.out) \in Accumulators
  BY <1>4, PrefixedAll, AppendCloses, AppendFold DEF b
<1> DEFINE x == AppendAll(a, f.out)
<1> HIDE DEF x
<1>6. With(Prefixed(w, x), d.partial, f.ansi) = Prefixed(w, With(x, d.partial, f.ansi))
  BY <1>5 DEF With, Prefixed, Accumulators, x
<1> QED BY <1>2, <1>3, <1>5, <1>6 DEF b, x

-----------------------------------------------------------------------------
(* The prompt, and the screen.                                             *)

NoLF == Plain \ {"LF"}

\* z has the text of y, and then some that has no LF.
AddsTo(y, z) == \E u \in Seq(NoLF) : z.parts = y.parts \o u

\* Text without an LF leaves what came before it as it is.
LEMMA AppendsAfter ==
  ASSUME NEW y \in Accumulators, NEW s \in Seq(NoLF)
  PROVE  /\ AppendAll(y, s) \in Accumulators
         /\ AddsTo(y, AppendAll(y, s))
<1> DEFINE V == {z \in Accumulators : AddsTo(y, z)}
<1>1. \A t \in Seq(NoLF) : t \in Seq(Plain)
  BY DEF NoLF
<1>2. y.parts \in Seq(Plain)
  BY DEF Accumulators
<1>3. y \in V
  <2>1. y.parts \o <<>> = y.parts /\ <<>> \in Seq(NoLF)
    BY <1>2
  <2>2. AddsTo(y, y)
    BY <2>1 DEF AddsTo
  <2> QED BY <2>2
<1>4. ASSUME NEW z \in V, NEW c \in NoLF PROVE AppendChar(z, c) \in V
  <2> DEFINE w == AppendChar(z, c)
  <2>1. z \in Accumulators /\ c \in Plain /\ c # "LF" /\ z.crs \in Nat
    BY <1>4 DEF NoLF, Accumulators
  <2>2. PICK u \in Seq(NoLF) : z.parts = y.parts \o u
    BY <1>4 DEF AddsTo
  <2>3. w \in Accumulators /\ Appends(z, c, w)
    BY <2>1, AppendCloses, AppendCharIs
  <2> HIDE DEF w
  <2>4. c = "CR" => AddsTo(y, w)
    BY <2>2, <2>3 DEF Appends, AddsTo
  <2>5. ASSUME c # "CR" PROVE AddsTo(y, w)
    <3> DEFINE r == Repeat("CR", z.crs)
    <3>1. w.parts = Append((y.parts \o u) \o r, c)
      BY <2>1, <2>2, <2>3, <2>5 DEF Appends, LineEnds
    <3>2. r \in Seq(Plain) /\ r \in Seq(NoLF)
      <4>1. /\ r \in Seq(Plain) /\ Len(r) = z.crs /\ \A i \in 1 .. z.crs : r[i] = "CR"
        BY <2>1, RepeatIs
      <4>2. "CR" \in NoLF
        BY DEF NoLF, Plain, Chars, Kinds
      <4> HIDE DEF r
      <4>3. \A i \in 1 .. Len(r) : r[i] \in NoLF
        BY <4>1, <4>2
      <4> QED BY <4>1, <4>3
    <3> HIDE DEF r
    <3>3. u \in Seq(Plain)
      BY <1>1
    <3>4. (y.parts \o u) \o r = y.parts \o (u \o r) /\ u \o r \in Seq(Plain)
      BY <1>2, <3>2, <3>3, JoinAssociates DEF PlainTexts
    <3>5. Append(y.parts \o (u \o r), c) = y.parts \o Append(u \o r, c)
      BY <1>2, <2>1, <3>4, AppendAssociates DEF PlainTexts
    <3>6. Append(u \o r, c) \in Seq(NoLF)
      BY <1>4, <3>2
    <3>7. w.parts = y.parts \o Append(u \o r, c)
      BY <3>1, <3>4, <3>5
    <3> QED BY <3>6, <3>7 DEF AddsTo
  <2> QED BY <2>3, <2>4, <2>5 DEF w
<1> HIDE DEF V
<1>5. AppendAll(y, s) \in V
  BY <1>3, <1>4, AppendFold
<1> QED BY <1>5 DEF V

\* Of a text that is complete the snapshot shows all.
LEMMA SnapshotIs ==
  ASSUME NEW a \in Accumulators, a.ansi = "text"
  PROVE  Snapshot(a) = Text(Ended(a))
<1> DEFINE e == DecoderEnd(a.partial)
<1>1. a.partial \in BOOLEAN /\ [a EXCEPT !.partial = a.partial] = a
  BY DEF Accumulators
<1>2. e \in Seq(Plain) /\ e \in Seq(Chars)
  BY <1>1, DecoderEndIs
<1> HIDE DEF e
<1>3. StripAll([ansi |-> "text", out |-> <<>>], e) = [ansi |-> "text", out |-> e]
  BY <1>2, NothingToStrip
<1>4. Ingest(a, e) = With(AppendAll(a, e), a.partial, "text")
  <2> DEFINE s == StripAll([ansi |-> a.ansi, out |-> <<>>], e)
  <2>1. Ingest([a EXCEPT !.partial = a.partial], e) = With(AppendAll(a, s.out), a.partial, s.ansi)
    BY <1>1, <1>2, IngestIs
  <2>2. s.out = e /\ s.ansi = "text"
    BY <1>3
  <2> HIDE DEF s
  <2> QED BY <1>1, <2>1, <2>2
<1> DEFINE v == AppendAll(a, e)
<1>5. v \in Accumulators
  BY <1>2, AppendCloses, AppendFold
<1> HIDE DEF v
<1>6. With(v, a.partial, "text").parts = v.parts /\ With(v, a.partial, "text").crs = v.crs
  BY <1>5 DEF With, Accumulators
<1> QED BY <1>4, <1>6 DEF Snapshot, Text, Ended, e, v

\* What is ended is complete.
LEMMA EndedIs ==
  ASSUME NEW a \in Accumulators
  PROVE  /\ Ended(a) \in Accumulators
         /\ Ended(a).partial = a.partial /\ Ended(a).ansi = a.ansi
         /\ a.partial = FALSE => Ended(a) = a
         /\ a \in Showing => Ended(a) \in Showing
         /\ \A w \in Seq(Plain) : Tidy(w) => Ended(Prefixed(w, a)) = Prefixed(w, Ended(a))
<1> DEFINE e == DecoderEnd(a.partial)
<1>1. e \in Seq(Plain) /\ (a.partial = FALSE => Len(e) = 0) /\ a.partial \in BOOLEAN
  BY DecoderEndIs DEF Accumulators
<1> HIDE DEF e
<1>2. AppendAll(a, e) \in Accumulators /\ (a.partial = FALSE => AppendAll(a, e) = a)
  BY <1>1, AppendCloses, AppendFold, AppendOne
<1>3. a \in Showing => AppendAll(a, e) \in Showing
  BY <1>1, AppendKeepsShowing, AppendFold
<1>4. ASSUME NEW w \in Seq(Plain), Tidy(w) PROVE Ended(Prefixed(w, a)) = Prefixed(w, Ended(a))
  <2>1. Prefixed(w, a).partial = a.partial
    BY <1>4, PrefixedIs
  <2>2. AppendAll(Prefixed(w, a), e) = Prefixed(w, AppendAll(a, e))
    BY <1>1, <1>4, PrefixedAll
  <2> QED BY <2>1, <2>2 DEF Ended, e
<1>5. AppendAll(a, e).partial = a.partial /\ AppendAll(a, e).ansi = a.ansi
  <2> DEFINE V == {z \in Accumulators : z.partial = a.partial /\ z.ansi = a.ansi}
  <2>1. ASSUME NEW z \in V, NEW c \in Plain PROVE AppendChar(z, c) \in V
    <3> DEFINE w == AppendChar(z, c)
    <3>1. w \in Accumulators /\ Appends(z, c, w)
      BY <2>1, AppendCloses, AppendCharIs
    <3> HIDE DEF w
    <3>2. w.partial = z.partial /\ w.ansi = z.ansi
      BY <3>1 DEF Appends
    <3> QED BY <2>1, <3>1, <3>2 DEF w
  <2>2. a \in V
    OBVIOUS
  <2> HIDE DEF V
  <2>3. AppendAll(a, e) \in V
    BY <1>1, <2>1, <2>2, AppendFold
  <2> QED BY <2>3 DEF V
<1> QED BY <1>2, <1>3, <1>4, <1>5 DEF Ended, e

Befores == {<<"CR", "LF">>, <<"LF", "CR">>}

\* An LF with a CR at its side ends the line.
LEMMA LineEnded ==
  ASSUME NEW v \in Accumulators, NEW before \in Befores
  PROVE  /\ before \in Seq(Simple) /\ before \in Seq(Plain) /\ before # <<>>
         /\ AppendAll(v, before) \in Accumulators
         /\ AppendAll(v, before).parts = Append(v.parts, "LF")
<1>1. "CR" \in Simple /\ "LF" \in Simple /\ "CR" \in Plain /\ "LF" \in Plain
  BY DEF Simple, Plain, Chars, Kinds
<1>2. \A p, q \in Simple : <<p, q>> \in Seq(Simple) /\ <<p, q>> \in Seq(Plain) /\ <<p, q>> # <<>>
  BY DEF Simple
<1>3. ASSUME NEW p \in {"CR", "LF"}, NEW q \in {"CR", "LF"}, p # q
      PROVE  /\ AppendAll(v, <<p, q>>) \in Accumulators
             /\ AppendAll(v, <<p, q>>).parts = Append(v.parts, "LF")
  <2>1. p \in Plain /\ q \in Plain
    BY <1>1
  <2>2. AppendAll(v, <<p>> \o <<q>>) = AppendAll(AppendAll(v, <<p>>), <<q>>)
    <3> DEFINE P == <<p>>
               Q == <<q>>
    <3>1. P \in Seq(Plain) /\ Q \in Seq(Plain)
      BY <2>1
    <3> HIDE DEF P, Q
    <3>2. AppendAll(v, P \o Q) = AppendAll(AppendAll(v, P), Q)
      BY <3>1, AppendCloses, AppendJoins
    <3> QED BY <3>2 DEF P, Q
  <2>3. <<p>> \o <<q>> = <<p, q>>
    BY <2>1, PutTogether
  <2> DEFINE x == AppendChar(v, p)
             y == AppendChar(x, q)
  <2>4. AppendAll(v, <<p>>) = x /\ x \in Accumulators /\ Appends(v, p, x)
    BY <2>1, AppendOne, AppendCloses, AppendCharIs
  <2> HIDE DEF x
  <2>5. AppendAll(x, <<q>>) = y /\ y \in Accumulators /\ Appends(x, q, y)
    BY <2>1, <2>4, AppendOne, AppendCloses, AppendCharIs
  <2> HIDE DEF y
  <2>6. AppendAll(v, <<p, q>>) = y
    BY <2>2, <2>3, <2>4, <2>5
  <2>7. y.parts = Append(v.parts, "LF")
    <3>1. CASE p = "CR" /\ q = "LF"
      BY <2>4, <2>5, <3>1 DEF Appends
    <3>2. CASE p = "LF" /\ q = "CR"
      BY <2>4, <2>5, <3>2 DEF Appends
    <3> QED BY <1>3, <3>1, <3>2
  <2> QED BY <2>5, <2>6, <2>7
<1>4. \E p \in {"CR", "LF"}, q \in {"CR", "LF"} : p # q /\ before = <<p, q>>
  BY DEF Befores
<1> QED BY <1>1, <1>2, <1>3, <1>4

\* What comes after the last LF, and the LF, are not up to the last line.
LEMMA UpToIs ==
  ASSUME NEW p \in Seq(Plain), NEW z \in Seq(Plain), \A i \in 1 .. Len(z) : z[i] # "LF"
  PROVE  UpToLastLine(Append(p, "LF") \o z) = p
<1> DEFINE n == Len(p)
           x == Append(p, "LF")
           text == x \o z
<1>1. /\ x \in Seq(Plain) /\ Len(x) = n + 1 /\ x[n + 1] = "LF" /\ n \in Nat
      /\ \A i \in 1 .. n : x[i] = p[i]
  <2>1. "LF" \in Plain
    BY DEF Plain, Chars, Kinds
  <2> QED BY <2>1
<1> HIDE DEF x, n
<1>2. text \in Seq(Plain) /\ Len(text) = (n + 1) + Len(z) /\ Len(z) \in Nat
  BY SMTT(20), <1>1
<1>3. \A i \in 1 .. n + 1 : text[i] = x[i]
  BY <1>1
<1>4. \A i \in (n + 1) + 1 .. Len(text) : text[i] # "LF"
  <2>1. ASSUME NEW i \in (n + 1) + 1 .. Len(text) PROVE text[i] # "LF"
    <3>1. i \in Nat /\ i - (n + 1) \in 1 .. Len(z)
      BY <1>1, <1>2, <2>1
    <3>2. text[i] = z[i - (n + 1)]
      BY <1>1, <1>2, <2>1, <3>1
    <3> QED BY <3>1, <3>2
  <2> QED BY <2>1
<1> HIDE DEF text
<1>5. n + 1 \in 0 .. Len(text) /\ n + 1 \in 1 .. n + 1 /\ (n + 1) - 1 = n
  BY <1>1, <1>2
<1>6. IsLastLF(text, n + 1)
  BY <1>1, <1>3, <1>4, <1>5 DEF IsLastLF
<1>7. LastLF(text) = n + 1
  BY <1>2, <1>6, LastLFIs
<1>8. SubSeq(text, 1, n) = p
  <2> DEFINE q == SubSeq(text, 1, n)
  <2>1. n <= Len(text)
    BY <1>1, <1>2
  <2>2. q \in Seq(Plain) /\ Len(q) = n /\ \A i \in 1 .. n : q[i] = text[i]
    BY <1>1, <1>2, <2>1
  <2> HIDE DEF q
  <2>3. \A i \in 1 .. n : q[i] = p[i]
    BY <1>1, <1>3, <2>2
  <2> QED BY <1>1, <2>2, <2>3 DEF n, q
<1> QED BY <1>5, <1>7, <1>8 DEF UpToLastLine, text, x, n

\* Removing the prompt's line leaves what was there before the prompt.
LEMMA PromptGoes ==
  ASSUME NEW a \in Accumulators, a.ansi = "text",
         NEW before \in Befores
  PROVE  LET b == Pushed(a, before \o Current)
         IN b.partial = FALSE /\ UpToLastLine(Snapshot(b)) = Ended(a).parts
<1> DEFINE v == Ended(a)
           y == AppendAll(v, before)
           w == AppendAll(y, Current)
           b == Pushed(a, before \o Current)
<1>1. v \in Accumulators
  BY EndedIs
<1> HIDE DEF v
<1>2. /\ before \in Seq(Simple) /\ before \in Seq(Plain) /\ before # <<>>
      /\ y \in Accumulators /\ y.parts = Append(v.parts, "LF")
  BY <1>1, LineEnded
<1>3. Current \in Seq(Simple) /\ Current \in Seq(Plain) /\ Current \in Seq(NoLF)
  <2>1. Letters \subseteq Simple /\ Letters \subseteq Plain /\ Letters \subseteq NoLF
    BY DEF Letters, Simple, Plain, NoLF, Chars, Kinds
  <2>2. Current \in Seq(Letters)
    BY ResponseAssumption
  <2> HIDE DEF v
  <2> QED BY <2>1, <2>2
<1>4. AppendAll(v, before \o Current) = w
  BY <1>1, <1>2, <1>3, AppendCloses, AppendJoins
<1>5. b = With(w, FALSE, "text")
  <2>1. before \o Current \in Seq(Simple) /\ before \o Current # <<>>
    BY <1>2, <1>3
  <2>2. b = With(AppendAll(Ended(a), before \o Current), FALSE, "text")
    BY <2>1, PushedSimples
  <2> QED BY <1>4, <2>2 DEF v
<1> HIDE DEF y, b
<1>6. w \in Accumulators /\ AddsTo(y, w)
  BY <1>2, <1>3, AppendsAfter
<1> HIDE DEF w
<1>7. /\ b \in Accumulators /\ b.partial = FALSE /\ b.ansi = "text"
      /\ b.parts = w.parts /\ b.crs = w.crs
  BY <1>5, <1>6 DEF With, Accumulators, AnsiStates
<1>8. Snapshot(b) = w.parts \o Repeat("CR", w.crs)
  <2>1. Ended(b) = b
    BY <1>7, EndedIs
  <2>2. Snapshot(b) = Text(b)
    BY <1>7, <2>1, SnapshotIs
  <2> QED BY <1>7, <2>2 DEF Text
<1>9. PICK u \in Seq(NoLF) : w.parts = Append(v.parts, "LF") \o u
  BY <1>2, <1>6 DEF AddsTo
<1> DEFINE r == Repeat("CR", w.crs)
           x == Append(v.parts, "LF")
<1>10. r \in Seq(Plain) /\ \A i \in 1 .. Len(r) : r[i] # "LF"
  <2>1. w.crs \in Nat
    BY <1>6 DEF Accumulators
  <2> QED BY <2>1, RepeatIs
<1> HIDE DEF r
<1>11. v.parts \in Seq(Plain) /\ u \in Seq(Plain) /\ x \in Seq(Plain)
       /\ \A i \in 1 .. Len(u) : u[i] # "LF"
  <2>1. v.parts \in Seq(Plain)
    BY <1>1 DEF Accumulators
  <2>2. NoLF \subseteq Plain /\ "LF" \in Plain /\ \A c \in NoLF : c # "LF"
    BY DEF NoLF, Plain, Chars, Kinds
  <2>3. u \in Seq(Plain)
    BY <1>9, <2>2
  <2>4. \A i \in 1 .. Len(u) : u[i] # "LF"
    BY <1>9, <2>2
  <2>5. x \in Seq(Plain)
    BY <2>1, <2>2
  <2> HIDE DEF x
  <2> QED BY <2>1, <2>3, <2>4, <2>5
<1>12. u \o r \in Seq(Plain) /\ \A i \in 1 .. Len(u \o r) : (u \o r)[i] # "LF"
  BY <1>10, <1>11
<1> HIDE DEF x
<1>13. (x \o u) \o r = x \o (u \o r)
  BY SMTT(20), <1>10, <1>11, JoinAssociates DEF PlainTexts
<1>14. UpToLastLine(x \o (u \o r)) = v.parts
  BY <1>11, <1>12, UpToIs DEF x
<1>15. Snapshot(b) = x \o (u \o r)
  BY <1>8, <1>9, <1>13 DEF x, r
<1> QED BY <1>7, <1>14, <1>15 DEF b, v

\* On the screen a text is its done lines and the display line; CRs that wait
\* at its end change nothing.
LEMMA ScreenShows ==
  ASSUME NEW v \in Showing
  PROVE  /\ ApplyCarriageReturns(v.parts) = Done(v.parts) \o v.line
         /\ ApplyCarriageReturns(Text(v)) = Done(v.parts) \o v.line
         /\ Text(v) \in Seq(Plain)
<1> DEFINE r == Repeat("CR", v.crs)
           l == LastLine(v.parts)
<1>1. /\ v.parts \in Seq(Plain) /\ v.line \in Seq(Plain) /\ v.crs \in Nat
      /\ l \in Seq(Plain) /\ ApplyCrLine(l) = v.line
  BY LineIs
<1>2. Shown(l, v.line, v.col)
  BY DEF Showing
<1>3. r \in Seq(Plain) /\ \A i \in 1 .. Len(r) : r[i] # "LF"
  BY <1>1, RepeatIs
<1>4. Shown(l \o r, v.line, IF v.crs = 0 THEN v.col ELSE 0)
  <2> HIDE DEF l
  <2> QED BY <1>1, <1>2, ShownCrs
<1> HIDE DEF r
<1>5. LastLine(v.parts \o r) = l \o r /\ Done(v.parts \o r) = Done(v.parts)
  BY <1>1, <1>3, LastLineGoesOn, DoneGoesOn
<1>6. v.parts \o r \in Seq(Plain) /\ l \o r \in Seq(Plain)
  <2> HIDE DEF l
  <2> QED BY <1>1, <1>3
<1> HIDE DEF l
<1>7. ApplyCrLine(l \o r) = v.line
  <2>1. ApplyCrLine(l \o r) \in Seq(Plain) /\ Visible(l \o r, ApplyCrLine(l \o r))
    BY <1>6, ApplyCrLineShows
  <2>2. Visible(l \o r, v.line)
    BY <1>4 DEF Shown
  <2> QED BY <1>1, <1>6, <2>1, <2>2, VisibleIsUnique
<1>8. ApplyCarriageReturns(v.parts) = Done(v.parts) \o ApplyCrLine(l)
  BY <1>1, ScreenIs DEF l
<1>9. ApplyCarriageReturns(v.parts \o r) = Done(v.parts \o r) \o ApplyCrLine(l \o r)
  BY <1>5, <1>6, ScreenIs
<1> QED BY <1>1, <1>5, <1>6, <1>7, <1>8, <1>9 DEF Text, r

\* Where the echo is looked for.
Tried == EchoPrefixes(Previous, Current)
Matches(text) ==
  {i \in DOMAIN Tried : /\ Tried[i] # <<>> \/ i = Len(Tried)
                        /\ MatchWrapped(text, Tried[i] \o Command) > 0}

\* Of the matches the first is taken.
LEMMA StripEchoIs ==
  ASSUME NEW text
  PROVE  /\ Matches(text) = {} => StripEcho(text, Command, Previous, Current) = text
         /\ Matches(text) # {} =>
              \E i \in Matches(text) :
                /\ \A k \in Matches(text) : i <= k
                /\ StripEcho(text, Command, Previous, Current)
                     = SubSeq(text, MatchWrapped(text, Tried[i] \o Command) + 1, Len(text))
<1>1. StripEcho(text, Command, Previous, Current)
        = IF Command = <<>> \/ Matches(text) = {} THEN text
          ELSE SubSeq(text, MatchWrapped(text, Tried[Min(Matches(text))] \o Command) + 1,
                      Len(text))
  BY DEF StripEcho, Matches, Tried
<1>2. Command # <<>>
  BY ResponseAssumption
<1>3. Matches(text) # {} => Min(Matches(text)) \in Matches(text)
                              /\ \A k \in Matches(text) : Min(Matches(text)) <= k
  <2>1. Matches(text) \in SUBSET Nat
    BY DEF Matches, Tried, EchoPrefixes
  <2>2. ASSUME Matches(text) # {}
        PROVE  \E i \in Matches(text) : \A k \in Matches(text) : i <= k
    BY <2>1, <2>2, Least
  <2> QED BY <2>1, <2>2 DEF Min
<1> QED BY <1>1, <1>2, <1>3

\* What the prefixes are.
LEMMA TriedAre ==
  /\ Len(Tried) = 5 /\ DOMAIN Tried = 1 .. 5 /\ Tried[5] = <<>>
  /\ Tried[1] = Previous /\ Tried[2] = Current
  /\ Tried[3] = Trim(Previous) /\ Tried[4] = Trim(Current)
  /\ \A i \in 1 .. 5 : Tried[i] \in Seq(Letters) /\ Tried[i] \o Command \in Seq(Letters)
<1>1. /\ Len(Tried) = 5 /\ DOMAIN Tried = 1 .. 5 /\ Tried[5] = <<>>
      /\ Tried[1] = Previous /\ Tried[2] = Current
      /\ Tried[3] = Trim(Previous) /\ Tried[4] = Trim(Current)
  BY DEF Tried, EchoPrefixes
<1>2. Command \in Seq(Letters) /\ Previous \in Seq(Letters) /\ Current \in Seq(Letters)
  BY ResponseAssumption
<1>3. Trim(Previous) \in Seq(Letters) /\ Trim(Current) \in Seq(Letters)
  BY <1>2, TrimIsText
<1>4. <<>> \in Seq(Letters)
  OBVIOUS
<1>5. ASSUME NEW i \in 1 .. 5 PROVE Tried[i] \in Seq(Letters)
  <2>1. i = 1 \/ i = 2 \/ i = 3 \/ i = 4 \/ i = 5
    OBVIOUS
  <2> QED BY <1>1, <1>2, <1>3, <1>4, <2>1
<1>6. \A i \in 1 .. 5 : Tried[i] \o Command \in Seq(Letters)
  BY <1>2, <1>5
<1> QED BY <1>1, <1>5, <1>6

\* A match is a wrapped echo that ends its line.
LEMMA MatchIs ==
  ASSUME NEW text \in Seq(Plain), NEW i \in Matches(text)
  PROVE  LET expected == Tried[i] \o Command
             e == WrappedEnd(text, expected)
         IN /\ i \in 1 .. 5 /\ expected \in Seq(Letters)
            /\ e # 0 /\ CharAt(text, e + 1) \in LineEnds \cup {"none"}
<1>1. i \in 1 .. 5 /\ MatchWrapped(text, Tried[i] \o Command) > 0
  BY TriedAre DEF Matches
<1>2. Tried[i] \o Command \in Seq(Letters)
  BY <1>1, TriedAre
<1> QED BY <1>1, <1>2 DEF MatchWrapped

\* Where x is like y up to a marker, an echo in x is one in y.
LEMMA EchoInBoth ==
  ASSUME NEW x \in Seq(Plain), NEW y \in Seq(Plain), Agree(x, y),
         NEW n \in Nat, NEW e \in 1 .. Len(x), Unmarked(SubSeq(x, 1, e)),
         CharAt(x, e + 1) \in LineEnds \cup {"none"}
  PROVE  LET z == y \o Repeat("CR", n)
         IN /\ e \in DOMAIN z /\ CharAt(z, e + 1) \in LineEnds \cup {"none"}
            /\ SubSeq(z, 1, e) = SubSeq(x, 1, e)
<1> DEFINE r == Repeat("CR", n)
           z == y \o r
           q == SubSeq(x, 1, e)
           w == SubSeq(z, 1, e)
<1>1. r \in Seq(Plain) /\ Len(r) = n /\ \A i \in 1 .. n : r[i] = "CR"
  BY RepeatIs
<1> HIDE DEF r
<1>2. /\ z \in Seq(Plain) /\ Len(z) = Len(y) + n /\ Len(y) \in Nat /\ Len(x) \in Nat
      /\ \A i \in 1 .. Len(y) : z[i] = y[i]
  <2>1. Len(y) \in Nat /\ Len(x) \in Nat
    OBVIOUS
  <2>2. z \in Seq(Plain) /\ Len(z) = Len(y) + Len(r)
    BY SMTT(20), <1>1
  <2>3. \A i \in 1 .. Len(y) : z[i] = y[i]
    BY <1>1
  <2> HIDE DEF z
  <2> QED BY <1>1, <2>1, <2>2, <2>3
<1>3. \A i \in Len(y) + 1 .. Len(y) + n : z[i] = "CR"
  <2>1. ASSUME NEW i \in Len(y) + 1 .. Len(y) + n PROVE z[i] = "CR"
    <3>1. i \in Nat /\ i - Len(y) \in 1 .. n
      BY <1>2, <2>1
    <3> QED BY <1>1, <3>1
  <2> QED BY <2>1
<1>4. /\ q \in Seq(Plain) /\ Len(q) = e /\ \A i \in 1 .. e : q[i] = x[i]
  BY <1>2
<1> HIDE DEF z, q
<1>5. \A i \in 1 .. e : x[i] # "more"
  BY <1>4 DEF Unmarked, q
<1>6. CharAt(x, e + 1) # "more"
  BY DEF LineEnds
<1>7. /\ e <= Len(y) /\ (\A i \in 1 .. e : y[i] = x[i])
      /\ e < Len(y) => x = y \/ (y[e + 1] = x[e + 1] /\ e < Len(x))
      /\ e = Len(y) => x = y
  <2>1. CASE x = y
    BY <2>1, <1>2
  <2>2. ASSUME NEW m \in 0 .. Len(y), m < Len(x), x[m + 1] = "more",
               \A i \in 1 .. m : x[i] = y[i]
        PROVE  /\ e <= Len(y) /\ (\A i \in 1 .. e : y[i] = x[i])
               /\ e < Len(y) /\ y[e + 1] = x[e + 1] /\ e < Len(x)
    <3>1. m + 1 \in 1 .. Len(x) /\ e \in Nat /\ m \in Nat /\ m <= Len(y)
      BY <1>2, <2>2
    <3>2. ~(m + 1 <= e)
      BY <1>5, <2>2, <3>1
    <3>3. e # m
      BY <1>6, <2>2, <3>1 DEF CharAt
    <3>4. e < m /\ e + 1 \in 1 .. m
      BY <3>1, <3>2, <3>3
    <3> QED BY <1>2, <2>2, <3>1, <3>4
  <2> QED BY <2>1, <2>2 DEF Agree
<1>8. e \in Nat /\ e \in 1 .. Len(z)
  BY <1>2, <1>7
<1>9. CharAt(z, e + 1) \in LineEnds \cup {"none"}
  <2>1. CASE e < Len(y)
    <3>1. z[e + 1] = y[e + 1] /\ e + 1 \in 1 .. Len(y) /\ e + 1 \in 1 .. Len(z)
      BY <1>2, <1>8, <2>1
    <3>2. y[e + 1] = x[e + 1] /\ e + 1 \in 1 .. Len(x)
      BY <1>2, <1>7, <1>8, <2>1
    <3>3. CharAt(x, e + 1) = x[e + 1] /\ CharAt(z, e + 1) = z[e + 1]
      BY <1>2, <3>1, <3>2 DEF CharAt
    <3> QED BY <3>1, <3>2, <3>3
  <2>2. CASE e = Len(y)
    <3>1. CASE e + 1 \in 1 .. Len(z)
      <4>1. e + 1 \in Len(y) + 1 .. Len(y) + n
        BY <1>2, <1>8, <2>2, <3>1
      <4>2. CharAt(z, e + 1) = "CR"
        BY <1>2, <1>3, <3>1, <4>1 DEF CharAt
      <4> QED BY <4>2 DEF LineEnds
    <3>2. CASE e + 1 \notin 1 .. Len(z)
      <4>1. CharAt(z, e + 1) = "none"
        BY <1>2, <3>2 DEF CharAt
      <4> QED BY <4>1
    <3> QED BY <3>1, <3>2
  <2> QED BY <1>2, <1>7, <1>8, <2>1, <2>2
<1>10. w = q
  <2>1. w \in Seq(Plain) /\ Len(w) = e /\ \A i \in 1 .. e : w[i] = z[i]
    BY <1>2, <1>8
  <2>2. \A i \in 1 .. e : w[i] = q[i]
    <3> HIDE DEF w
    <3>1. ASSUME NEW i \in 1 .. e PROVE w[i] = q[i]
      <4>1. w[i] = z[i] /\ q[i] = x[i] /\ y[i] = x[i]
        BY <1>4, <1>7, <2>1
      <4>2. i \in 1 .. Len(y)
        BY <1>2, <1>7
      <4> QED BY <1>2, <4>1, <4>2
    <3> QED BY <3>1
  <2> HIDE DEF w
  <2> QED BY <1>4, <2>1, <2>2
<1>11. DOMAIN z = 1 .. Len(z)
  BY <1>2
<1> QED BY <1>8, <1>9, <1>10, <1>11 DEF q, w, z, r

\* With the prompt's line removed, the echo and the markers are what is left.
LEMMA StdoutIs ==
  ASSUME ResponseInv, ~acc.partial, acc.line = Current
  PROVE  Stdout = RemoveHandledMarkers(ApplyCarriageReturns(
                    StripEcho(UpToLastLine(Snapshot(acc)), Command, Previous, Current)), handled)
<1>1. StripFinalPrompt(CollapseCrLf(StripAnsi(Snapshot(acc))), Current)
        = UpToLastLine(Snapshot(acc))
  BY PromptStripped
<1> QED BY <1>1 DEF Stdout, Clean

\* An accumulator that has received the output: as the device sent it, or with
\* the markers that were paged.
Proper(a) ==
  /\ a \in Showing
  /\ handled = 0 => a = Pushed(Fresh, shown)
  /\ ~ordinary => Twins(a, Pushed(Fresh, shown), handled)

\* The accumulator that received the output and no paged marker.
LEMMA FreshShows ==
  /\ Fresh \in Showing /\ Done(<<>>) = <<>> /\ Text(Fresh) = <<>>
  /\ \A s \in Seq(Chars) : Pushed(Fresh, s) \in Showing
<1>1. Fresh \in Accumulators /\ Fresh.parts = <<>> /\ Fresh.line = <<>> /\ Fresh.col = 0
      /\ Fresh.crs = 0
  BY FreshIs DEF Fresh
<1>2. LastLine(<<>>) = <<>>
  <2>1. \A i, j \in Nat : SubSeq(<<>>, i + 1, 0) = <<>>
    OBVIOUS
  <2>2. LastLF(<<>>) \in Nat /\ Len(<<>>) = 0
    <3>1. <<>> \in Seq(Plain)
      OBVIOUS
    <3>2. IsLastLF(<<>>, LastLF(<<>>))
      BY <3>1, LastLFIs
    <3> QED BY <3>2 DEF IsLastLF
  <2> QED BY <2>1, <2>2 DEF LastLine
<1>3. Fresh \in Showing
  BY <1>1, <1>2, ShownNothing DEF Showing
<1>4. Done(<<>>) = <<>>
  <2>1. <<>> \in Seq(Plain) /\ Len(<<>>) = 0 /\ NoLines \in Splittings
    BY DEF NoLines, Splittings
  <2>2. SplitAll(NoLines, <<>>) = NoLines
    <3>1. \A v \in Splittings, c \in Plain : SplitChar(v, c) \in Splittings
      BY SplitCloses
    <3> QED BY <2>1, <3>1, SplitOne
  <2> QED BY <2>2 DEF Done, NoLines
<1>5. Text(Fresh) = <<>>
  <2>1. <<>> \o Repeat("CR", 0) = <<>>
    <3>1. <<>> \in Seq(Plain)
      OBVIOUS
    <3> QED BY <3>1, NoCrs
  <2> QED BY <1>1, <2>1 DEF Text
<1>6. \A s \in Seq(Chars) : Pushed(Fresh, s) \in Showing
  BY <1>3, PushedShows
<1> QED BY <1>3, <1>4, <1>5, <1>6

\* The screen of the output is what is left of it when its markers are removed.
LEMMA ScreenOfOutput ==
  ASSUME NEW a, Proper(a), a.ansi = "text", handled \in Nat, shown \in Seq(Chars),
         handled = 0 \/ ~ordinary
  PROVE  LET x == Ended(a).parts
             b == Ended(Pushed(Fresh, shown))
         IN /\ RemoveHandledMarkers(ApplyCarriageReturns(x), handled) = Screen(shown)
            /\ x \in Seq(Plain) /\ b \in Showing
            /\ Whole(shown) = Text(b) /\ Agree(x, b.parts)
<1> DEFINE p == Pushed(Fresh, shown)
           v == Ended(a)
           b == Ended(p)
<1>1. p \in Showing /\ a \in Showing /\ p.ansi = "text"
  <2>1. p \in Showing /\ a \in Showing
    BY FreshShows DEF Proper
  <2>2. CASE handled = 0
    BY <2>1, <2>2 DEF Proper
  <2>3. CASE ~ordinary
    <3>1. Twins(a, p, handled)
      BY <2>3 DEF Proper
    <3> QED BY <2>1, <3>1 DEF Twins
  <2> QED BY <2>1, <2>2, <2>3
<1> HIDE DEF p
<1>2. Snapshot(p) = Text(b)
  BY <1>1, LineIs, SnapshotIs
<1>3. v \in Showing /\ b \in Showing
  BY <1>1, LineIs, EndedIs
<1>4. a = p \/ Twins(v, b, handled)
  <2>1. CASE handled = 0
    BY <2>1 DEF Proper, p
  <2>2. CASE ~ordinary
    <3>1. Twins(a, p, handled)
      BY <2>2 DEF Proper, p
    <3> QED BY <3>1, TwinsEnded
  <2> QED BY <2>1, <2>2
<1>5. handled = 0 => a = p
  BY DEF Proper, p
<1> HIDE DEF v, b
<1> DEFINE x == Done(v.parts)
           y == Done(b.parts)
<1>6. /\ v.parts \in Seq(Plain) /\ b.parts \in Seq(Plain)
      /\ v.line \in Seq(Plain) /\ b.line \in Seq(Plain)
  BY <1>3, LineIs
<1>7. x \in Seq(Plain) /\ y \in Seq(Plain)
  <2>1. "LF" \in Plain
    BY DEF Plain, Chars, Kinds
  <2> QED BY <1>6, <2>1, DoneChar
<1>8. ApplyCarriageReturns(v.parts) = x \o v.line /\ ApplyCarriageReturns(Text(b)) = y \o b.line
  BY <1>3, ScreenShows
<1>9. Screen(shown) = y \o b.line
  BY <1>2, <1>8 DEF Screen, Whole, p
<1>10. a = p => v = b
  BY DEF v, b
<1> HIDE DEF x, y
<1>11. RemoveHandledMarkers(x \o v.line, handled) = y \o b.line
  <2>1. CASE handled = 0
    <3>1. v = b /\ x = y
      BY <1>5, <1>10, <2>1 DEF x, y
    <3>2. x \o v.line \in Seq(Plain)
      BY <1>6, <1>7
    <3> HIDE DEF v, b
    <3>3. RemoveHandledMarkers(x \o v.line, 0) = x \o v.line
      BY <3>2, MarkersRemoved
    <3> QED BY <2>1, <3>1, <3>3
  <2>2. CASE Twins(v, b, handled)
    <3>1. Gone(x, y, handled) /\ v.line = b.line /\ v.line \in Seq(Calm)
      BY <2>2 DEF Twins, x, y
    <3>2. Unmarked(v.line)
      BY <3>1 DEF Unmarked, Calm
    <3>3. Gone(x \o v.line, y \o v.line, handled)
      BY <1>6, <1>7, <3>1, <3>2, GoneGoesOn
    <3>4. x \o v.line \in Seq(Plain) /\ y \o v.line \in Seq(Plain)
      BY <1>6, <1>7
    <3> QED BY <3>1, <3>3, <3>4, MarkersRemoved
  <2>3. handled = 0 \/ Twins(v, b, handled)
    <3>1. CASE ~ordinary
      <4>1. Twins(a, p, handled)
        BY <3>1 DEF Proper, p
      <4> QED BY <4>1, TwinsEnded DEF v, b
    <3> QED BY <3>1
  <2> QED BY <2>1, <2>2, <2>3
<1>12. Agree(v.parts, b.parts)
  BY <1>4, <1>10 DEF Twins, Agree
<1> QED BY <1>2, <1>3, <1>6, <1>8, <1>9, <1>11, <1>12 DEF v, b, p, Whole
=============================================================================
