---------------------------- MODULE RecentProofs ----------------------------
(***************************************************************************)
(* The recent list, for every number of tabs, repositories and sign-ins:   *)
(* it keeps what RecentList promises, a deleted repository that is on no   *)
(* copy of it never comes back, and a session that goes takes it along.    *)
(***************************************************************************)
EXTENDS Recent, SetInduction

----------------------------------------------------------------------------
(***************************************************************************)
(* Picking entries of a sequence.                                          *)
(***************************************************************************)

\* One step of Pick, f being what it has done so far.
PickStep(l, I, f, n) ==
  IF n = 0 THEN <<>> ELSE IF n \in I THEN Append(f[n - 1], l[n]) ELSE f[n - 1]

\* The recursion that defines Pick has a solution.
LEMMA PickSolution ==
  ASSUME NEW l, NEW I, NEW m \in Nat
  PROVE  \E f : f = [n \in 0..m |-> PickStep(l, I, f, n)]
<1> DEFINE T == {k \in Nat : \E f : f = [n \in 0..k |-> PickStep(l, I, f, n)]}
<1>1. 0 \in T
  <2> DEFINE f == [n \in 0..0 |-> <<>>]
  <2>1. f = [n \in 0..0 |-> PickStep(l, I, f, n)]
    BY DEF PickStep
  <2> HIDE DEF f
  <2>2. QED
    BY <2>1
<1>2. ASSUME NEW k \in Nat, k \in T PROVE k + 1 \in T
  <2>1. PICK f : f = [n \in 0..k |-> PickStep(l, I, f, n)]
    BY <1>2
  <2> DEFINE g == [n \in 0..(k + 1) |-> IF n = k + 1 THEN PickStep(l, I, f, n) ELSE f[n]]
  <2>2. ASSUME NEW n \in 0..(k + 1) PROVE g[n] = PickStep(l, I, g, n)
    <3>1. CASE n = k + 1
      <4>1. n - 1 = k /\ g[k] = f[k] /\ n # 0
        BY <3>1
      <4>2. g[n] = PickStep(l, I, f, n)
        BY <3>1
      <4>3. QED
        BY <4>1, <4>2 DEF PickStep
    <3>2. CASE n = 0
      <4>1. n \in 0..k /\ g[n] = f[n]
        BY <3>2
      <4>2. f[n] = PickStep(l, I, f, n)
        BY <2>1, <4>1
      <4>3. QED
        BY <3>2, <4>1, <4>2 DEF PickStep
    <3>3. CASE n # k + 1 /\ n # 0
      <4>1. n \in 0..k /\ n - 1 \in 0..k /\ n - 1 # k + 1 /\ g[n] = f[n] /\ g[n - 1] = f[n - 1]
        BY <3>3
      <4>2. f[n] = PickStep(l, I, f, n)
        BY <2>1, <4>1
      <4>3. QED
        BY <4>1, <4>2 DEF PickStep
    <3>4. QED
      BY <3>1, <3>2, <3>3
  <2>3. g = [n \in 0..(k + 1) |-> g[n]]
    OBVIOUS
  <2> HIDE DEF g
  <2>4. g = [n \in 0..(k + 1) |-> PickStep(l, I, g, n)]
    BY <2>2, <2>3
  <2>5. QED
    BY <2>4
<1>3. Nat \subseteq T
  <2> HIDE DEF T
  <2> QED
    BY <1>1, <1>2, Induction
<1>4. QED
  BY <1>3

\* So Pick is what its recursion comes to at the length of the sequence.
LEMMA PickRecursion ==
  ASSUME NEW S, NEW l \in Seq(S), NEW I
  PROVE  \E f : /\ Pick(l, I) = f[Len(l)]
                /\ \A n \in 0..Len(l) : f[n] = PickStep(l, I, f, n)
<1> DEFINE f == CHOOSE f : f = [n \in 0..Len(l) |->
      IF n = 0 THEN <<>> ELSE IF n \in I THEN Append(f[n - 1], l[n]) ELSE f[n - 1]]
<1>1. Pick(l, I) = f[Len(l)]
  BY DEF Pick
<1>2. \E g : g = [n \in 0..Len(l) |->
      IF n = 0 THEN <<>> ELSE IF n \in I THEN Append(g[n - 1], l[n]) ELSE g[n - 1]]
  <2>1. Len(l) \in Nat
    OBVIOUS
  <2>2. \E g : g = [n \in 0..Len(l) |-> PickStep(l, I, g, n)]
    BY <2>1, PickSolution
  <2>3. QED
    BY <2>2 DEF PickStep
<1>3. f = [n \in 0..Len(l) |->
      IF n = 0 THEN <<>> ELSE IF n \in I THEN Append(f[n - 1], l[n]) ELSE f[n - 1]]
  BY <1>2
<1> HIDE DEF f
<1>4. \A n \in 0..Len(l) : f[n] = PickStep(l, I, f, n)
  BY <1>3 DEF PickStep
<1>5. QED
  BY <1>1, <1>4

\* p has the entries of the first n of l that stand in I; h says where.
Selects(p, l, n, I, h) ==
  /\ h \in [1..Len(p) -> I \cap 1..n]
  /\ \A j, k \in 1..Len(p) : j < k => h[j] < h[k]
  /\ \A i \in I \cap 1..n : \E k \in 1..Len(p) : h[k] = i
  /\ \A k \in 1..Len(p) : p[k] = l[h[k]]
  /\ Len(p) <= n
  /\ Len(p) = n => \A k \in 1..n : h[k] = k

\* One more position, and it is picked.
LEMMA SelectsMore ==
  ASSUME NEW S, NEW l \in Seq(S), NEW I, NEW n \in Nat, n + 1 <= Len(l),
         NEW p \in Seq(S), NEW h, Selects(p, l, n, I, h), n + 1 \in I
  PROVE  /\ Append(p, l[n + 1]) \in Seq(S)
         /\ \E g : Selects(Append(p, l[n + 1]), l, n + 1, I, g)
<1> DEFINE q == Append(p, l[n + 1])
           g == [k \in 1..(Len(p) + 1) |-> IF k = Len(p) + 1 THEN n + 1 ELSE h[k]]
<1>1. /\ Len(p) \in Nat /\ l[n + 1] \in S /\ q \in Seq(S) /\ Len(q) = Len(p) + 1
      /\ \A k \in 1..Len(p) : q[k] = p[k]
      /\ q[Len(p) + 1] = l[n + 1]
  OBVIOUS
<1>2. /\ h \in [1..Len(p) -> I \cap 1..n]
      /\ \A j, k \in 1..Len(p) : j < k => h[j] < h[k]
      /\ \A i \in I \cap 1..n : \E k \in 1..Len(p) : h[k] = i
      /\ \A k \in 1..Len(p) : p[k] = l[h[k]]
      /\ Len(p) <= n
      /\ Len(p) = n => \A k \in 1..n : h[k] = k
  BY DEF Selects
<1>3. /\ \A k \in 1..Len(p) : g[k] = h[k]
      /\ g[Len(p) + 1] = n + 1
      /\ g = [k \in 1..(Len(p) + 1) |-> g[k]]
  <2>1. Len(p) \in Nat
    BY <1>1
  <2>2. QED
    BY <2>1
<1> HIDE DEF q, g
<1>0. \A k \in 1..Len(p) : h[k] \in I /\ h[k] \in 1..n
  BY <1>2
<1>4. g \in [1..Len(q) -> I \cap 1..(n + 1)]
  <2>1. ASSUME NEW k \in 1..(Len(p) + 1) PROVE g[k] \in I \cap 1..(n + 1)
    <3>1. CASE k \in 1..Len(p)
      <4>1. g[k] \in I /\ g[k] \in 1..n
        BY <1>0, <1>3, <3>1
      <4>2. QED
        BY <4>1
    <3>2. CASE k = Len(p) + 1
      BY <1>3, <3>2
    <3>3. QED
      BY <1>1, <3>1, <3>2
  <2>2. QED
    BY <1>1, <1>3, <2>1
<1>5. ASSUME NEW j \in 1..Len(q), NEW k \in 1..Len(q), j < k PROVE g[j] < g[k]
  <2>1. j \in 1..Len(p)
    BY <1>1, <1>5
  <2>2. CASE k \in 1..Len(p)
    BY <1>2, <1>3, <1>5, <2>1, <2>2
  <2>3. CASE k = Len(p) + 1
    <3>1. h[j] \in 1..n /\ g[j] = h[j] /\ g[k] = n + 1
      BY <1>0, <1>3, <2>1, <2>3
    <3>2. QED
      BY <3>1
  <2>4. QED
    BY <1>1, <2>2, <2>3
<1>6. ASSUME NEW i \in I \cap 1..(n + 1) PROVE \E k \in 1..Len(q) : g[k] = i
  <2>1. CASE i = n + 1
    <3>1. Len(p) + 1 \in 1..Len(q)
      BY <1>1
    <3>2. QED
      BY <1>3, <2>1, <3>1
  <2>2. CASE i # n + 1
    <3>1. i \in I \cap 1..n
      BY <2>2
    <3>2. PICK k \in 1..Len(p) : h[k] = i
      BY <1>2, <3>1
    <3>3. k \in 1..Len(q)
      BY <1>1
    <3>4. QED
      BY <1>3, <3>2, <3>3
  <2>3. QED
    BY <2>1, <2>2
<1>7. ASSUME NEW k \in 1..Len(q) PROVE q[k] = l[g[k]]
  <2>1. CASE k \in 1..Len(p)
    BY <1>1, <1>2, <1>3, <2>1
  <2>2. CASE k = Len(p) + 1
    BY <1>1, <1>3, <2>2
  <2>3. QED
    BY <1>1, <2>1, <2>2
<1>8. ASSUME Len(q) = n + 1, NEW k \in 1..(n + 1) PROVE g[k] = k
  <2>1. Len(p) = n
    BY <1>1, <1>8
  <2>2. CASE k \in 1..n
    BY <1>2, <1>3, <2>1, <2>2
  <2>3. CASE k = n + 1
    BY <1>3, <2>1, <2>3
  <2>4. QED
    BY <2>2, <2>3
<1>9. Len(q) <= n + 1
  BY <1>1, <1>2
<1>10. Selects(q, l, n + 1, I, g)
  BY <1>4, <1>5, <1>6, <1>7, <1>8, <1>9 DEF Selects
<1>11. QED
  BY <1>1, <1>10 DEF q

\* One more position, and it is passed over.
LEMMA SelectsNoMore ==
  ASSUME NEW l, NEW I, NEW n \in Nat, NEW S, NEW p \in Seq(S), NEW h,
         Selects(p, l, n, I, h), n + 1 \notin I
  PROVE  Selects(p, l, n + 1, I, h)
<1>1. /\ h \in [1..Len(p) -> I \cap 1..n]
      /\ Len(p) <= n
  BY DEF Selects
<1>2. I \cap 1..(n + 1) = I \cap 1..n /\ Len(p) \in Nat /\ Len(p) # n + 1 /\ Len(p) <= n + 1
  BY <1>1
<1>3. QED
  BY <1>2 DEF Selects

\* Pick takes the entries at the positions in I, each once and in their order;
\* when it takes as many as there are, it takes all.
LEMMA PickSelects ==
  ASSUME NEW S, NEW l \in Seq(S), NEW I
  PROVE  /\ Pick(l, I) \in Seq(S)
         /\ \E h : Selects(Pick(l, I), l, Len(l), I, h)
<1>1. PICK f : /\ Pick(l, I) = f[Len(l)]
               /\ \A n \in 0..Len(l) : f[n] = PickStep(l, I, f, n)
  BY PickRecursion
<1>2. Len(l) \in Nat
  OBVIOUS
<1> DEFINE T == {n \in Nat : n <= Len(l) =>
                   f[n] \in Seq(S) /\ \E h : Selects(f[n], l, n, I, h)}
<1>3. 0 \in T
  <2>1. f[0] = <<>>
    BY <1>1, <1>2 DEF PickStep
  <2>2. Len(f[0]) = 0 /\ 1..0 = {} /\ f[0] \in Seq(S)
    BY <2>1
  <2> DEFINE h == [k \in {} |-> 0]
  <2>3. h \in [1..0 -> I \cap 1..0]
    BY <2>2
  <2> HIDE DEF h
  <2>4. Selects(f[0], l, 0, I, h)
    BY <2>2, <2>3 DEF Selects
  <2>5. QED
    BY <2>2, <2>4
<1>4. ASSUME NEW n \in Nat, n \in T, n + 1 <= Len(l)
      PROVE  f[n + 1] \in Seq(S) /\ \E h : Selects(f[n + 1], l, n + 1, I, h)
  <2>1. n <= Len(l) /\ n + 1 \in 0..Len(l) /\ n + 1 # 0 /\ (n + 1) - 1 = n
    BY <1>2, <1>4
  <2>2. f[n] \in Seq(S) /\ \E h : Selects(f[n], l, n, I, h)
    BY <1>4, <2>1
  <2>3. PICK h : Selects(f[n], l, n, I, h)
    BY <2>2
  <2>4. f[n + 1] = IF n + 1 \in I THEN Append(f[n], l[n + 1]) ELSE f[n]
    BY <1>1, <2>1 DEF PickStep
  <2>5. CASE n + 1 \in I
    BY <1>4, <2>2, <2>3, <2>4, <2>5, SelectsMore
  <2>6. CASE n + 1 \notin I
    BY <2>2, <2>3, <2>4, <2>6, SelectsNoMore
  <2>7. QED
    BY <2>5, <2>6
<1>5. ASSUME NEW n \in Nat, n \in T PROVE n + 1 \in T
  <2>1. CASE n + 1 <= Len(l)
    <3>1. f[n + 1] \in Seq(S) /\ \E h : Selects(f[n + 1], l, n + 1, I, h)
      BY <1>4, <1>5, <2>1
    <3>2. QED
      BY <3>1
  <2>2. CASE ~(n + 1 <= Len(l))
    BY <2>2
  <2>3. QED
    BY <2>1, <2>2
<1>6. Nat \subseteq T
  <2> HIDE DEF T
  <2> QED
    BY <1>3, <1>5, Induction
<1>7. Len(l) \in T
  BY <1>2, <1>6
<1>8. QED
  BY <1>1, <1>2, <1>7

----------------------------------------------------------------------------
(***************************************************************************)
(* What the lines of a response come to in the browser.                    *)
(***************************************************************************)

Line == [name : {"session", "recent"}, session : Login \cup {NoSession}, list : Seq(Opened)]

LEMMA LineTypes ==
  /\ \A s \in Login \cup {NoSession} : SessionLine(s) \in Line /\ SessionLine(s).name = "session"
  /\ \A l \in Seq(Opened) : RecentLine(l) \in Line /\ RecentLine(l).name = "recent"
BY DEF Line, SessionLine, RecentLine

\* The line LastFor takes is the last one there is.
LEMMA LastLine ==
  ASSUME NEW lines \in Seq(Line), NEW name, LinesFor(lines, name) # {}
  PROVE  \E i \in LinesFor(lines, name) :
           /\ \A j \in LinesFor(lines, name) : j <= i
           /\ LastFor(lines, name) = lines[i]
           /\ LastFor(lines, name) \in Line
<1> DEFINE L == LinesFor(lines, name)
<1>1. L \in SUBSET (1..Len(lines)) /\ Len(lines) \in Nat
  BY DEF LinesFor
<1>2. \E i \in L : \A j \in L : j <= i
  BY <1>1, Greatest
<1> DEFINE i == CHOOSE k \in L : \A j \in L : j <= k
<1>3. i \in L /\ \A j \in L : j <= i
  BY <1>2
<1>4. LastFor(lines, name) = lines[i]
  BY DEF LastFor
<1> HIDE DEF i
<1>5. lines[i] \in Line
  BY <1>1, <1>3
<1>6. QED
  BY <1>3, <1>4, <1>5

\* The line that is known to be the last is the one LastFor takes.
LEMMA LastIs ==
  ASSUME NEW lines \in Seq(Line), NEW name, NEW i \in LinesFor(lines, name),
         \A j \in LinesFor(lines, name) : j <= i
  PROVE  LastFor(lines, name) = lines[i]
<1>1. PICK k \in LinesFor(lines, name) :
        /\ \A j \in LinesFor(lines, name) : j <= k
        /\ LastFor(lines, name) = lines[k]
  BY LastLine
<1>2. i \in 1..Len(lines) /\ k \in 1..Len(lines)
  BY DEF LinesFor
<1>3. i = k
  BY <1>1, <1>2
<1>4. QED
  BY <1>1, <1>3

\* What the browser holds after an answer is a session and a list.
LEMMA AfterTypes ==
  ASSUME NEW lines \in Seq(Line)
  PROVE  /\ \A old \in Login \cup {NoSession} : SessionAfter(lines, old) \in Login \cup {NoSession}
         /\ RecentAfter(lines, <<>>) \in Seq(Opened)
         /\ \A old : LinesFor(lines, "session") # {}
                     => SessionAfter(lines, old) = SessionAfter(lines, NoSession)
         /\ \A old : LinesFor(lines, "recent") # {}
                     => RecentAfter(lines, old) = RecentAfter(lines, <<>>)
         /\ \A old : LinesFor(lines, "recent") = {} => RecentAfter(lines, old) = old
<1>1. LinesFor(lines, "session") # {} => LastFor(lines, "session") \in Line
  BY LastLine
<1>2. LinesFor(lines, "recent") # {} => LastFor(lines, "recent") \in Line
  BY LastLine
<1>3. QED
  BY <1>1, <1>2 DEF SessionAfter, RecentAfter, Line

\* An answer that writes nothing.
LEMMA NoLines ==
  /\ <<>> \in Seq(Line) /\ \A name : LinesFor(<<>>, name) = {}
  /\ RecentAfter(<<>>, <<>>) = <<>>
BY DEF LinesFor, RecentAfter

\* writeRecent: the list that is written is the one that stays, and no line
\* for the session is added.
LEMMA WriteRecentLines ==
  ASSUME NEW lines \in Seq(Line), NEW l \in Seq(Opened)
  PROVE  /\ WriteRecent(lines, l) \in Seq(Line)
         /\ LinesFor(WriteRecent(lines, l), "recent") # {}
         /\ \A old : RecentAfter(WriteRecent(lines, l), old) = l
         /\ LinesFor(lines, "session") = {} => LinesFor(WriteRecent(lines, l), "session") = {}
<1> DEFINE I == DOMAIN lines \ LinesFor(lines, "recent")
           p == Pick(lines, I)
           w == WriteRecent(lines, l)
<1>1. p \in Seq(Line) /\ \E h : Selects(p, lines, Len(lines), I, h)
  BY PickSelects
<1>2. PICK h : Selects(p, lines, Len(lines), I, h)
  BY <1>1
<1>3. RecentLine(l) \in Line /\ RecentLine(l).name = "recent" /\ RecentLine(l).list = l
  BY LineTypes DEF RecentLine
<1>4. w = Append(p, RecentLine(l))
  BY DEF WriteRecent
<1>5. /\ w \in Seq(Line) /\ Len(w) = Len(p) + 1 /\ Len(p) \in Nat
      /\ DOMAIN w = 1..Len(w)
      /\ w[Len(w)] = RecentLine(l)
      /\ \A k \in 1..Len(p) : w[k] = p[k]
  BY <1>1, <1>3, <1>4
<1> HIDE DEF w, p, I
<1>6. Len(w) \in LinesFor(w, "recent")
  BY <1>3, <1>5 DEF LinesFor
<1>7. \A j \in LinesFor(w, "recent") : j <= Len(w)
  BY <1>5 DEF LinesFor
<1>8. LastFor(w, "recent") = RecentLine(l)
  BY <1>5, <1>6, <1>7, LastIs
<1>9. ASSUME LinesFor(lines, "session") = {}, NEW k \in DOMAIN w PROVE w[k].name # "session"
  <2>1. CASE k = Len(w)
    BY <1>3, <1>5, <2>1
  <2>2. CASE k \in 1..Len(p)
    <3>1. p[k] = lines[h[k]] /\ h[k] \in I
      BY <1>2, <2>2 DEF Selects
    <3>2. h[k] \in DOMAIN lines
      BY <3>1 DEF I
    <3>3. lines[h[k]].name # "session"
      BY <1>9, <3>2 DEF LinesFor
    <3>4. QED
      BY <1>5, <2>2, <3>1, <3>3
  <2>3. QED
    BY <1>5, <2>1, <2>2
<1>10. \A old : RecentAfter(w, old) = l
  BY <1>3, <1>6, <1>8 DEF RecentAfter
<1>11. LinesFor(lines, "session") = {} => LinesFor(w, "session") = {}
  BY <1>9 DEF LinesFor
<1>12. QED
  BY <1>5, <1>6, <1>10, <1>11 DEF w

\* Clear: neither a session nor a list is left, whatever was written before.
LEMMA ClearLines ==
  ASSUME NEW lines \in Seq(Line)
  PROVE  /\ Clear(lines) \in Seq(Line)
         /\ LinesFor(Clear(lines), "recent") # {} /\ LinesFor(Clear(lines), "session") # {}
         /\ \A old : RecentAfter(Clear(lines), old) = <<>>
         /\ \A old : SessionAfter(Clear(lines), old) = NoSession
<1> DEFINE c == Clear(lines)
           n == Len(lines)
           s == SessionLine(NoSession)
           r == RecentLine(<<>>)
<1>1. /\ s \in Line /\ s.name = "session" /\ s.session = NoSession
      /\ r \in Line /\ r.name = "recent" /\ r.list = <<>>
  <2>1. <<>> \in Seq(Opened)
    OBVIOUS
  <2>2. s.session = NoSession /\ r.list = <<>>
    BY DEF SessionLine, RecentLine
  <2>3. QED
    BY <2>1, <2>2, LineTypes
<1>2. c = lines \o <<s, r>>
  BY DEF Clear
<1> HIDE DEF c, s, r
<1>3. <<s, r>> \in Seq(Line) /\ Len(<<s, r>>) = 2
  BY <1>1
<1>4. /\ c \in Seq(Line) /\ n \in Nat /\ Len(c) = n + 2 /\ DOMAIN c = 1..(n + 2)
      /\ c[n + 1] = s /\ c[n + 2] = r
  BY <1>2, <1>3
<1> HIDE DEF n
<1>5. n + 2 \in LinesFor(c, "recent") /\ \A j \in LinesFor(c, "recent") : j <= n + 2
  BY <1>1, <1>4 DEF LinesFor
<1>6. n + 1 \in LinesFor(c, "session") /\ \A j \in LinesFor(c, "session") : j # n + 2 /\ j <= n + 2
  BY <1>1, <1>4 DEF LinesFor
<1>7. \A j \in LinesFor(c, "session") : j <= n + 1
  BY <1>4, <1>6 DEF LinesFor
<1>8. LastFor(c, "recent") = r /\ LastFor(c, "session") = s
  BY <1>4, <1>5, <1>6, <1>7, LastIs
<1>9. QED
  BY <1>1, <1>4, <1>5, <1>6, <1>8 DEF c, RecentAfter, SessionAfter

\* The callback's line.
LEMMA SignInLine ==
  ASSUME NEW s \in Login
  PROVE  /\ <<SessionLine(s)>> \in Seq(Line)
         /\ LinesFor(<<SessionLine(s)>>, "recent") = {}
         /\ SessionAfter(<<SessionLine(s)>>, NoSession) = s
<1> DEFINE x == SessionLine(s)
           c == <<x>>
<1>1. x \in Line /\ x.name = "session" /\ x.session = s
  BY LineTypes DEF SessionLine
<1> HIDE DEF x
<1>2. c \in Seq(Line) /\ DOMAIN c = {1} /\ c[1] = x
  BY <1>1
<1> HIDE DEF c
<1>3. LinesFor(c, "recent") = {} /\ LinesFor(c, "session") = {1}
  BY <1>1, <1>2 DEF LinesFor
<1>4. LastFor(c, "session") = x
  BY <1>2, <1>3, LastIs
<1>5. QED
  BY <1>1, <1>2, <1>3, <1>4 DEF SessionAfter, c, x

----------------------------------------------------------------------------
(***************************************************************************)
(* What Forget and Remember do to a list.                                  *)
(***************************************************************************)

\* A list with each repository once, and no more than Limit of them.
Good(l) ==
  /\ l \in Seq(Opened)
  /\ Len(l) <= Limit
  /\ \A i, j \in DOMAIN l : l[i].id = l[j].id => i = j

LEMMA EmptyIsGood == Good(<<>>) /\ Names(<<>>) = {} /\ Ids(<<>>) = <<>>
BY RecentAssumption DEF Good, Names, Ids

LEMMA IdsOf ==
  ASSUME NEW l \in Seq(Opened)
  PROVE  /\ Ids(l) \in Seq(Repo) /\ Len(Ids(l)) = Len(l) /\ DOMAIN Ids(l) = 1..Len(l)
         /\ DOMAIN l = 1..Len(l) /\ Len(l) \in Nat
         /\ \A i \in 1..Len(l) : Ids(l)[i] = l[i].id /\ l[i].id \in Repo
         /\ Promise!At(Ids(l)) = Names(l)
<1>1. \A i \in 1..Len(l) : l[i] \in Opened
  OBVIOUS
<1>2. \A i \in 1..Len(l) : l[i].id \in Repo
  BY <1>1 DEF Opened
<1>3. DOMAIN l = 1..Len(l) /\ Len(l) \in Nat
  OBVIOUS
<1>4. Ids(l) = [i \in 1..Len(l) |-> l[i].id]
  BY <1>3 DEF Ids
<1>5. Ids(l) \in [1..Len(l) -> Repo]
  BY <1>2, <1>4
<1>6. Ids(l) \in Seq(Repo) /\ Len(Ids(l)) = Len(l) /\ DOMAIN Ids(l) = 1..Len(l)
  BY <1>3, <1>5
<1>7. QED
  BY <1>2, <1>3, <1>4, <1>6 DEF Promise!At, Names

\* Entries taken from s at increasing positions keep their order, and are each
\* there once when s has each once.
LEMMA TakenInOrder ==
  ASSUME NEW s \in Seq(Repo), Promise!Once(s), NEW u \in Seq(Repo), NEW h,
         \A k \in 1..Len(u) : h[k] \in 1..Len(s) /\ u[k] = s[h[k]],
         \A j, k \in 1..Len(u) : j < k => h[j] < h[k]
  PROVE  Promise!SameOrder(s, u) /\ Promise!Once(u)
<1>1. Len(s) \in Nat /\ DOMAIN s = 1..Len(s) /\ Len(u) \in Nat /\ DOMAIN u = 1..Len(u)
  OBVIOUS
<1>2. ASSUME NEW j \in 1..Len(u), NEW k \in 1..Len(u), h[j] < h[k] PROVE j < k
  <2>1. h[j] \in 1..Len(s) /\ h[k] \in 1..Len(s)
    OBVIOUS
  <2>2. CASE j = k
    BY <1>2, <2>1, <2>2
  <2>3. CASE k < j
    <3>1. h[k] < h[j]
      BY <2>3
    <3>2. QED
      BY <1>2, <2>1, <3>1
  <2>4. QED
    BY <1>1, <2>2, <2>3
<1>3. ASSUME NEW i \in DOMAIN s, NEW j \in DOMAIN s, NEW k \in DOMAIN u, NEW m \in DOMAIN u,
             s[i] = u[k], s[j] = u[m]
      PROVE  i < j <=> k < m
  <2>1. k \in 1..Len(u) /\ m \in 1..Len(u) /\ h[k] \in DOMAIN s /\ h[m] \in DOMAIN s
    BY <1>1
  <2>2. s[i] = s[h[k]] /\ s[j] = s[h[m]]
    BY <1>3, <2>1
  <2>3. i = h[k] /\ j = h[m]
    BY <2>1, <2>2 DEF Promise!Once
  <2>4. QED
    BY <1>2, <2>1, <2>3
<1>4. ASSUME NEW k \in DOMAIN u, NEW m \in DOMAIN u, u[k] = u[m] PROVE k = m
  <2>1. k \in 1..Len(u) /\ m \in 1..Len(u) /\ h[k] \in DOMAIN s /\ h[m] \in DOMAIN s
    BY <1>1
  <2>2. h[k] = h[m]
    BY <1>4, <2>1 DEF Promise!Once
  <2>3. CASE k < m
    <3>1. h[k] < h[m]
      BY <2>1, <2>3
    <3>2. QED
      BY <1>1, <2>1, <2>2, <3>1
  <2>4. CASE m < k
    <3>1. h[m] < h[k]
      BY <2>1, <2>4
    <3>2. QED
      BY <1>1, <2>1, <2>2, <3>1
  <2>5. QED
    BY <1>1, <2>3, <2>4
<1>5. QED
  BY <1>3, <1>4 DEF Promise!SameOrder, Promise!Once

\* w has the entries of l but those of r, in their order; h says where from.
Taken(l, r, w, h) ==
  /\ \A k \in 1..Len(w) : h[k] \in 1..Len(l) /\ l[h[k]].id # r /\ w[k] = l[h[k]]
  /\ \A j, k \in 1..Len(w) : j < k => h[j] < h[k]
  /\ \A i \in 1..Len(l) : l[i].id # r => \E k \in 1..Len(w) : h[k] = i
  /\ Len(w) = Len(l) => \A k \in 1..Len(l) : h[k] = k

\* Forget: the repository goes, and the rest stays as it was.
LEMMA WithoutTakes ==
  ASSUME NEW l, Good(l), NEW r
  PROVE  /\ Without(l, r) \in Seq(Opened)
         /\ Len(Without(l, r)) \in Nat /\ Len(Without(l, r)) <= Len(l)
         /\ \E h : Taken(l, r, Without(l, r), h)
<1> DEFINE I == {i \in DOMAIN l : l[i].id # r}
           w == Without(l, r)
<1>1. l \in Seq(Opened) /\ Len(l) \in Nat /\ DOMAIN l = 1..Len(l)
  BY DEF Good
<1>2. w \in Seq(Opened) /\ \E h : Selects(w, l, Len(l), I, h)
  BY <1>1, PickSelects DEF Without
<1>3. PICK h : Selects(w, l, Len(l), I, h)
  BY <1>2
<1> HIDE DEF w
<1>4. Len(w) \in Nat
  BY <1>2
<1>5. /\ h \in [1..Len(w) -> I \cap 1..Len(l)]
      /\ \A j, k \in 1..Len(w) : j < k => h[j] < h[k]
      /\ \A i \in I \cap 1..Len(l) : \E k \in 1..Len(w) : h[k] = i
      /\ \A k \in 1..Len(w) : w[k] = l[h[k]]
      /\ Len(w) <= Len(l)
      /\ Len(w) = Len(l) => \A k \in 1..Len(l) : h[k] = k
  BY <1>3 DEF Selects
<1>6. \A k \in 1..Len(w) : h[k] \in 1..Len(l) /\ l[h[k]].id # r
  BY <1>5
<1>7. \A i \in 1..Len(l) : l[i].id # r => \E k \in 1..Len(w) : h[k] = i
  BY <1>1, <1>5
<1>8. Taken(l, r, w, h)
  BY <1>5, <1>6, <1>7 DEF Taken
<1>9. QED
  BY <1>2, <1>4, <1>5, <1>8 DEF w

LEMMA WithoutDeletes ==
  ASSUME NEW l, Good(l), NEW r
  PROVE  /\ Good(Without(l, r))
         /\ Names(Without(l, r)) = Names(l) \ {r}
         /\ Promise!Delete(Ids(l), Ids(Without(l, r)), r)
<1> DEFINE w == Without(l, r)
           s == Ids(l)
           u == Ids(w)
<1>1. w \in Seq(Opened) /\ Len(w) \in Nat /\ Len(w) <= Len(l)
  BY WithoutTakes
<1>2. PICK h : Taken(l, r, w, h)
  BY WithoutTakes
<1> HIDE DEF w
<1>3. l \in Seq(Opened) /\ Len(l) <= Limit
  BY DEF Good
<1>4. /\ s \in Seq(Repo) /\ Len(s) = Len(l) /\ DOMAIN s = 1..Len(l) /\ DOMAIN l = 1..Len(l)
      /\ Len(l) \in Nat /\ \A i \in 1..Len(l) : s[i] = l[i].id
      /\ Promise!At(s) = Names(l)
  BY <1>3, IdsOf
<1>5. /\ u \in Seq(Repo) /\ Len(u) = Len(w) /\ DOMAIN u = 1..Len(w) /\ DOMAIN w = 1..Len(w)
      /\ \A i \in 1..Len(w) : u[i] = w[i].id
      /\ Promise!At(u) = Names(w)
  BY <1>1, IdsOf
<1>6. Promise!Once(s)
  BY <1>4 DEF Good, Promise!Once
<1> HIDE DEF s, u
<1>7. ASSUME NEW k \in 1..Len(u) PROVE h[k] \in 1..Len(s) /\ u[k] = s[h[k]]
  <2>1. h[k] \in 1..Len(l) /\ w[k] = l[h[k]] /\ u[k] = w[k].id
    BY <1>2, <1>5 DEF Taken
  <2>2. s[h[k]] = l[h[k]].id
    BY <1>4, <2>1
  <2>3. QED
    BY <1>4, <2>1, <2>2
<1>8. \A j, k \in 1..Len(u) : j < k => h[j] < h[k]
  BY <1>2, <1>5 DEF Taken
<1>9. Promise!SameOrder(s, u) /\ Promise!Once(u)
  BY <1>4, <1>5, <1>6, <1>7, <1>8, TakenInOrder
<1>10. Names(w) = Names(l) \ {r}
  <2>1. ASSUME NEW x \in Names(w) PROVE x \in Names(l) \ {r}
    <3>1. PICK k \in 1..Len(w) : x = w[k].id
      BY <1>5, <2>1 DEF Names
    <3>2. QED
      BY <1>2, <1>4, <3>1 DEF Names, Taken
  <2>2. ASSUME NEW x \in Names(l) \ {r} PROVE x \in Names(w)
    <3>1. PICK i \in 1..Len(l) : x = l[i].id
      BY <1>4, <2>2 DEF Names
    <3>2. PICK k \in 1..Len(w) : h[k] = i
      BY <1>2, <2>2, <3>1 DEF Taken
    <3>3. QED
      BY <1>2, <1>5, <3>1, <3>2 DEF Names, Taken
  <2>3. QED
    BY <2>1, <2>2
<1>11. Len(w) <= Limit
  BY <1>1, <1>3, <1>4, RecentAssumption
<1>12. Good(w)
  BY <1>1, <1>5, <1>9, <1>11 DEF Good, Promise!Once
<1>13. Promise!Delete(s, u, r)
  BY <1>4, <1>5, <1>9, <1>10 DEF Promise!Delete
<1>14. QED
  BY <1>10, <1>12, <1>13 DEF w, s, u

\* Remember: the repository first, then the rest of the list, up to Limit.
LEMMA RememberedIs ==
  ASSUME NEW l, Good(l), NEW r \in Repo, NEW b \in Login \cup {NoSession}
  PROVE  /\ Remembered(l, r, b) \in Seq(Opened)
         /\ Len(Remembered(l, r, b)) =
              IF Len(Without(l, r)) < Limit THEN Len(Without(l, r)) + 1 ELSE Limit
         /\ Remembered(l, r, b)[1] = [id |-> r, by |-> b]
         /\ \A k \in 1..Len(Remembered(l, r, b)) :
              k # 1 => Remembered(l, r, b)[k] = Without(l, r)[k - 1]
<1> DEFINE w == Without(l, r)
           e == [id |-> r, by |-> b]
           next == <<e>> \o w
           m == IF Len(next) < Limit THEN Len(next) ELSE Limit
<1>1. w \in Seq(Opened) /\ Len(w) \in Nat
  BY WithoutTakes
<1>2. e \in Opened
  BY DEF Opened
<1> HIDE DEF w, e
<1>3. /\ next \in Seq(Opened) /\ Len(next) = Len(w) + 1 /\ next[1] = e
      /\ \A k \in 1..Len(next) : k # 1 => next[k] = w[k - 1]
  BY <1>1, <1>2
<1>4. Remembered(l, r, b) = SubSeq(next, 1, m)
  BY DEF Remembered, w, e
<1> HIDE DEF next
<1>5. m \in Nat /\ 1 <= m /\ m <= Len(next) /\ m = IF Len(w) < Limit THEN Len(w) + 1 ELSE Limit
  BY <1>1, <1>3, RecentAssumption
<1> HIDE DEF m
<1>6. /\ SubSeq(next, 1, m) \in Seq(Opened) /\ Len(SubSeq(next, 1, m)) = m
      /\ \A k \in 1..m : SubSeq(next, 1, m)[k] = next[k]
  BY <1>3, <1>5
<1>7. QED
  BY <1>3, <1>4, <1>5, <1>6 DEF w, e

LEMMA RememberedOpens ==
  ASSUME NEW l, Good(l), NEW r \in Repo, NEW b \in Login \cup {NoSession}
  PROVE  /\ Good(Remembered(l, r, b)) /\ Remembered(l, r, b) # <<>>
         /\ Remembered(l, r, b)[1].id = r
         /\ Names(Remembered(l, r, b)) \subseteq Names(l) \cup {r}
         /\ Promise!Open(Ids(l), Ids(Remembered(l, r, b)), r)
<1> DEFINE w == Without(l, r)
           n == Remembered(l, r, b)
           m == Len(n)
           s == Ids(l)
           u == Ids(n)
           v == Tail(u)
<1>1. w \in Seq(Opened) /\ Len(w) \in Nat /\ Len(w) <= Len(l)
  BY WithoutTakes
<1>2. PICK h : Taken(l, r, w, h)
  BY WithoutTakes
<1>3. /\ n \in Seq(Opened)
      /\ m = IF Len(w) < Limit THEN Len(w) + 1 ELSE Limit
      /\ n[1] = [id |-> r, by |-> b]
      /\ \A k \in 1..m : k # 1 => n[k] = w[k - 1]
  BY RememberedIs
<1> HIDE DEF w, n
<1>4. l \in Seq(Opened) /\ Len(l) <= Limit /\ Limit \in Nat /\ Limit # 0
  BY RecentAssumption DEF Good
<1>5. /\ s \in Seq(Repo) /\ Len(s) = Len(l) /\ DOMAIN s = 1..Len(l) /\ DOMAIN l = 1..Len(l)
      /\ Len(l) \in Nat /\ \A i \in 1..Len(l) : s[i] = l[i].id
      /\ Promise!At(s) = Names(l)
  BY <1>4, IdsOf
<1>6. /\ u \in Seq(Repo) /\ Len(u) = m /\ DOMAIN u = 1..m /\ DOMAIN n = 1..m
      /\ \A i \in 1..m : u[i] = n[i].id
      /\ Promise!At(u) = Names(n)
  BY <1>3, IdsOf
<1>7. Promise!Once(s)
  BY <1>5 DEF Good, Promise!Once
<1> HIDE DEF s, u
<1>8. m \in Nat /\ m # 0 /\ m <= Limit /\ m - 1 <= Len(w) /\ u # <<>> /\ n # <<>>
  BY <1>1, <1>3, <1>4, <1>6
<1>9. u[1] = r /\ n[1].id = r
  BY <1>3, <1>6, <1>8
<1>10. /\ v \in Seq(Repo) /\ Len(v) = m - 1 /\ DOMAIN v = 1..(m - 1)
       /\ \A k \in 1..(m - 1) : v[k] = u[k + 1]
  BY <1>6, <1>8
<1> HIDE DEF v, m
<1>11. ASSUME NEW k \in 1..(m - 1)
       PROVE  k \in 1..Len(w) /\ h[k] \in 1..Len(s) /\ l[h[k]].id # r /\ v[k] = s[h[k]]
  <2>1. k \in 1..Len(w) /\ k + 1 \in 1..m /\ k + 1 # 1 /\ (k + 1) - 1 = k
    BY <1>1, <1>8
  <2>2. v[k] = u[k + 1] /\ u[k + 1] = n[k + 1].id /\ n[k + 1] = w[k]
    BY <1>3, <1>6, <1>10, <2>1 DEF m
  <2>3. h[k] \in 1..Len(l) /\ w[k] = l[h[k]] /\ l[h[k]].id # r
    BY <1>2, <2>1 DEF Taken
  <2>4. s[h[k]] = l[h[k]].id
    BY <1>5, <2>3
  <2>5. QED
    BY <1>5, <2>1, <2>2, <2>3, <2>4
<1>12. \A j, k \in 1..Len(v) : j < k => h[j] < h[k]
  BY <1>2, <1>10, <1>11 DEF Taken
<1>13. Promise!SameOrder(s, v) /\ Promise!Once(v)
  BY <1>5, <1>7, <1>10, <1>11, <1>12, TakenInOrder
<1>14. \A k \in 1..(m - 1) : v[k] # r
  BY <1>5, <1>11
<1>15. Promise!Once(u)
  <2>1. SUFFICES ASSUME NEW i \in 1..m, NEW j \in 1..m, u[i] = u[j] PROVE i = j
    BY <1>6 DEF Promise!Once
  <2>2. \A k \in 1..m : k # 1 => k - 1 \in 1..(m - 1) /\ u[k] = v[k - 1] /\ u[k] # r
    <3>1. ASSUME NEW k \in 1..m, k # 1
          PROVE  k - 1 \in 1..(m - 1) /\ u[k] = v[k - 1] /\ u[k] # r
      <4>1. k - 1 \in 1..(m - 1) /\ (k - 1) + 1 = k
        BY <1>8, <3>1
      <4>2. u[k] = v[k - 1]
        BY <1>10, <4>1
      <4>3. QED
        BY <1>14, <4>1, <4>2
    <3>2. QED
      BY <3>1
  <2>3. CASE i = 1 \/ j = 1
    BY <1>9, <2>1, <2>2, <2>3
  <2>4. CASE i # 1 /\ j # 1
    <3>1. i - 1 \in DOMAIN v /\ j - 1 \in DOMAIN v /\ v[i - 1] = v[j - 1]
      BY <1>10, <2>1, <2>2, <2>4
    <3>2. i - 1 = j - 1
      BY <1>13, <3>1 DEF Promise!Once
    <3>3. QED
      BY <1>8, <3>2
  <2>5. QED
    BY <2>3, <2>4
<1>16. Good(n)
  BY <1>3, <1>6, <1>8, <1>15 DEF Good, Promise!Once, m
<1>17. Promise!At(v) \subseteq Promise!At(s) \ {r}
  <2>1. ASSUME NEW k \in 1..(m - 1) PROVE v[k] \in Promise!At(s) /\ v[k] # r
    BY <1>5, <1>11, <1>14 DEF Promise!At
  <2>2. QED
    BY <1>10, <2>1 DEF Promise!At
<1>18. ASSUME m - 1 = Len(w) PROVE Promise!At(v) = Promise!At(s) \ {r}
  <2>1. ASSUME NEW x \in Promise!At(s) \ {r} PROVE x \in Promise!At(v)
    <3>1. PICK i \in 1..Len(l) : x = s[i]
      BY <1>5, <2>1 DEF Promise!At
    <3>2. l[i].id # r
      BY <1>5, <2>1, <3>1
    <3>3. PICK k \in 1..Len(w) : h[k] = i
      BY <1>2, <3>2 DEF Taken
    <3>4. k \in 1..(m - 1) /\ v[k] = x
      BY <1>11, <1>18, <3>1, <3>3
    <3>5. QED
      BY <1>10, <3>4 DEF Promise!At
  <2>2. QED
    BY <1>17, <2>1
<1>19. ASSUME m - 1 # Len(w)
       PROVE  /\ Len(s) = Limit /\ r \notin Promise!At(s)
              /\ Promise!At(v) = Promise!At(s) \ {s[Limit]}
  <2>1. m = Limit /\ Len(w) = Limit /\ Len(l) = Limit
    BY <1>1, <1>3, <1>4, <1>5, <1>19 DEF m
  <2>2. \A k \in 1..Len(l) : h[k] = k /\ l[k].id # r
    BY <1>2, <2>1 DEF Taken
  <2>3. r \notin Promise!At(s)
    BY <1>5, <2>2 DEF Promise!At
  <2>4. ASSUME NEW k \in 1..(m - 1) PROVE v[k] = s[k] /\ k \in 1..Len(l) /\ k # Limit
    BY <1>8, <1>11, <2>1, <2>2
  <2>5. Limit \in DOMAIN s
    BY <1>4, <1>5, <2>1
  <2>6. ASSUME NEW x \in Promise!At(v) PROVE x \in Promise!At(s) \ {s[Limit]}
    <3>1. PICK k \in 1..(m - 1) : x = v[k]
      BY <1>10, <2>6 DEF Promise!At
    <3>2. x = s[k] /\ k \in DOMAIN s /\ k # Limit
      BY <1>5, <2>4, <3>1
    <3>3. QED
      BY <1>7, <2>5, <3>2 DEF Promise!At, Promise!Once
  <2>7. ASSUME NEW x \in Promise!At(s) \ {s[Limit]} PROVE x \in Promise!At(v)
    <3>1. PICK k \in 1..Len(l) : x = s[k]
      BY <1>5, <2>7 DEF Promise!At
    <3>2. k # Limit
      BY <2>7, <3>1
    <3>3. k \in 1..(m - 1)
      BY <1>4, <2>1, <3>2
    <3>4. QED
      BY <1>10, <2>4, <3>1, <3>3 DEF Promise!At
  <2>8. Promise!At(v) = Promise!At(s) \ {s[Limit]}
    BY <2>6, <2>7
  <2>9. QED
    BY <1>5, <2>1, <2>3, <2>8
<1>20. \/ Promise!At(v) = Promise!At(s) \ {r}
       \/ /\ Len(s) = Limit /\ r \notin Promise!At(s)
          /\ Promise!At(v) = Promise!At(s) \ {s[Limit]}
  BY <1>18, <1>19
<1>21. Promise!Rest(u) = v
  BY <1>8 DEF Promise!Rest, v
<1>22. Promise!Open(s, u, r)
  BY <1>8, <1>9, <1>13, <1>15, <1>17, <1>20, <1>21 DEF Promise!Open
<1>23. Names(n) \subseteq Names(l) \cup {r}
  <2>1. ASSUME NEW k \in 1..m PROVE n[k].id \in Names(l) \cup {r}
    <3>1. CASE k = 1
      BY <1>9, <3>1
    <3>2. CASE k # 1
      <4>1. k - 1 \in 1..(m - 1) /\ (k - 1) + 1 = k
        BY <1>8, <3>2
      <4>2. v[k - 1] = n[k].id /\ v[k - 1] \in Promise!At(v)
        BY <1>6, <1>10, <4>1 DEF Promise!At
      <4>3. QED
        BY <1>5, <1>17, <4>2
    <3>3. QED
      BY <3>1, <3>2
  <2>2. QED
    BY <1>6, <2>1 DEF Names
<1>24. QED
  BY <1>8, <1>9, <1>16, <1>22, <1>23 DEF n, s, u

----------------------------------------------------------------------------
(***************************************************************************)
(* The inductive invariant.                                                *)
(***************************************************************************)

Request == [phase : {"idle", "sent", "answered"}, kind : Plain \cup Named, repo : SUBSET Repo,
            session : Login \cup {NoSession}, recent : Seq(Opened), lines : Seq(Line),
            done : BOOLEAN]

\* The list an answer leaves a browser with that had none.
Left(lines) == RecentAfter(lines, <<>>)

\* An answer that takes the session away takes the list away.
Together(lines) ==
  /\ ~Anonymous
  /\ LinesFor(lines, "session") # {} /\ SessionAfter(lines, NoSession) = NoSession
  => LinesFor(lines, "recent") # {} /\ Left(lines) = <<>>

\* The list a request was sent with and the one its answer writes are lists; an
\* answer that opened a repository has it first, and one that tells of a
\* deletion writes a list without it.
RequestOK(q, gone) ==
  /\ q.phase # "answered" => q.lines = <<>> /\ q.done = FALSE
  /\ q.kind \in Named => \E r \in Repo : q.repo = {r}
  /\ Good(q.recent) /\ Good(Left(q.lines))
  /\ q.kind = "open" => Left(q.lines) = <<>> \/ {Left(q.lines)[1].id} = q.repo
  /\ q.done = TRUE => /\ LinesFor(q.lines, "recent") # {}
                      /\ q.repo \cap Names(Left(q.lines)) = {}
                      /\ q.repo \subseteq gone
  /\ Together(q.lines)

Types ==
  /\ session \in Login \cup {NoSession}
  /\ logins \in 0..MaxLogin
  /\ dead \subseteq Login /\ deleted \subseteq Repo /\ told \subseteq deleted
  /\ request \in [Tab -> Request]

RInv == Types /\ Good(recent) /\ \A t \in Tab : RequestOK(request[t], deleted)

----------------------------------------------------------------------------
(***************************************************************************)
(* What an answer may carry.                                               *)
(***************************************************************************)

\* A list with one repository opened that was not deleted, or one without the
\* repository that has just been, or no list.
Outcome(q, lines, done, gone) ==
  /\ lines \in Seq(Line) /\ Together(lines) /\ deleted \subseteq gone /\ gone \subseteq Repo
  /\ \/ done = FALSE /\ Left(lines) = <<>>
     \/ /\ done = FALSE
        /\ \E r \in q.repo \ deleted, b \in Login \cup {NoSession} :
             Left(lines) = Remembered(q.recent, r, b)
     \/ /\ done = TRUE /\ q.kind = "delete" /\ LinesFor(lines, "recent") # {}
        /\ \E r \in q.repo : gone = deleted \cup {r} /\ Left(lines) = Without(q.recent, r)

\* Load's own lines.
LEMMA LoadedLines ==
  ASSUME Types, NEW q \in Request
  PROVE  /\ Loaded(q) \in Seq(Line) /\ Left(Loaded(q)) = <<>> /\ Together(Loaded(q))
         /\ Live(q) => Loaded(q) = <<>>
<1>1. <<>> \in Seq(Line) /\ Left(<<>>) = <<>> /\ LinesFor(<<>>, "session") = {}
  BY NoLines DEF Left
<1>2. /\ Clear(<<>>) \in Seq(Line) /\ Left(Clear(<<>>)) = <<>>
      /\ LinesFor(Clear(<<>>), "recent") # {}
  BY <1>1, ClearLines DEF Left
<1>3. QED
  BY <1>1, <1>2 DEF Loaded, Live, Together

\* readFailed's.
LEMMA FailedLines ==
  ASSUME NEW lines \in Seq(Line), Left(lines) = <<>>, Together(lines), NEW tok, NEW answer
  PROVE  /\ Failed(lines, tok, answer) \in Seq(Line)
         /\ Left(Failed(lines, tok, answer)) = <<>>
         /\ Together(Failed(lines, tok, answer))
<1>1. /\ Clear(lines) \in Seq(Line) /\ Left(Clear(lines)) = <<>>
      /\ LinesFor(Clear(lines), "recent") # {}
  BY ClearLines DEF Left
<1>2. QED
  BY <1>1 DEF Failed, Together

\* Those of a handler that remembers, and of one that clears after it.
LEMMA RememberLines ==
  ASSUME Types, NEW q \in Request, RequestOK(q, deleted), NEW r \in q.repo,
         Live(q) \/ Anonymous
  PROVE  LET lines == RememberIn(q, Loaded(q), r) IN
         /\ lines \in Seq(Line) /\ Together(lines)
         /\ \E b \in Login \cup {NoSession} : Left(lines) = Remembered(q.recent, r, b)
         /\ Anonymous \/ LinesFor(lines, "session") = {}
         /\ Clear(lines) \in Seq(Line) /\ Together(Clear(lines)) /\ Left(Clear(lines)) = <<>>
<1> DEFINE b == IF Live(q) THEN q.session ELSE NoSession
           l == Remembered(q.recent, r, b)
           lines == WriteRecent(Loaded(q), l)
<1>1. b \in Login \cup {NoSession} /\ r \in Repo /\ Good(q.recent)
  BY DEF Request, RequestOK
<1>2. RememberIn(q, Loaded(q), r) = lines
  BY DEF RememberIn
<1> HIDE DEF b
<1>3. l \in Seq(Opened)
  BY <1>1, RememberedIs
<1>4. Loaded(q) \in Seq(Line) /\ (Live(q) => Loaded(q) = <<>>)
  BY LoadedLines
<1> HIDE DEF l
<1>5. /\ lines \in Seq(Line) /\ Left(lines) = l
      /\ LinesFor(Loaded(q), "session") = {} => LinesFor(lines, "session") = {}
  BY <1>3, <1>4, WriteRecentLines DEF Left
<1>6. Anonymous \/ LinesFor(lines, "session") = {}
  BY <1>4, <1>5, NoLines
<1> HIDE DEF lines
<1>7. /\ Clear(lines) \in Seq(Line) /\ Left(Clear(lines)) = <<>>
      /\ LinesFor(Clear(lines), "recent") # {}
  BY <1>5, ClearLines DEF Left
<1>8. Together(lines) /\ Together(Clear(lines))
  BY <1>6, <1>7 DEF Together
<1>9. QED
  BY <1>1, <1>2, <1>5, <1>6, <1>7, <1>8 DEF l

\* A screen that opens a repository and may clear after it.
LEMMA OpenedAnswer ==
  ASSUME RInv, NEW t \in Tab, NEW r \in request[t].repo, NEW minted \in BOOLEAN,
         NEW later \in BOOLEAN, NEW a \in Answers(Live(request[t]) /\ minted, r \in deleted),
         later => Live(request[t]) /\ a = "ok",
         Answer(t, IF a # "ok" THEN Failed(Loaded(request[t]), Live(request[t]) /\ minted, a)
                   ELSE IF later THEN Clear(RememberIn(request[t], Loaded(request[t]), r))
                   ELSE RememberIn(request[t], Loaded(request[t]), r), FALSE)
  PROVE  \E lines, done : Answer(t, lines, done) /\ Outcome(request[t], lines, done, deleted)
<1> DEFINE q == request[t]
<1>1. Types /\ q \in Request /\ RequestOK(q, deleted) /\ deleted \subseteq Repo
  BY DEF RInv, Types
<1> HIDE DEF q
<1>2. CASE a # "ok"
  <2>1. Loaded(q) \in Seq(Line) /\ Left(Loaded(q)) = <<>> /\ Together(Loaded(q))
    BY <1>1, LoadedLines
  <2> DEFINE lines == Failed(Loaded(q), Live(q) /\ minted, a)
  <2>2. lines \in Seq(Line) /\ Left(lines) = <<>> /\ Together(lines)
    BY <2>1, FailedLines
  <2>3. Answer(t, lines, FALSE)
    BY <1>2 DEF q
  <2> HIDE DEF lines
  <2>4. Outcome(q, lines, FALSE, deleted)
    BY <1>1, <2>2 DEF Outcome
  <2>5. QED
    BY <2>3, <2>4 DEF q
<1>3. CASE a = "ok"
  <2>1. r \notin deleted /\ (Live(q) \/ Anonymous)
    BY <1>3 DEF Answers, q
  <2> DEFINE lines == RememberIn(q, Loaded(q), r)
  <2>2. /\ lines \in Seq(Line) /\ Together(lines)
        /\ \E b \in Login \cup {NoSession} : Left(lines) = Remembered(q.recent, r, b)
        /\ Clear(lines) \in Seq(Line) /\ Together(Clear(lines)) /\ Left(Clear(lines)) = <<>>
    BY <1>1, <2>1, RememberLines DEF q
  <2> HIDE DEF lines
  <2>3. CASE later
    <3>1. Outcome(q, Clear(lines), FALSE, deleted)
      BY <1>1, <2>2 DEF Outcome
    <3>2. Answer(t, Clear(lines), FALSE)
      BY <1>3, <2>3 DEF lines, q
    <3>3. QED
      BY <3>1, <3>2 DEF q
  <2>4. CASE ~later
    <3>1. r \in q.repo \ deleted
      BY <2>1 DEF q
    <3>2. Outcome(q, lines, FALSE, deleted)
      BY <1>1, <2>2, <3>1 DEF Outcome
    <3>3. Answer(t, lines, FALSE)
      BY <1>3, <2>4 DEF lines, q
    <3>4. QED
      BY <3>2, <3>3 DEF q
  <2>5. QED
    BY <2>3, <2>4
<1>4. QED
  BY <1>2, <1>3

Handler(t) == Open(t) \/ Home(t) \/ Delete(t) \/ DeleteRefused(t) \/ SignOut(t) \/ Callback(t)

\* An answer that leaves the list alone or takes it away.
LEMMA PlainLines ==
  ASSUME RInv, NEW t \in Tab
  PROVE  /\ Outcome(request[t], <<>>, FALSE, deleted)
         /\ Outcome(request[t], Clear(<<>>), FALSE, deleted)
         /\ \A s \in Login : Outcome(request[t], <<SessionLine(s)>>, FALSE, deleted)
<1>1. /\ <<>> \in Seq(Line) /\ Left(<<>>) = <<>> /\ LinesFor(<<>>, "session") = {}
      /\ deleted \subseteq Repo
  BY NoLines DEF Left, RInv, Types
<1>2. /\ Clear(<<>>) \in Seq(Line) /\ Left(Clear(<<>>)) = <<>>
      /\ LinesFor(Clear(<<>>), "recent") # {}
  BY <1>1, ClearLines DEF Left
<1>3. ASSUME NEW s \in Login PROVE Outcome(request[t], <<SessionLine(s)>>, FALSE, deleted)
  <2> DEFINE c == <<SessionLine(s)>>
  <2>1. /\ c \in Seq(Line) /\ LinesFor(c, "recent") = {} /\ SessionAfter(c, NoSession) = s
    BY SignInLine
  <2> HIDE DEF c
  <2>2. Left(c) = <<>> /\ s # NoSession
    BY <2>1, AfterTypes DEF Left, Login, NoSession
  <2>3. QED
    BY <1>1, <2>1, <2>2 DEF Outcome, Together, c
<1>4. QED
  BY <1>1, <1>2, <1>3 DEF Outcome, Together

\* The deletion form, carried out.
LEMMA DeletedLines ==
  ASSUME RInv, NEW t \in Tab, request[t].kind = "delete", Live(request[t]),
         NEW r \in request[t].repo \ deleted
  PROVE  LET q == request[t]
             lines == RememberIn(q, Loaded(q), r) IN
         /\ Outcome(q, WriteRecent(lines, Without(q.recent, r)), TRUE, deleted \cup {r})
         /\ Outcome(q, lines, FALSE, deleted \cup {r})
<1> DEFINE q == request[t]
           lines == RememberIn(q, Loaded(q), r)
           w == Without(q.recent, r)
           last == WriteRecent(lines, w)
<1>1. Types /\ q \in Request /\ RequestOK(q, deleted) /\ deleted \subseteq Repo /\ Good(q.recent)
  BY DEF RInv, Types, RequestOK
<1>2. r \in q.repo \ deleted /\ r \in Repo /\ q.kind = "delete" /\ Live(q)
  BY <1>1 DEF Request
<1> HIDE DEF q
<1>3. /\ lines \in Seq(Line) /\ Together(lines)
      /\ \E b \in Login \cup {NoSession} : Left(lines) = Remembered(q.recent, r, b)
  BY <1>1, <1>2, RememberLines
<1>4. LinesFor(lines, "session") = {}
  <2> DEFINE l == Remembered(q.recent, r, q.session)
  <2>1. l \in Seq(Opened)
    BY <1>1, <1>2, RememberedIs DEF Request
  <2>2. Loaded(q) = <<>>
    BY <1>1, <1>2, LoadedLines
  <2>3. lines = WriteRecent(<<>>, l)
    BY <1>2, <2>2 DEF RememberIn
  <2> HIDE DEF l, lines
  <2>4. QED
    BY <2>1, <2>3, NoLines, WriteRecentLines
<1>5. w \in Seq(Opened)
  BY <1>1, WithoutTakes
<1> HIDE DEF lines, w
<1>6. /\ last \in Seq(Line) /\ Left(last) = w
      /\ LinesFor(last, "recent") # {} /\ LinesFor(last, "session") = {}
  BY <1>3, <1>4, <1>5, WriteRecentLines DEF Left
<1> HIDE DEF last
<1>7. Outcome(q, last, TRUE, deleted \cup {r})
  BY <1>1, <1>2, <1>6 DEF Outcome, Together, w
<1>8. Outcome(q, lines, FALSE, deleted \cup {r})
  BY <1>1, <1>2, <1>3 DEF Outcome
<1>9. QED
  BY <1>7, <1>8 DEF q, lines, w, last

\* Every handler gives one of the answers above, and touches nothing of the
\* browser's.
LEMMA HandlerAnswers ==
  ASSUME RInv, NEW t \in Tab, Handler(t)
  PROVE  /\ \E lines, done : Answer(t, lines, done) /\ Outcome(request[t], lines, done, deleted')
         /\ request[t].phase = "sent" /\ logins' \in 0..MaxLogin
         /\ UNCHANGED <<session, recent, dead, told>>
<1>1. logins \in 0..MaxLogin /\ MaxLogin \in Nat
  BY RecentAssumption DEF RInv, Types
<1>2. CASE Open(t)
  <2>1. /\ request[t].phase = "sent"
        /\ UNCHANGED <<session, recent, logins, dead, deleted, told>>
    BY <1>2 DEF Open
  <2>2. PICK r \in request[t].repo, minted \in BOOLEAN, later \in BOOLEAN :
          \E a \in Answers(Live(request[t]) /\ minted, r \in deleted) :
            /\ later => Live(request[t]) /\ a = "ok"
            /\ Answer(t, IF a # "ok"
                         THEN Failed(Loaded(request[t]), Live(request[t]) /\ minted, a)
                         ELSE IF later
                         THEN Clear(RememberIn(request[t], Loaded(request[t]), r))
                         ELSE RememberIn(request[t], Loaded(request[t]), r), FALSE)
    BY <1>2 DEF Open
  <2>3. \E lines, done : Answer(t, lines, done) /\ Outcome(request[t], lines, done, deleted)
    BY <2>2, OpenedAnswer
  <2>4. QED
    BY <1>1, <2>1, <2>3
<1>3. CASE Home(t)
  <2>1. /\ request[t].phase = "sent"
        /\ UNCHANGED <<session, recent, logins, dead, deleted, told>>
        /\ \E minted \in BOOLEAN : \E a \in Answers(Live(request[t]) /\ minted, FALSE) :
             Answer(t, Failed(Loaded(request[t]), Live(request[t]) /\ minted, a), FALSE)
    BY <1>3 DEF Home
  <2>2. PICK tok, a : Answer(t, Failed(Loaded(request[t]), tok, a), FALSE)
    BY <2>1
  <2>3. /\ Loaded(request[t]) \in Seq(Line) /\ Left(Loaded(request[t])) = <<>>
        /\ Together(Loaded(request[t]))
    BY LoadedLines DEF RInv, Types
  <2>4. Outcome(request[t], Failed(Loaded(request[t]), tok, a), FALSE, deleted)
    BY <2>3, FailedLines DEF Outcome, RInv, Types
  <2>5. QED
    BY <1>1, <2>1, <2>2, <2>4
<1>4. CASE Delete(t)
  <2>1. /\ request[t].phase = "sent" /\ request[t].kind = "delete" /\ Live(request[t])
        /\ UNCHANGED <<session, recent, logins, dead, told>>
    BY <1>4 DEF Delete
  <2>2. PICK r \in request[t].repo \ deleted :
          /\ deleted' = deleted \cup {r}
          /\ \/ Answer(t, WriteRecent(RememberIn(request[t], Loaded(request[t]), r),
                                      Without(request[t].recent, r)), TRUE)
             \/ Answer(t, RememberIn(request[t], Loaded(request[t]), r), FALSE)
    BY <1>4 DEF Delete
  <2>3. QED
    BY <1>1, <2>1, <2>2, DeletedLines
<1>5. CASE DeleteRefused(t)
  <2>1. /\ request[t].phase = "sent"
        /\ UNCHANGED <<session, recent, logins, dead, deleted, told>>
    BY <1>5 DEF DeleteRefused
  <2>2. CASE Answer(t, <<>>, FALSE)
    BY <1>1, <2>1, <2>2, PlainLines
  <2>3. CASE \E r \in request[t].repo, minted, refused \in BOOLEAN :
          \E a \in Answers(Live(request[t]) /\ minted, r \in deleted) :
            /\ refused => Live(request[t]) /\ a = "ok"
            /\ Answer(t, IF a # "ok"
                         THEN Failed(Loaded(request[t]), Live(request[t]) /\ minted, a)
                         ELSE IF refused
                         THEN Clear(RememberIn(request[t], Loaded(request[t]), r))
                         ELSE RememberIn(request[t], Loaded(request[t]), r), FALSE)
    <3>1. \E lines, done : Answer(t, lines, done) /\ Outcome(request[t], lines, done, deleted)
      BY <2>3, OpenedAnswer
    <3>2. QED
      BY <1>1, <2>1, <3>1
  <2>4. QED
    BY <1>5, <2>2, <2>3 DEF DeleteRefused
<1>6. CASE SignOut(t)
  <2>1. /\ request[t].phase = "sent"
        /\ UNCHANGED <<session, recent, logins, dead, deleted, told>>
        /\ Answer(t, Clear(<<>>), FALSE) \/ Answer(t, <<>>, FALSE)
    BY <1>6 DEF SignOut
  <2>2. QED
    BY <1>1, <2>1, PlainLines
<1>7. CASE Callback(t)
  <2>1. /\ request[t].phase = "sent"
        /\ UNCHANGED <<session, recent, dead, deleted, told>>
    BY <1>7 DEF Callback
  <2>2. CASE logins < MaxLogin /\ logins' = logins + 1 /\ Answer(t, <<SessionLine(logins + 1)>>, FALSE)
    <3>1. logins + 1 \in Login /\ logins' \in 0..MaxLogin
      BY <1>1, <2>2 DEF Login
    <3>2. QED
      BY <2>1, <2>2, <3>1, PlainLines
  <2>3. CASE Answer(t, <<>>, FALSE) /\ UNCHANGED logins
    BY <1>1, <2>1, <2>3, PlainLines
  <2>4. QED
    BY <1>7, <2>2, <2>3 DEF Callback
<1>8. QED
  BY <1>2, <1>3, <1>4, <1>5, <1>6, <1>7 DEF Handler
----------------------------------------------------------------------------
(***************************************************************************)
(* The invariant holds.                                                    *)
(***************************************************************************)

\* The request of t once it is answered.
Answered(t, lines, done) ==
  [Idle EXCEPT !.phase = "answered", !.kind = request[t].kind, !.repo = request[t].repo,
               !.lines = lines, !.done = done]

LEMMA IdleOK == Idle \in Request /\ \A gone : RequestOK(Idle, gone)
<1>1. <<>> \in Seq(Line) /\ Left(<<>>) = <<>> /\ LinesFor(<<>>, "session") = {}
  BY NoLines DEF Left
<1>2. /\ Idle.phase = "idle" /\ Idle.kind = "home" /\ Idle.repo = {}
      /\ Idle.session = NoSession /\ Idle.recent = <<>> /\ Idle.lines = <<>> /\ Idle.done = FALSE
  BY DEF Idle
<1>3. Idle \in Request
  BY <1>1 DEF Idle, Request, Plain, Named
<1>4. QED
  BY <1>1, <1>2, <1>3, EmptyIsGood DEF RequestOK, Named, Together

\* What an answer leaves of the list is a list.
LEMMA OutcomeGood ==
  ASSUME RInv, NEW t \in Tab, NEW lines, NEW done, NEW gone,
         Outcome(request[t], lines, done, gone)
  PROVE  /\ Good(Left(lines))
         /\ done = FALSE /\ Left(lines) # <<>> =>
              \E r \in request[t].repo : Left(lines)[1].id = r
         /\ done = TRUE => request[t].repo \cap Names(Left(lines)) = {} /\ request[t].repo \subseteq gone
<1>1. /\ Good(request[t].recent) /\ request[t].repo \subseteq Repo
      /\ request[t].kind = "delete" => \E r \in Repo : request[t].repo = {r}
  BY DEF RInv, Types, Request, RequestOK, Named
<1>2. CASE done = FALSE /\ Left(lines) = <<>>
  BY <1>2, EmptyIsGood
<1>3. CASE /\ done = FALSE
           /\ \E r \in request[t].repo \ deleted, b \in Login \cup {NoSession} :
                Left(lines) = Remembered(request[t].recent, r, b)
  <2>1. PICK r \in request[t].repo \ deleted, b \in Login \cup {NoSession} :
          Left(lines) = Remembered(request[t].recent, r, b)
    BY <1>3
  <2>2. Good(Left(lines)) /\ Left(lines)[1].id = r
    BY <1>1, <2>1, RememberedOpens
  <2>3. QED
    BY <1>3, <2>2
<1>4. CASE /\ done = TRUE /\ request[t].kind = "delete"
           /\ \E r \in request[t].repo :
                gone = deleted \cup {r} /\ Left(lines) = Without(request[t].recent, r)
  <2>1. PICK r \in request[t].repo :
          gone = deleted \cup {r} /\ Left(lines) = Without(request[t].recent, r)
    BY <1>4
  <2>2. request[t].repo = {r}
    BY <1>1, <1>4
  <2>3. Good(Left(lines)) /\ Names(Left(lines)) = Names(request[t].recent) \ {r}
    BY <1>1, <2>1, WithoutDeletes
  <2>4. QED
    BY <1>4, <2>1, <2>2, <2>3
<1>5. QED
  BY <1>2, <1>3, <1>4 DEF Outcome

LEMMA AnsweredOK ==
  ASSUME RInv, NEW t \in Tab, NEW lines, NEW done, NEW gone,
         Outcome(request[t], lines, done, gone)
  PROVE  Answered(t, lines, done) \in Request /\ RequestOK(Answered(t, lines, done), gone)
<1> DEFINE n == Answered(t, lines, done)
           q == request[t]
<1>1. /\ q \in Request /\ RequestOK(q, deleted)
      /\ lines \in Seq(Line) /\ Together(lines) /\ done \in BOOLEAN
      /\ done = TRUE => q.kind = "delete" /\ LinesFor(lines, "recent") # {}
  BY DEF RInv, Types, Outcome
<1>2. /\ n.phase = "answered" /\ n.kind = q.kind /\ n.repo = q.repo /\ n.session = NoSession
      /\ n.recent = <<>> /\ n.lines = lines /\ n.done = done
  BY DEF Answered, Idle
<1>3. n \in Request
  BY <1>1, IdleOK DEF Answered, Request, Idle
<1>4. /\ Good(Left(lines))
      /\ done = FALSE /\ Left(lines) # <<>> => \E r \in q.repo : Left(lines)[1].id = r
      /\ done = TRUE => q.repo \cap Names(Left(lines)) = {} /\ q.repo \subseteq gone
  BY OutcomeGood
<1>5. q.kind \in Named => \E r \in Repo : q.repo = {r}
  BY <1>1 DEF RequestOK
<1> HIDE DEF n, q
<1>6. n.kind = "open" => Left(n.lines) = <<>> \/ {Left(n.lines)[1].id} = n.repo
  BY <1>1, <1>2, <1>4, <1>5 DEF Named
<1>7. RequestOK(n, gone)
  BY <1>1, <1>2, <1>4, <1>5, <1>6, EmptyIsGood DEF RequestOK
<1>8. QED
  BY <1>3, <1>7 DEF n

\* The requests of the other tabs stay as they were, and what is deleted stays so.
LEMMA RequestsKept ==
  ASSUME RInv, NEW t \in Tab, NEW n \in Request, RequestOK(n, deleted'),
         request' = [request EXCEPT ![t] = n], deleted \subseteq deleted'
  PROVE  /\ request' \in [Tab -> Request]
         /\ \A u \in Tab : RequestOK(request'[u], deleted')
<1>1. request \in [Tab -> Request] /\ \A u \in Tab : RequestOK(request[u], deleted)
  BY DEF RInv, Types
<1>2. request' \in [Tab -> Request]
  BY <1>1
<1>3. ASSUME NEW u \in Tab PROVE RequestOK(request'[u], deleted')
  <2>1. CASE u = t
    BY <1>1, <2>1
  <2>2. CASE u # t
    <3>1. request'[u] = request[u] /\ RequestOK(request[u], deleted)
      BY <1>1, <2>2
    <3>2. QED
      BY <3>1 DEF RequestOK
  <2>3. QED
    BY <2>1, <2>2
<1>4. QED
  BY <1>2, <1>3

LEMMA InitRInv == Init => RInv
BY IdleOK, EmptyIsGood, RecentAssumption DEF Init, RInv, Types

LEMMA SendRInv ==
  ASSUME RInv, NEW t \in Tab, NEW k \in Plain \cup Named, NEW repos \in SUBSET Repo,
         k \in Named => \E r \in Repo : repos = {r}, Send(t, k, repos)
  PROVE  RInv'
<1> DEFINE n == [Idle EXCEPT !.phase = "sent", !.kind = k, !.repo = repos,
                             !.session = session, !.recent = recent]
<1>1. /\ n.phase = "sent" /\ n.kind = k /\ n.repo = repos /\ n.session = session
      /\ n.recent = recent /\ n.lines = <<>> /\ n.done = FALSE
  BY DEF Idle
<1>2. n \in Request
  BY IdleOK DEF Request, Idle, RInv, Types, Good
<1>3. /\ request' = [request EXCEPT ![t] = n]
      /\ UNCHANGED <<session, recent, logins, dead, deleted, told>>
  BY DEF Send
<1> HIDE DEF n
<1>4. Left(<<>>) = <<>> /\ LinesFor(<<>>, "session") = {}
  BY NoLines DEF Left
<1>5. RequestOK(n, deleted')
  BY <1>1, <1>4, EmptyIsGood DEF RequestOK, Together, RInv
<1>6. /\ request' \in [Tab -> Request]
      /\ \A u \in Tab : RequestOK(request'[u], deleted')
  BY <1>2, <1>3, <1>5, RequestsKept
<1>7. QED
  BY <1>3, <1>6 DEF RInv, Types

LEMMA HandlerRInv ==
  ASSUME RInv, NEW t \in Tab, Handler(t)
  PROVE  RInv'
<1>1. PICK lines, done : Answer(t, lines, done) /\ Outcome(request[t], lines, done, deleted')
  BY HandlerAnswers
<1>2. logins' \in 0..MaxLogin /\ UNCHANGED <<session, recent, dead, told>>
  BY HandlerAnswers
<1>3. /\ Answered(t, lines, done) \in Request
      /\ RequestOK(Answered(t, lines, done), deleted')
  BY <1>1, AnsweredOK
<1>4. deleted \subseteq deleted' /\ deleted' \subseteq Repo
  BY <1>1 DEF Outcome
<1>5. request' = [request EXCEPT ![t] = Answered(t, lines, done)]
  BY <1>1 DEF Answer, Answered
<1>6. /\ request' \in [Tab -> Request]
      /\ \A u \in Tab : RequestOK(request'[u], deleted')
  BY <1>3, <1>4, <1>5, RequestsKept
<1>7. QED
  BY <1>2, <1>4, <1>6 DEF RInv, Types

\* A tab that is done with its request: the answer was applied, or lost.
LEMMA IdleAgain ==
  ASSUME RInv, NEW t \in Tab, request' = [request EXCEPT ![t] = Idle], UNCHANGED deleted
  PROVE  /\ request' \in [Tab -> Request]
         /\ \A u \in Tab : RequestOK(request'[u], deleted')
BY IdleOK, RequestsKept

LEMMA ReceiveRInv ==
  ASSUME RInv, NEW t \in Tab, Receive(t)
  PROVE  RInv'
<1>1. /\ session' = SessionAfter(request[t].lines, session)
      /\ recent' = RecentAfter(request[t].lines, recent)
      /\ told' = IF request[t].done THEN told \cup request[t].repo ELSE told
      /\ request' = [request EXCEPT ![t] = Idle]
      /\ UNCHANGED <<logins, dead, deleted>>
  BY DEF Receive
<1>2. request[t] \in Request /\ RequestOK(request[t], deleted) /\ request[t].lines \in Seq(Line)
  BY DEF RInv, Types, Request
<1>3. /\ request' \in [Tab -> Request]
      /\ \A u \in Tab : RequestOK(request'[u], deleted')
  BY <1>1, IdleAgain
<1>4. session' \in Login \cup {NoSession}
  BY <1>1, <1>2, AfterTypes DEF RInv, Types
<1>5. Good(recent')
  <2>1. Good(recent) /\ Good(RecentAfter(request[t].lines, <<>>))
    BY <1>2 DEF RInv, RequestOK, Left
  <2>2. QED
    BY <1>1, <1>2, <2>1, AfterTypes
<1>6. told' \subseteq deleted'
  BY <1>1, <1>2 DEF RequestOK, Request, RInv, Types
<1>7. QED
  BY <1>1, <1>3, <1>4, <1>5, <1>6 DEF RInv, Types

LEMMA LoseRInv ==
  ASSUME RInv, NEW t \in Tab, Lose(t)
  PROVE  RInv'
<1>1. /\ request' = [request EXCEPT ![t] = Idle]
      /\ UNCHANGED <<session, recent, logins, dead, deleted, told>>
  BY DEF Lose
<1>2. /\ request' \in [Tab -> Request]
      /\ \A u \in Tab : RequestOK(request'[u], deleted')
  BY <1>1, IdleAgain
<1>3. QED
  BY <1>1, <1>2 DEF RInv, Types

\* Next, as the cases of the proofs below.
LEMMA Steps ==
  ASSUME Next
  PROVE  \/ Die \/ DropSession
         \/ \E t \in Tab, k \in Plain \cup Named, repos \in SUBSET Repo :
              (k \in Named => \E r \in Repo : repos = {r}) /\ Send(t, k, repos)
         \/ \E t \in Tab : Handler(t)
         \/ \E t \in Tab : Receive(t)
         \/ \E t \in Tab : Lose(t)
<1>1. Plain \cap Named = {}
  BY DEF Plain, Named
<1>2. ASSUME NEW t \in Tab, NEW k \in Plain, Send(t, k, {})
      PROVE  \E repos \in SUBSET Repo : (k \in Named => \E r \in Repo : repos = {r}) /\ Send(t, k, repos)
  BY <1>1, <1>2
<1>3. ASSUME NEW t \in Tab, NEW k \in Named, NEW r \in Repo, Send(t, k, {r})
      PROVE  \E repos \in SUBSET Repo : (k \in Named => \E x \in Repo : repos = {x}) /\ Send(t, k, repos)
  BY <1>3
<1>4. QED
  BY <1>2, <1>3 DEF Next, Handler

LEMMA StepRInv ==
  ASSUME RInv, [Next]_vars
  PROVE  RInv'
<1>1. CASE UNCHANGED vars
  BY <1>1 DEF vars, RInv, Types
<1>2. CASE Die
  BY <1>2 DEF Die, RInv, Types
<1>3. CASE DropSession
  BY <1>3 DEF DropSession, RInv, Types
<1>4. QED
  BY <1>1, <1>2, <1>3, Steps, SendRInv, HandlerRInv, ReceiveRInv, LoseRInv

THEOREM Holds == Spec => []RInv
<1>1. RInv /\ [Next]_vars => RInv'
  BY StepRInv
<1>2. QED
  BY <1>1, InitRInv, PTL DEF Spec

\* TypeOK: the session is a sign-in or none, the list and every copy of it a
\* list of entries, and nothing is told of that was not deleted.
THEOREM TypesHold == Spec => []TypeOK
<1>1. RInv => TypeOK
  BY DEF RInv, Types, TypeOK, Good, Request
<1>2. QED
  BY <1>1, Holds, PTL

----------------------------------------------------------------------------
(***************************************************************************)
(* What an answer does to the list once it is applied.                     *)
(***************************************************************************)

\* openRepo: once the answer that opened a repository is applied, the
\* repository is first on the list, unless that answer took the list away.
THEOREM OpenedComesFirst == Spec => OpenedIsFirst
<1>1. ASSUME RInv, NEW t \in Tab, Receive(t), request[t].kind = "open",
             LinesFor(request[t].lines, "recent") # {}
      PROVE  recent' = <<>> \/ {recent'[1].id} = request[t].repo
  <2>1. recent' = RecentAfter(request[t].lines, recent)
    BY <1>1 DEF Receive
  <2>2. request[t].lines \in Seq(Line) /\ RequestOK(request[t], deleted)
    BY <1>1 DEF RInv, Types, Request
  <2>3. recent' = Left(request[t].lines)
    BY <1>1, <2>1, <2>2, AfterTypes DEF Left
  <2>4. QED
    BY <1>1, <2>2, <2>3 DEF RequestOK
<1>2. RInv => [\A t \in Tab :
        /\ request[t].kind = "open"
        /\ Receive(t)
        /\ LinesFor(request[t].lines, "recent") # {}
        => recent' = <<>> \/ {recent'[1].id} = request[t].repo]_vars
  BY <1>1
<1>3. QED
  BY <1>2, Holds, PTL DEF OpenedIsFirst

\* Clear: where Origo answers no read without a token, an answer that takes the
\* session away takes the list with it.  (Where it does, a page whose session
\* was refused still remembers what it opened: MCRecent_cleared.)
THEOREM ClearsTogether == ASSUME ~Anonymous PROVE Spec => ClearedTogether
<1>1. ASSUME RInv, NEW t \in Tab, Receive(t), LinesFor(request[t].lines, "session") # {},
             session' = NoSession
      PROVE  recent' = <<>>
  <2>1. /\ recent' = RecentAfter(request[t].lines, recent)
        /\ session' = SessionAfter(request[t].lines, session)
    BY <1>1 DEF Receive
  <2>2. request[t].lines \in Seq(Line) /\ Together(request[t].lines)
    BY <1>1 DEF RInv, Types, Request, RequestOK
  <2>3. SessionAfter(request[t].lines, NoSession) = NoSession
    BY <1>1, <2>1, <2>2, AfterTypes
  <2>4. LinesFor(request[t].lines, "recent") # {} /\ Left(request[t].lines) = <<>>
    BY <1>1, <2>2, <2>3 DEF Together
  <2>5. QED
    BY <2>1, <2>2, <2>4, AfterTypes DEF Left
<1>2. RInv => [\A t \in Tab :
        Receive(t) /\ LinesFor(request[t].lines, "session") # {} /\ session' = NoSession
        => recent' = <<>>]_vars
  BY <1>1
<1>3. QED
  BY <1>2, Holds, PTL DEF ClearedTogether

----------------------------------------------------------------------------
(***************************************************************************)
(* A deleted repository stays forgotten.                                   *)
(***************************************************************************)

\* What a tab has in hand: nothing while it is idle.
LEMMA IdleHand == InHand(Idle) = <<>>
BY NoLines DEF InHand, Idle

LEMMA HandIsGood ==
  ASSUME RInv, NEW t \in Tab
  PROVE  /\ Good(InHand(request[t])) /\ request[t] \in Request
         /\ request[t].phase = "sent" => InHand(request[t]) = request[t].recent
         /\ request[t].phase # "sent" => InHand(request[t]) = Left(request[t].lines)
         /\ request[t].phase = "idle" => InHand(request[t]) = <<>>
BY NoLines DEF RInv, Types, RequestOK, InHand, Left

LEMMA AnsweredHand ==
  ASSUME NEW t \in Tab, NEW lines, NEW done
  PROVE  InHand(Answered(t, lines, done)) = Left(lines)
BY DEF InHand, Answered, Idle, Left

\* The tabs that take no part in a step keep what they have in hand.
OtherHands(t) == \A u \in Tab \ {t} : request'[u] = request[u]

\* What a step does to the list and to the hand of the tab that takes it: the
\* list is taken in hand, changed by a handler, put back, or given up.
LEMMA HandSteps ==
  ASSUME RInv, Next
  PROVE  \/ UNCHANGED <<recent, request, told>>
         \/ \E t \in Tab : /\ UNCHANGED <<recent, told>> /\ OtherHands(t)
                           /\ InHand(request'[t]) = recent
         \/ \E t \in Tab : \E lines, done :
              /\ UNCHANGED <<recent, told>> /\ OtherHands(t) /\ request[t].phase = "sent"
              /\ InHand(request'[t]) = Left(lines)
              /\ Outcome(request[t], lines, done, deleted')
         \/ \E t \in Tab : /\ Receive(t) /\ OtherHands(t) /\ InHand(request'[t]) = <<>>
                           /\ \/ recent' = recent
                              \/ recent' = InHand(request[t])
         \/ \E t \in Tab : /\ UNCHANGED <<recent, told>> /\ OtherHands(t)
                           /\ InHand(request'[t]) = <<>>
<1>1. request \in [Tab -> Request]
  BY DEF RInv, Types
<1>2. ASSUME NEW t \in Tab, NEW n, request' = [request EXCEPT ![t] = n]
      PROVE  OtherHands(t) /\ request'[t] = n
  BY <1>1, <1>2 DEF OtherHands
<1>3. CASE Die \/ DropSession
  BY <1>3 DEF Die, DropSession
<1>4. ASSUME NEW t \in Tab, NEW k, NEW repos, Send(t, k, repos)
      PROVE  UNCHANGED <<recent, told>> /\ OtherHands(t) /\ InHand(request'[t]) = recent
  <2> DEFINE n == [Idle EXCEPT !.phase = "sent", !.kind = k, !.repo = repos,
                               !.session = session, !.recent = recent]
  <2>1. /\ request' = [request EXCEPT ![t] = n]
        /\ UNCHANGED <<session, recent, logins, dead, deleted, told>>
    BY <1>4 DEF Send
  <2>2. n.phase = "sent" /\ n.recent = recent
    BY DEF Idle
  <2> HIDE DEF n
  <2>3. QED
    BY <1>2, <2>1, <2>2 DEF InHand
<1>5. ASSUME NEW t \in Tab, Handler(t)
      PROVE  \E lines, done :
               /\ UNCHANGED <<recent, told>> /\ OtherHands(t) /\ request[t].phase = "sent"
               /\ InHand(request'[t]) = Left(lines)
               /\ Outcome(request[t], lines, done, deleted')
  <2>1. PICK lines, done : Answer(t, lines, done) /\ Outcome(request[t], lines, done, deleted')
    BY <1>5, HandlerAnswers
  <2>2. request' = [request EXCEPT ![t] = Answered(t, lines, done)]
    BY <2>1 DEF Answer, Answered
  <2>3. OtherHands(t) /\ InHand(request'[t]) = Left(lines)
    BY <1>2, <2>2, AnsweredHand
  <2>4. QED
    BY <1>5, <2>1, <2>3, HandlerAnswers
<1>6. ASSUME NEW t \in Tab, Receive(t)
      PROVE  /\ OtherHands(t) /\ InHand(request'[t]) = <<>>
             /\ recent' = recent \/ recent' = InHand(request[t])
  <2>1. /\ request[t].phase = "answered"
        /\ recent' = RecentAfter(request[t].lines, recent)
        /\ request' = [request EXCEPT ![t] = Idle]
    BY <1>6 DEF Receive
  <2>2. request[t].lines \in Seq(Line)
    BY <1>1 DEF Request
  <2>3. recent' = recent \/ recent' = Left(request[t].lines)
    BY <2>1, <2>2, AfterTypes DEF Left
  <2>4. QED
    BY <1>2, <2>1, <2>3, IdleHand, HandIsGood
<1>7. ASSUME NEW t \in Tab, Lose(t)
      PROVE  UNCHANGED <<recent, told>> /\ OtherHands(t) /\ InHand(request'[t]) = <<>>
  BY <1>2, <1>7, IdleHand DEF Lose
<1>8. QED
  BY <1>3, <1>4, <1>5, <1>6, <1>7, Steps

\* An answer adds no repository that was deleted to what the request had.
LEMMA OutcomeNames ==
  ASSUME RInv, NEW t \in Tab, NEW lines, NEW done, NEW gone,
         Outcome(request[t], lines, done, gone), NEW r \in deleted,
         r \notin Names(request[t].recent)
  PROVE  r \notin Names(Left(lines))
<1>1. Good(request[t].recent) /\ request[t].repo \subseteq Repo
  BY DEF RInv, Types, Request, RequestOK
<1>2. CASE Left(lines) = <<>>
  BY <1>2, EmptyIsGood
<1>3. CASE \E x \in request[t].repo \ deleted, b \in Login \cup {NoSession} :
             Left(lines) = Remembered(request[t].recent, x, b)
  <2>1. PICK x \in request[t].repo \ deleted, b \in Login \cup {NoSession} :
          Left(lines) = Remembered(request[t].recent, x, b)
    BY <1>3
  <2>2. Names(Left(lines)) \subseteq Names(request[t].recent) \cup {x}
    BY <1>1, <2>1, RememberedOpens
  <2>3. QED
    BY <2>1, <2>2
<1>4. CASE \E x \in request[t].repo : Left(lines) = Without(request[t].recent, x)
  BY <1>1, <1>4, WithoutDeletes
<1>5. QED
  BY <1>2, <1>3, <1>4 DEF Outcome

\* handleDeletePost and Forget: the answer that tells of a deletion takes the
\* repository off the list; and once a repository that a person was told is
\* deleted is on no copy of the list, no answer in flight brings it back.
THEOREM DeletedStaysForgotten == Spec => StaysForgotten
<1>1. ASSUME RInv, NEW t \in Tab, request[t].done, Receive(t)
      PROVE  request[t].repo \cap Names(recent') = {}
  <2>1. recent' = RecentAfter(request[t].lines, recent)
    BY <1>1 DEF Receive
  <2>2. request[t].lines \in Seq(Line) /\ RequestOK(request[t], deleted) /\ request[t].done = TRUE
    BY <1>1 DEF RInv, Types, Request
  <2>3. LinesFor(request[t].lines, "recent") # {}
    BY <2>2 DEF RequestOK
  <2>4. recent' = Left(request[t].lines)
    BY <2>1, <2>2, <2>3, AfterTypes DEF Left
  <2>5. QED
    BY <2>2, <2>4 DEF RequestOK
<1>2. ASSUME RInv, Next, NEW r \in told, ~Around(r) PROVE ~Around(r)'
  <2>1. /\ r \in deleted /\ r \notin Names(recent)
        /\ \A u \in Tab : r \notin Names(InHand(request[u]))
    BY <1>2 DEF RInv, Types, Around
  <2>2. r \notin Names(<<>>)
    BY EmptyIsGood
  <2>3. SUFFICES r \notin Names(recent') /\ \A u \in Tab : r \notin Names(InHand(request'[u]))
    BY DEF Around, Names, InHand
  <2>4. ASSUME NEW t \in Tab, OtherHands(t), r \notin Names(InHand(request'[t]))
        PROVE  \A u \in Tab : r \notin Names(InHand(request'[u]))
    BY <2>1, <2>4 DEF OtherHands
  <2>5. ASSUME NEW t \in Tab, NEW lines, NEW done, request[t].phase = "sent",
               InHand(request'[t]) = Left(lines), Outcome(request[t], lines, done, deleted')
        PROVE  r \notin Names(InHand(request'[t]))
    <3>1. r \notin Names(request[t].recent)
      BY <1>2, <2>1, <2>5, HandIsGood
    <3>2. r \notin Names(Left(lines))
      BY <1>2, <2>1, <2>5, <3>1, OutcomeNames
    <3>3. QED
      BY <2>5, <3>2
  <2>6. CASE UNCHANGED <<recent, request, told>>
    BY <2>1, <2>6
  <2>7. CASE \E t \in Tab : /\ UNCHANGED <<recent, told>> /\ OtherHands(t)
                            /\ InHand(request'[t]) = recent
    BY <2>1, <2>4, <2>7
  <2>8. CASE \E t \in Tab : \E lines, done :
               /\ UNCHANGED <<recent, told>> /\ OtherHands(t) /\ request[t].phase = "sent"
               /\ InHand(request'[t]) = Left(lines)
               /\ Outcome(request[t], lines, done, deleted')
    BY <2>1, <2>4, <2>5, <2>8
  <2>9. CASE \E t \in Tab : /\ Receive(t) /\ OtherHands(t) /\ InHand(request'[t]) = <<>>
                            /\ \/ recent' = recent
                               \/ recent' = InHand(request[t])
    BY <2>1, <2>2, <2>4, <2>9
  <2>10. CASE \E t \in Tab : /\ UNCHANGED <<recent, told>> /\ OtherHands(t)
                             /\ InHand(request'[t]) = <<>>
    BY <2>1, <2>2, <2>4, <2>10
  <2>11. QED
    BY <1>2, <2>6, <2>7, <2>8, <2>9, <2>10, HandSteps
<1>3. RInv /\ [Next]_vars => [
        /\ \A t \in Tab : request[t].done /\ Receive(t) => request[t].repo \cap Names(recent') = {}
        /\ \A r \in told : ~Around(r) => ~Around(r)']_vars
  BY <1>1, <1>2
<1>4. QED
  BY <1>3, Holds, PTL DEF Spec, StaysForgotten

----------------------------------------------------------------------------
(***************************************************************************)
(* Recent implements RecentList.                                           *)
(***************************************************************************)

hands == [t \in Tab |-> Ids(InHand(request[t]))]

\* An answer is one change of the list its request was sent with.
LEMMA OutcomeChanges ==
  ASSUME RInv, NEW t \in Tab, NEW lines, NEW done, NEW gone,
         Outcome(request[t], lines, done, gone)
  PROVE  LET old == Ids(request[t].recent)
             new == Ids(Left(lines)) IN
         /\ Len(new) <= Limit /\ Promise!At(new) \subseteq Repo
         /\ \/ new = <<>>
            \/ \E r \in Repo : Promise!Open(old, new, r) \/ Promise!Delete(old, new, r)
<1>1. Good(request[t].recent) /\ request[t].repo \subseteq Repo
  BY DEF RInv, Types, Request, RequestOK
<1>2. Good(Left(lines))
  BY OutcomeGood
<1>3. /\ Len(Ids(Left(lines))) = Len(Left(lines))
      /\ Promise!At(Ids(Left(lines))) = Names(Left(lines))
      /\ DOMAIN Left(lines) = 1..Len(Left(lines))
      /\ \A i \in 1..Len(Left(lines)) : Left(lines)[i].id \in Repo
  BY <1>2, IdsOf DEF Good
<1>4. /\ Len(Ids(Left(lines))) <= Limit
      /\ Promise!At(Ids(Left(lines))) \subseteq Repo
  BY <1>2, <1>3 DEF Good, Names
<1>5. CASE Left(lines) = <<>>
  BY <1>4, <1>5, EmptyIsGood
<1>6. CASE \E x \in request[t].repo \ deleted, b \in Login \cup {NoSession} :
             Left(lines) = Remembered(request[t].recent, x, b)
  <2>1. PICK x \in request[t].repo \ deleted, b \in Login \cup {NoSession} :
          Left(lines) = Remembered(request[t].recent, x, b)
    BY <1>6
  <2>2. x \in Repo /\ Promise!Open(Ids(request[t].recent), Ids(Left(lines)), x)
    BY <1>1, <2>1, RememberedOpens
  <2>3. QED
    BY <1>4, <2>2
<1>7. CASE \E x \in request[t].repo : Left(lines) = Without(request[t].recent, x)
  <2>1. PICK x \in request[t].repo : Left(lines) = Without(request[t].recent, x)
    BY <1>7
  <2>2. x \in Repo /\ Promise!Delete(Ids(request[t].recent), Ids(Left(lines)), x)
    BY <1>1, <2>1, WithoutDeletes
  <2>3. QED
    BY <1>4, <2>2
<1>8. QED
  BY <1>5, <1>6, <1>7 DEF Outcome

\* Every step is a step of RecentList or leaves the list and its copies alone.
LEMMA StepKeepsPromise ==
  ASSUME RInv, Next
  PROVE  Promise!Next \/ UNCHANGED <<Ids(recent), hands>>
<1>1. ASSUME NEW t \in Tab, OtherHands(t)
      PROVE  /\ \A u \in Tab \ {t} : hands'[u] = hands[u]
             /\ hands[t] = Ids(InHand(request[t]))
             /\ hands'[t] = Ids(InHand(request'[t]))
  BY <1>1 DEF OtherHands, hands, Ids, InHand
<1>2. Ids(<<>>) = <<>>
  BY EmptyIsGood
<1>3. CASE UNCHANGED <<recent, request, told>>
  BY <1>3 DEF hands, InHand, Ids
<1>4. CASE \E t \in Tab : /\ UNCHANGED <<recent, told>> /\ OtherHands(t)
                          /\ InHand(request'[t]) = recent
  <2>1. PICK t \in Tab : /\ UNCHANGED <<recent, told>> /\ OtherHands(t)
                         /\ InHand(request'[t]) = recent
    BY <1>4
  <2>2. Promise!Take(t)
    BY <1>1, <2>1 DEF Promise!Take, Promise!Others, hands
  <2>3. QED
    BY <2>2 DEF Promise!Next
<1>5. CASE \E t \in Tab : \E lines, done :
             /\ UNCHANGED <<recent, told>> /\ OtherHands(t) /\ request[t].phase = "sent"
             /\ InHand(request'[t]) = Left(lines)
             /\ Outcome(request[t], lines, done, deleted')
  <2>0. PICK t \in Tab : \E lines, done :
          /\ UNCHANGED <<recent, told>> /\ OtherHands(t) /\ request[t].phase = "sent"
          /\ InHand(request'[t]) = Left(lines)
          /\ Outcome(request[t], lines, done, deleted')
    BY <1>5
  <2>1. PICK lines, done :
          /\ UNCHANGED <<recent, told>> /\ OtherHands(t) /\ request[t].phase = "sent"
          /\ InHand(request'[t]) = Left(lines)
          /\ Outcome(request[t], lines, done, deleted')
    BY <2>0
  <2>2. InHand(request[t]) = request[t].recent
    BY <2>1, HandIsGood
  <2>3. /\ Len(Ids(Left(lines))) <= Limit /\ Promise!At(Ids(Left(lines))) \subseteq Repo
        /\ \/ Ids(Left(lines)) = <<>>
           \/ \E r \in Repo : \/ Promise!Open(Ids(request[t].recent), Ids(Left(lines)), r)
                              \/ Promise!Delete(Ids(request[t].recent), Ids(Left(lines)), r)
    BY <2>1, OutcomeChanges
  <2>4. Promise!Change(t)
    BY <1>1, <2>1, <2>2, <2>3 DEF Promise!Change, Promise!Others, hands
  <2>5. QED
    BY <2>4 DEF Promise!Next
<1>6. CASE \E t \in Tab : /\ Receive(t) /\ OtherHands(t) /\ InHand(request'[t]) = <<>>
                          /\ \/ recent' = recent
                             \/ recent' = InHand(request[t])
  <2>1. PICK t \in Tab : /\ OtherHands(t) /\ InHand(request'[t]) = <<>>
                         /\ \/ recent' = recent
                            \/ recent' = InHand(request[t])
    BY <1>6
  <2>2. Promise!GiveUp(t) \/ Promise!Put(t)
    BY <1>1, <1>2, <2>1 DEF Promise!GiveUp, Promise!Put, Promise!Others, hands
  <2>3. QED
    BY <2>2 DEF Promise!Next
<1>7. CASE \E t \in Tab : /\ UNCHANGED <<recent, told>> /\ OtherHands(t)
                          /\ InHand(request'[t]) = <<>>
  <2>1. PICK t \in Tab : /\ UNCHANGED <<recent, told>> /\ OtherHands(t)
                         /\ InHand(request'[t]) = <<>>
    BY <1>7
  <2>2. Promise!GiveUp(t)
    BY <1>1, <1>2, <2>1 DEF Promise!GiveUp, Promise!Others, hands
  <2>3. QED
    BY <2>2 DEF Promise!Next
<1>8. QED
  BY <1>3, <1>4, <1>5, <1>6, <1>7, HandSteps

\* Recent keeps what RecentList promises: whatever the order in which the
\* answers of any number of tabs are applied, the list is always one that some
\* answer wrote by one change of the list it was sent with, newest first, each
\* repository once, and no more than Limit of them.
THEOREM PromiseIsKept == Spec => KeepsPromise
<1>1. Init => Promise!Init
  <2>1. SUFFICES ASSUME Init PROVE Promise!Init
    OBVIOUS
  <2>2. Ids(recent) = <<>>
    BY <2>1, EmptyIsGood DEF Init
  <2>3. \A t \in Tab : Ids(InHand(request[t])) = <<>>
    BY <2>1, IdleHand, EmptyIsGood DEF Init
  <2>4. QED
    BY <2>2, <2>3 DEF Promise!Init
<1>2. RInv /\ [Next]_vars => [Promise!Next]_<<Ids(recent), hands>>
  <2>1. CASE Next
    BY <2>1, StepKeepsPromise
  <2>2. CASE UNCHANGED vars
    BY <2>2 DEF vars, hands, Ids, InHand
  <2>3. QED
    BY <2>1, <2>2
<1>3. QED
  BY <1>1, <1>2, Holds, PTL DEF Spec, KeepsPromise, Promise!Spec, hands
=============================================================================
