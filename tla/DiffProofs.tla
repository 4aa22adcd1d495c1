----------------------------- MODULE DiffProofs -----------------------------
(***************************************************************************)
(* Diff, for every patch, of any number of files and rows, and for every   *)
(* budget: what of the reader's promises holds, and the promises of the    *)
(* page.                                                                   *)
(***************************************************************************)
EXTENDS Diff, FiniteSetTheorems, TLAPS

Status == {"modified", "added", "deleted", "renamed"}
Names == Path \cup {Foreign} \cup {SplitOld(a) : a \in Path}
           \cup {SplitNew(a, b) : a \in Path, b \in Path}

FileSet == [path : Names, oldPath : Names, status : Status, binary : BOOLEAN,
            additions : Nat, deletions : Nat, rows : Seq(RowType),
            collapsed : BOOLEAN, overBudget : BOOLEAN]
TruthSet == [old : Path, path : Path, status : Status, binary : BOOLEAN, body : BOOLEAN,
             rows : Seq(RowType)]
Numbers == [old : Nat, new : Nat]
ReaderSet == [files : Seq(FileSet), old : Nat, new : Nat]

Types ==
  /\ phase \in {"writing", "read", "shown"}
  /\ truth \in Seq(TruthSet) /\ at \in Numbers
  /\ patch \in Seq(FileSet) /\ lines \in Numbers
  /\ view \in [screen : {"commit", "compare"}, force : Path \cup {None}, expanded : BOOLEAN]

\* The counts of a file are those of its rows.
Counted(f) ==
  f.additions = CountOf(f.rows, "add") /\ f.deletions = CountOf(f.rows, "del")

\* What the reader made of the file t: nothing is shut yet, only a file with a
\* body has rows, and a file with plain rows is the one git wrote.
Match(t, f) ==
  /\ Counted(f) /\ ~f.collapsed /\ ~f.overBudget
  /\ f.binary = t.binary /\ ~(t.binary /\ t.body)
  /\ f.rows # <<>> => t.body
  /\ PlainRows(t) =>
       f.rows = t.rows /\ (f.path = t.path \/ (~NamedAgain(t) /\ t.old \in Spaced))

Matched ==
  phase # "shown" =>
    Len(patch) = Len(truth) /\ \A i \in 1..Len(patch) : Match(truth[i], patch[i])

\* In the body of a file with plain rows the reader counts with git.
Numbered ==
  phase = "writing" /\ truth # <<>> /\ Last(truth).rows # <<>> /\ PlainRows(Last(truth)) =>
    lines.old = at.old /\ lines.new = at.new

\* The page keeps its budget.
Kept == phase = "shown" => CountsAreRows /\ BudgetHolds /\ ExpandOpens

DInv == Types /\ Matched /\ Numbered /\ Kept

----------------------------------------------------------------------------
\* The files with the last of them made into g.
With(files, g) == [files EXCEPT ![Len(files)] = g]

LEMMA LastOf ==
  ASSUME NEW S, NEW s \in Seq(S), s # <<>>
  PROVE  Len(s) \in Nat /\ Len(s) \in 1..Len(s) /\ Last(s) = s[Len(s)] /\ Last(s) \in S
BY DEF Last

LEMMA WithLast ==
  ASSUME NEW S, NEW s \in Seq(S), s # <<>>, NEW g \in S
  PROVE  /\ With(s, g) \in Seq(S) /\ Len(With(s, g)) = Len(s) /\ With(s, g) # <<>>
         /\ Last(With(s, g)) = g
         /\ \A i \in 1..Len(s) : With(s, g)[i] = IF i = Len(s) THEN g ELSE s[i]
<1>1. Len(s) \in Nat /\ Len(s) \in 1..Len(s)
  BY LastOf
<1>2. With(s, g) \in Seq(S) /\ Len(With(s, g)) = Len(s)
  BY <1>1 DEF With
<1>3. \A i \in 1..Len(s) : With(s, g)[i] = IF i = Len(s) THEN g ELSE s[i]
  BY <1>1 DEF With
<1>4. With(s, g) # <<>>
  BY <1>1, <1>2
<1>5. Last(With(s, g)) = g
  BY <1>1, <1>2, <1>3 DEF Last
<1>6. QED
  BY <1>2, <1>3, <1>4, <1>5

\* How many rows of a kind there are, with one more of them.
LEMMA CountNone ==
  ASSUME NEW kind
  PROVE  CountOf(<<>>, kind) = 0
<1>1. {j \in DOMAIN <<>> : <<>>[j].kind = kind} = {}
  OBVIOUS
<1>2. QED
  BY <1>1, FS_EmptySet DEF CountOf

LEMMA CountMore ==
  ASSUME NEW rows \in Seq(RowType), NEW row \in RowType, NEW kind
  PROVE  /\ CountOf(rows, kind) \in Nat
         /\ CountOf(Append(rows, row), kind) =
              IF row.kind = kind THEN CountOf(rows, kind) + 1 ELSE CountOf(rows, kind)
<1> DEFINE n == Len(rows)
           R == Append(rows, row)
           A == {j \in DOMAIN rows : rows[j].kind = kind}
           B == {j \in DOMAIN R : R[j].kind = kind}
<1>1. n \in Nat /\ DOMAIN rows = 1..n /\ DOMAIN R = 1..(n + 1) /\ R[n + 1] = row
      /\ \A j \in 1..n : R[j] = rows[j]
  OBVIOUS
<1>2. IsFiniteSet(A)
  <2>1. IsFiniteSet(1..n)
    BY <1>1, FS_Interval
  <2>2. A \subseteq 1..n
    BY <1>1
  <2>3. QED
    BY <2>1, <2>2, FS_Subset
<1>3. Cardinality(A) \in Nat
  BY <1>2, FS_CardinalityType
<1>4. CASE row.kind = kind
  <2>1. B = A \cup {n + 1}
    BY <1>1, <1>4
  <2>2. n + 1 \notin A
    BY <1>1
  <2>3. Cardinality(B) = Cardinality(A) + 1
    BY <1>2, <2>1, <2>2, FS_AddElement
  <2>4. QED
    BY <1>3, <1>4, <2>3 DEF CountOf
<1>5. CASE row.kind # kind
  <2>1. B = A
    BY <1>1, <1>5
  <2>2. QED
    BY <1>3, <1>5, <2>1 DEF CountOf
<1>6. QED
  BY <1>4, <1>5

----------------------------------------------------------------------------
(***************************************************************************)
(* The lines in front of the hunks.                                        *)
(***************************************************************************)

\* The reader has the files of p and is reading g.
On(p, s, g) == p \in Seq(FileSet) /\ g \in FileSet /\ s \in ReaderSet /\ s.files = Append(p, g)

LEMMA OnLast ==
  ASSUME NEW p, NEW s, NEW g, On(p, s, g)
  PROVE  s.files # <<>> /\ Len(s.files) = Len(p) + 1 /\ Last(s.files) = g
BY DEF On, Last

LEMMA SetsOn ==
  ASSUME NEW p, NEW s, NEW g, On(p, s, g), NEW field, NEW value,
         [g EXCEPT ![field] = value] \in FileSet
  PROVE  On(p, Sets(s, field, value), [g EXCEPT ![field] = value])
<1> DEFINE h == [g EXCEPT ![field] = value]
           r == Sets(s, field, value)
           n == Len(p) + 1
<1>1. p \in Seq(FileSet) /\ s \in ReaderSet /\ s.files = Append(p, g)
  BY DEF On
<1>2. Len(p) \in Nat /\ Len(s.files) = n /\ s.files[n] = g /\ DOMAIN s.files = 1..n
  BY <1>1
<1>3. /\ r.files = [s.files EXCEPT ![n] = [@ EXCEPT ![field] = value]]
      /\ r.old = s.old /\ r.new = s.new /\ DOMAIN r = DOMAIN s
  BY <1>1, <1>2 DEF Sets, ReaderSet
<1>4. r.files = [s.files EXCEPT ![n] = h]
  BY <1>2, <1>3
<1> HIDE DEF h
<1>5. r.files = Append(p, h)
  <2>1. h \in FileSet
    BY DEF h
  <2>2. Append(p, h) \in Seq(FileSet) /\ Len(Append(p, h)) = n
        /\ \A i \in 1..n : Append(p, h)[i] = IF i = n THEN h ELSE p[i]
    BY <1>1, <1>2, <2>1
  <2>3. Append(p, g) \in Seq(FileSet) /\ \A i \in 1..n : Append(p, g)[i] = IF i = n THEN g ELSE p[i]
    BY <1>1, <1>2 DEF On
  <2>4. \A i \in 1..n : r.files[i] = Append(p, h)[i]
    BY <1>1, <1>2, <1>4, <2>2, <2>3
  <2>5. r.files \in Seq(FileSet) /\ Len(r.files) = n
    BY <1>1, <1>2, <1>4, <2>1, <2>3
  <2>6. QED
    BY <2>2, <2>4, <2>5
<1>6. r \in ReaderSet
  <2>1. Append(p, h) \in Seq(FileSet)
    BY <1>1 DEF h
  <2>2. r = [s EXCEPT !.files = r.files]
    BY <1>1 DEF Sets, ReaderSet
  <2> HIDE DEF r
  <2>3. QED
    BY <1>1, <1>5, <2>1, <2>2 DEF ReaderSet
<1>7. QED
  BY <1>1, <1>5, <1>6 DEF On, h

\* Nothing of a body was read, and nothing is decided about it.
Fresh(g) ==
  g.rows = <<>> /\ g.additions = 0 /\ g.deletions = 0 /\ ~g.collapsed /\ ~g.overBudget

LEMMA ReadGitOn ==
  ASSUME NEW s \in ReaderSet, NEW a \in Path, NEW b \in Path
  PROVE  /\ On(s.files, Read(s, Line("git", a, b)), NewFile(a, b))
         /\ Fresh(NewFile(a, b)) /\ NewFile(a, b).binary = FALSE
         /\ NewFile(a, b).path = SplitNew(a, b)
<1>1. NewFile(a, b) \in FileSet
  <2>1. SplitNew(a, b) \in Names /\ SplitOld(a) \in Names
    BY DEF Names
  <2>2. <<>> \in Seq(RowType)
    OBVIOUS
  <2>3. QED
    BY <2>1, <2>2 DEF NewFile, FileSet, Status
<1>2. Read(s, Line("git", a, b)) = [files |-> Append(s.files, NewFile(a, b)), old |-> 0, new |-> 0]
  BY DEF Read, Line
<1>3. s.files \in Seq(FileSet)
  BY DEF ReaderSet
<1>4. Fresh(NewFile(a, b)) /\ NewFile(a, b).binary = FALSE /\ NewFile(a, b).path = SplitNew(a, b)
  BY DEF Fresh, NewFile
<1> HIDE DEF NewFile
<1>5. QED
  BY <1>1, <1>2, <1>3, <1>4 DEF On, ReaderSet

\* What a line in front of the hunks may change of a file.
LEMMA SetPath ==
  ASSUME NEW p, NEW s, NEW g, On(p, s, g), Fresh(g), NEW x \in Names
  PROVE  \E h : /\ On(p, Sets(s, "path", x), h) /\ Fresh(h)
                /\ h.path = x /\ h.binary = g.binary
<1> DEFINE h == [g EXCEPT !["path"] = x]
<1>1. g \in FileSet
  BY DEF On
<1>2. h \in FileSet /\ Fresh(h) /\ h.path = x /\ h.binary = g.binary
  BY <1>1 DEF FileSet, Fresh
<1>3. On(p, Sets(s, "path", x), h)
  BY <1>2, SetsOn
<1>4. QED
  BY <1>2, <1>3

LEMMA SetOldPath ==
  ASSUME NEW p, NEW s, NEW g, On(p, s, g), Fresh(g), NEW x \in Names
  PROVE  \E h : /\ On(p, Sets(s, "oldPath", x), h) /\ Fresh(h)
                /\ h.path = g.path /\ h.binary = g.binary
<1> DEFINE h == [g EXCEPT !["oldPath"] = x]
<1>1. g \in FileSet
  BY DEF On
<1>2. h \in FileSet /\ Fresh(h) /\ h.path = g.path /\ h.binary = g.binary
  BY <1>1 DEF FileSet, Fresh
<1>3. On(p, Sets(s, "oldPath", x), h)
  BY <1>2, SetsOn
<1>4. QED
  BY <1>2, <1>3

LEMMA SetStatus ==
  ASSUME NEW p, NEW s, NEW g, On(p, s, g), Fresh(g), NEW x \in Status
  PROVE  \E h : /\ On(p, Sets(s, "status", x), h) /\ Fresh(h)
                /\ h.path = g.path /\ h.binary = g.binary
<1> DEFINE h == [g EXCEPT !["status"] = x]
<1>1. g \in FileSet
  BY DEF On
<1>2. h \in FileSet /\ Fresh(h) /\ h.path = g.path /\ h.binary = g.binary
  BY <1>1 DEF FileSet, Fresh
<1>3. On(p, Sets(s, "status", x), h)
  BY <1>2, SetsOn
<1>4. QED
  BY <1>2, <1>3

LEMMA SetBinary ==
  ASSUME NEW p, NEW s, NEW g, On(p, s, g), Fresh(g)
  PROVE  \E h : /\ On(p, Sets(s, "binary", TRUE), h) /\ Fresh(h)
                /\ h.path = g.path /\ h.binary
<1> DEFINE h == [g EXCEPT !["binary"] = TRUE]
<1>1. g \in FileSet
  BY DEF On
<1>2. h \in FileSet /\ Fresh(h) /\ h.path = g.path /\ h.binary
  BY <1>1 DEF FileSet, Fresh
<1>3. On(p, Sets(s, "binary", TRUE), h)
  BY <1>2, SetsOn
<1>4. QED
  BY <1>2, <1>3

LEMMA ReadStatusOn ==
  ASSUME NEW p, NEW s, NEW g, On(p, s, g), Fresh(g), NEW f \in TruthSet
  PROVE  \E h : /\ On(p, ReadStatus(s, f), h) /\ Fresh(h) /\ h.binary = g.binary
                /\ h.path = IF f.status = "renamed" THEN f.path ELSE g.path
<1>1. f.path \in Names /\ f.old \in Names /\ f.status \in Status
  BY DEF TruthSet, Names
<1>2. s.files # <<>>
  BY OnLast
<1>3. g \in FileSet
  BY DEF On
<1>4. CASE f.status = "modified"
  BY <1>4 DEF ReadStatus
<1>5. CASE f.status \in {"added", "deleted"}
  <2>1. ReadStatus(s, f) = Sets(s, "status", f.status)
    BY <1>2, <1>5 DEF ReadStatus, Read, Line
  <2>2. QED
    BY <1>1, <1>5, <2>1, SetStatus
<1>6. CASE f.status = "renamed"
  <2> DEFINE s1 == Sets(s, "oldPath", f.old)
             s2 == Sets(s1, "status", "renamed")
             s3 == Sets(s2, "path", f.path)
             s4 == Sets(s3, "status", "renamed")
  <2>1. "renamed" \in Status
    BY DEF Status
  <2>2. PICK g1 : On(p, s1, g1) /\ Fresh(g1) /\ g1.binary = g.binary
    BY <1>1, SetOldPath
  <2>3. ReadStatus(s, f) = Read(Read(s, Line("from", f.old, None)), Line("to", f.path, None))
    BY <1>6 DEF ReadStatus
  <2>4. Read(s, Line("from", f.old, None)) = s2
    BY <1>2 DEF Read, Line
  <2> HIDE DEF s1
  <2>5. PICK g2 : On(p, s2, g2) /\ Fresh(g2) /\ g2.binary = g.binary
    BY <2>1, <2>2, SetStatus
  <2> HIDE DEF s2
  <2>6. PICK g3 : On(p, s3, g3) /\ Fresh(g3) /\ g3.binary = g.binary /\ g3.path = f.path
    BY <1>1, <2>5, SetPath
  <2>7. s2.files # <<>>
    BY <2>5, OnLast
  <2>8. Read(s2, Line("to", f.path, None)) = s4
    BY <2>7 DEF Read, Line
  <2> HIDE DEF s3
  <2>9. PICK g4 : On(p, s4, g4) /\ Fresh(g4) /\ g4.binary = g.binary /\ g4.path = f.path
    BY <2>1, <2>6, SetStatus
  <2>10. QED
    BY <1>6, <2>3, <2>4, <2>8, <2>9
<1>7. QED
  BY <1>1, <1>4, <1>5, <1>6 DEF Status

LEMMA ReadBinaryOn ==
  ASSUME NEW p, NEW s, NEW g, On(p, s, g), Fresh(g), ~g.binary, NEW f \in TruthSet
  PROVE  \E h : /\ On(p, ReadBinary(s, f), h) /\ Fresh(h) /\ h.path = g.path
                /\ h.binary <=> f.binary
<1>1. s.files # <<>>
  BY OnLast
<1>2. CASE f.binary
  <2>1. ReadBinary(s, f) = Sets(s, "binary", TRUE)
    BY <1>1, <1>2 DEF ReadBinary, Read, Line
  <2>2. PICK h : On(p, ReadBinary(s, f), h) /\ Fresh(h) /\ h.path = g.path /\ h.binary
    BY <2>1, SetBinary
  <2>3. QED
    BY <1>2, <2>2
<1>3. CASE ~f.binary
  <2>1. ReadBinary(s, f) = s
    BY <1>3 DEF ReadBinary
  <2>2. QED
    BY <1>3, <2>1
<1>4. QED
  BY <1>2, <1>3

\* One of the two lines that name the sides; git's name for no file is passed over.
LEMMA ReadSideOn ==
  ASSUME NEW p, NEW s, NEW g, On(p, s, g), Fresh(g), NEW x \in Path \cup {None},
         NEW is \in {"---", "+++"}
  PROVE  \E h : /\ On(p, Read(s, Line(is, x, None)), h) /\ Fresh(h) /\ h.binary = g.binary
                /\ h.path = IF is = "+++" /\ x # None THEN x ELSE g.path
<1>1. s.files # <<>> /\ g \in FileSet
  BY OnLast DEF On
<1>2. CASE x = None
  <2>1. Read(s, Line(is, x, None)) = s
    BY <1>1, <1>2 DEF Read, Line
  <2>2. QED
    BY <1>2, <2>1
<1>3. CASE x # None
  <2>1. x \in Names
    BY <1>3 DEF Names
  <2>2. CASE is = "---"
    <3>1. Read(s, Line(is, x, None)) = Sets(s, "oldPath", x)
      BY <1>1, <1>3, <2>2 DEF Read, Line
    <3>2. QED
      BY <2>1, <2>2, <3>1, SetOldPath
  <2>3. CASE is = "+++"
    <3>1. Read(s, Line(is, x, None)) = Sets(s, "path", x)
      BY <1>1, <1>3, <2>3 DEF Read, Line
    <3>2. QED
      BY <1>3, <2>1, <2>3, <3>1, SetPath
  <2>4. QED
    BY <2>2, <2>3
<1>4. QED
  BY <1>2, <1>3

LEMMA ReadSidesOn ==
  ASSUME NEW p, NEW s, NEW g, On(p, s, g), Fresh(g), NEW f \in TruthSet
  PROVE  \E h : /\ On(p, ReadSides(s, f), h) /\ Fresh(h) /\ h.binary = g.binary
                /\ h.path = IF f.body /\ f.status # "deleted" THEN f.path ELSE g.path
<1>1. f.body \in BOOLEAN /\ f.path \in Path /\ f.old \in Path /\ f.path # None
  BY DiffAssumption DEF TruthSet
<1>2. CASE ~f.body
  BY <1>2 DEF ReadSides
<1>3. CASE f.body
  <2>1. PICK x \in Path \cup {None} : x = IF f.status = "added" THEN None ELSE f.old
    BY <1>1
  <2>2. PICK y \in Path \cup {None} : y = IF f.status = "deleted" THEN None ELSE f.path
    BY <1>1
  <2>3. ReadSides(s, f) = Read(Read(s, Line("---", x, None)), Line("+++", y, None))
    BY <1>3, <2>1, <2>2 DEF ReadSides
  <2>4. PICK h1 : /\ On(p, Read(s, Line("---", x, None)), h1) /\ Fresh(h1)
                  /\ h1.binary = g.binary /\ h1.path = g.path
    BY ReadSideOn
  <2>5. PICK h2 : /\ On(p, Read(Read(s, Line("---", x, None)), Line("+++", y, None)), h2)
                  /\ Fresh(h2) /\ h2.binary = h1.binary
                  /\ h2.path = IF y # None THEN y ELSE h1.path
    BY <2>4, ReadSideOn
  <2>6. QED
    BY <1>1, <1>3, <2>2, <2>3, <2>4, <2>5
<1>4. QED
  BY <1>2, <1>3

\* A file's header: its path is told unless only the first line tells it.
LEMMA ReadHeaderOn ==
  ASSUME NEW s \in ReaderSet, NEW f \in TruthSet
  PROVE  \E h : /\ On(s.files, ReadHeader(s, f), h) /\ Fresh(h) /\ h.binary = f.binary
                /\ h.path = IF NamedAgain(f) THEN f.path ELSE SplitNew(f.old, f.path)
<1> DEFINE p == s.files
           s1 == Read(s, Line("git", f.old, f.path))
           s2 == ReadStatus(s1, f)
           s3 == ReadBinary(s2, f)
<1>0. f.old \in Path /\ f.path \in Path
  BY DEF TruthSet
<1>1. PICK g1 : /\ On(p, s1, g1) /\ Fresh(g1) /\ g1.binary = FALSE
                /\ g1.path = SplitNew(f.old, f.path)
  BY <1>0, ReadGitOn
<1> HIDE DEF s1
<1>2. PICK g2 : /\ On(p, s2, g2) /\ Fresh(g2) /\ ~g2.binary
                /\ g2.path = IF f.status = "renamed" THEN f.path ELSE g1.path
  BY <1>1, ReadStatusOn
<1> HIDE DEF s2
<1>3. PICK g3 : /\ On(p, s3, g3) /\ Fresh(g3) /\ g3.path = g2.path
                /\ g3.binary <=> f.binary
  BY <1>2, ReadBinaryOn
<1> HIDE DEF s3
<1>4. PICK g4 : /\ On(p, ReadSides(s3, f), g4) /\ Fresh(g4) /\ g4.binary = g3.binary
                /\ g4.path = IF f.body /\ f.status # "deleted" THEN f.path ELSE g3.path
  BY <1>3, ReadSidesOn
<1>5. ReadHeader(s, f) = ReadSides(s3, f)
  BY DEF ReadHeader, s1, s2, s3
<1>6. g4.binary = f.binary
  BY <1>3, <1>4 DEF TruthSet, On, FileSet
<1>7. QED
  BY <1>1, <1>2, <1>4, <1>3, <1>5, <1>6 DEF NamedAgain

----------------------------------------------------------------------------
(***************************************************************************)
(* The rows of a body.                                                     *)
(***************************************************************************)
LEMMA WithTwice ==
  ASSUME NEW S, NEW s \in Seq(S), s # <<>>, NEW g \in S, NEW h \in S
  PROVE  With(With(s, g), h) = With(s, h) /\ With(s, Last(s)) = s
<1>1. Len(s) \in Nat /\ Len(s) \in 1..Len(s) /\ DOMAIN s = 1..Len(s)
  BY LastOf
<1>2. Len(With(s, g)) = Len(s)
  BY WithLast
<1>3. With(With(s, g), h) = [With(s, g) EXCEPT ![Len(s)] = h]
  BY <1>2 DEF With
<1>4. With(With(s, g), h) = With(s, h)
  <2>1. [[s EXCEPT ![Len(s)] = g] EXCEPT ![Len(s)] = h] = [s EXCEPT ![Len(s)] = h]
    BY <1>1
  <2>2. QED
    BY <1>3, <2>1 DEF With
<1>5. With(s, Last(s)) = s
  <2>1. \A i \in 1..Len(s) : With(s, Last(s))[i] = s[i]
    BY <1>1 DEF With, Last
  <2>2. With(s, Last(s)) \in Seq(S) /\ Len(With(s, Last(s))) = Len(s)
    BY LastOf, WithLast
  <2>3. QED
    BY <2>1, <2>2
<1>6. QED
  BY <1>4, <1>5

LEMMA AddsRow ==
  ASSUME NEW s \in ReaderSet, s.files # <<>>, NEW row \in RowType, NEW old \in Nat, NEW new \in Nat
  PROVE  LET r == Adds(s, row, old, new)
             f == Last(s.files)
             g == [f EXCEPT !.rows = Append(@, row)] IN
         /\ r \in ReaderSet /\ g \in FileSet /\ r.files = With(s.files, g)
         /\ r.old = s.old + old /\ r.new = s.new + new
<1> DEFINE r == Adds(s, row, old, new)
           f == Last(s.files)
           g == [f EXCEPT !.rows = Append(@, row)]
           n == Len(s.files)
<1>1. s.files \in Seq(FileSet) /\ s.old \in Nat /\ s.new \in Nat
  BY DEF ReaderSet
<1>2. n \in Nat /\ n \in 1..n /\ f = s.files[n] /\ f \in FileSet /\ DOMAIN s.files = 1..n
  BY <1>1, LastOf
<1>3. g \in FileSet
  <2>1. f.rows \in Seq(RowType)
    BY <1>2 DEF FileSet
  <2>2. Append(f.rows, row) \in Seq(RowType)
    BY <2>1
  <2>3. QED
    BY <1>2, <2>2 DEF FileSet
<1>4. r.files = [s.files EXCEPT ![n].rows = Append(@, row)]
      /\ r.old = s.old + old /\ r.new = s.new + new
      /\ r = [files |-> r.files, old |-> r.old, new |-> r.new]
  BY DEF Adds
<1>5. r.files = With(s.files, g)
  BY <1>2, <1>4 DEF With
<1> HIDE DEF r, g, f
<1>6. With(s.files, g) \in Seq(FileSet)
  BY <1>1, <1>3, WithLast
<1>7. r \in ReaderSet
  BY <1>1, <1>4, <1>5, <1>6 DEF ReaderSet
<1>8. QED
  BY <1>3, <1>4, <1>5, <1>7 DEF r, g, f

LEMMA CountsSide ==
  ASSUME NEW s \in ReaderSet, s.files # <<>>, NEW side \in {"additions", "deletions"}
  PROVE  LET r == Counts(s, side)
             f == Last(s.files)
             g == [f EXCEPT ![side] = @ + 1] IN
         /\ r \in ReaderSet /\ g \in FileSet /\ r.files = With(s.files, g)
         /\ r.old = s.old /\ r.new = s.new
<1> DEFINE r == Counts(s, side)
           f == Last(s.files)
           g == [f EXCEPT ![side] = @ + 1]
           n == Len(s.files)
<1>1. s.files \in Seq(FileSet) /\ s.old \in Nat /\ s.new \in Nat
  BY DEF ReaderSet
<1>2. n \in Nat /\ n \in 1..n /\ f = s.files[n] /\ f \in FileSet /\ DOMAIN s.files = 1..n
  BY <1>1, LastOf
<1>3. g \in FileSet
  BY <1>2 DEF FileSet
<1>4. r.files = [s.files EXCEPT ![n][side] = @ + 1] /\ r.old = s.old /\ r.new = s.new
      /\ r = [s EXCEPT !.files = r.files]
  BY DEF Counts, ReaderSet
<1>5. r.files = With(s.files, g)
  BY <1>2, <1>4 DEF With
<1> HIDE DEF r, g, f
<1>6. With(s.files, g) \in Seq(FileSet)
  BY <1>1, <1>3, WithLast
<1>7. r \in ReaderSet
  BY <1>1, <1>4, <1>5, <1>6 DEF ReaderSet
<1>8. QED
  BY <1>3, <1>4, <1>5, <1>7 DEF r, g, f

\* g is f with one row more, counted.
Extends(f, g, row) ==
  /\ g \in FileSet /\ g.path = f.path /\ g.oldPath = f.oldPath
  /\ g.status = f.status /\ g.binary = f.binary
  /\ g.collapsed = f.collapsed /\ g.overBudget = f.overBudget
  /\ g.rows = Append(f.rows, row)
  /\ g.additions = (IF row.kind = "add" THEN f.additions + 1 ELSE f.additions)
  /\ g.deletions = (IF row.kind = "del" THEN f.deletions + 1 ELSE f.deletions)

\* The reader goes from s to r by one row.
Further(s, r, row, old, new) ==
  /\ r \in ReaderSet
  /\ \E g : Extends(Last(s.files), g, row) /\ r.files = With(s.files, g)
  /\ r.old = s.old + old /\ r.new = s.new + new

LEMMA AddsFurther ==
  ASSUME NEW s \in ReaderSet, s.files # <<>>, NEW row \in RowType, row.kind \notin {"add", "del"},
         NEW old \in Nat, NEW new \in Nat
  PROVE  Further(s, Adds(s, row, old, new), row, old, new)
<1> DEFINE r == Adds(s, row, old, new)
           f == Last(s.files)
           g == [f EXCEPT !.rows = Append(@, row)]
<1>1. /\ r \in ReaderSet /\ g \in FileSet /\ r.files = With(s.files, g)
      /\ r.old = s.old + old /\ r.new = s.new + new
  BY AddsRow
<1>2. f \in FileSet
  BY LastOf DEF ReaderSet
<1>3. Extends(f, g, row)
  BY <1>1, <1>2 DEF Extends, FileSet
<1> HIDE DEF r, g
<1>4. QED
  BY <1>1, <1>3 DEF Further, r

LEMMA CountsFurther ==
  ASSUME NEW s \in ReaderSet, s.files # <<>>, NEW row \in RowType,
         NEW side \in {"additions", "deletions"},
         row.kind = IF side = "additions" THEN "add" ELSE "del",
         NEW old \in Nat, NEW new \in Nat
  PROVE  Further(s, Adds(Counts(s, side), row, old, new), row, old, new)
<1> DEFINE t == Counts(s, side)
           r == Adds(t, row, old, new)
           f == Last(s.files)
           h == [f EXCEPT ![side] = @ + 1]
           g == [h EXCEPT !.rows = Append(@, row)]
<1>1. t \in ReaderSet /\ h \in FileSet /\ t.files = With(s.files, h)
      /\ t.old = s.old /\ t.new = s.new
  BY CountsSide
<1>2. s.files \in Seq(FileSet) /\ f \in FileSet
  BY LastOf DEF ReaderSet
<1> HIDE DEF t
<1>3. t.files # <<>> /\ Last(t.files) = h
  BY <1>1, <1>2, WithLast
<1>4. r \in ReaderSet /\ g \in FileSet /\ r.files = With(t.files, g)
      /\ r.old = t.old + old /\ r.new = t.new + new
  <2>1. LET k == [Last(t.files) EXCEPT !.rows = Append(@, row)] IN
        r \in ReaderSet /\ k \in FileSet /\ r.files = With(t.files, k)
        /\ r.old = t.old + old /\ r.new = t.new + new
    BY <1>1, <1>3, AddsRow
  <2>2. QED
    BY <1>3, <2>1
<1>5. With(t.files, g) = With(s.files, g)
  <2> HIDE DEF g, h
  <2>1. QED
    BY <1>1, <1>2, <1>4, WithTwice
<1>6. Extends(f, g, row)
  BY <1>2, <1>4 DEF Extends, FileSet
<1> HIDE DEF r, g, h
<1>7. QED
  BY <1>1, <1>4, <1>5, <1>6 DEF Further, r, t

\* A row that is counted, of a file that was.
LEMMA ExtendsCounted ==
  ASSUME NEW f \in FileSet, NEW row \in RowType, NEW g, Extends(f, g, row), Counted(f)
  PROVE  Counted(g)
<1>1. f.rows \in Seq(RowType)
  BY DEF FileSet
<1>2. QED
  BY <1>1, CountMore DEF Counted, Extends

\* The row a line of a body makes, and how far it moves the numbers.
RowAt(old, new, kind, text) ==
  Row(kind, IF kind \in {"context", "del"} THEN old ELSE 0,
            IF kind \in {"context", "add"} THEN new ELSE 0, text)
OldStep(kind) == IF kind \in {"context", "del"} THEN 1 ELSE 0
NewStep(kind) == IF kind \in {"context", "add"} THEN 1 ELSE 0

\* A line of a body that does not look like a header makes its row.
LEMMA ReadPlain ==
  ASSUME NEW s \in ReaderSet, s.files # <<>>, Last(s.files).rows # <<>>,
         NEW kind \in {"context", "add", "del", "note"}, NEW text \in TextKind,
         RowLine(kind, text).is \notin {"---", "+++"}
  PROVE  Further(s, Read(s, RowLine(kind, text)), RowAt(s.old, s.new, kind, text),
                 OldStep(kind), NewStep(kind))
<1> DEFINE row == RowAt(s.old, s.new, kind, text)
           l == RowLine(kind, text)
<1>1. row \in RowType /\ row.kind = kind
  <2>1. s.old \in Nat /\ s.new \in Nat
    BY DEF ReaderSet
  <2>2. QED
    BY <2>1 DEF RowAt, Row, RowType
<1>2. Read(s, l) = BodyLine(s, l) /\ l.a = text
      /\ l.is = (CASE kind = "add" -> "+" [] kind = "del" -> "-" [] kind = "note" -> "\\"
                   [] kind = "context" -> " ")
  <2>1. l.a = text
        /\ l.is = (CASE kind = "add" -> "+" [] kind = "del" -> "-" [] kind = "note" -> "\\"
                     [] kind = "context" -> " ")
    BY DEF RowLine, Line
  <2>2. l.is \in {"+", "-", "\\", " "}
    BY <2>1
  <2> HIDE DEF l
  <2>3. Read(s, l) = BodyLine(s, l)
    BY <2>2 DEF Read
  <2>4. QED
    BY <2>1, <2>3
<1> HIDE DEF l
<1>3. CASE kind = "add"
  <2>1. BodyLine(s, l) = Adds(Counts(s, "additions"), Row("add", 0, s.new, text), 0, 1)
    BY <1>2, <1>3 DEF BodyLine, AddedRow, Counts
  <2>2. row = Row("add", 0, s.new, text) /\ OldStep(kind) = 0 /\ NewStep(kind) = 1
    BY <1>3 DEF RowAt, OldStep, NewStep
  <2>3. Further(s, Adds(Counts(s, "additions"), row, 0, 1), row, 0, 1)
    BY <1>1, <1>3, CountsFurther
  <2>4. QED
    BY <1>2, <2>1, <2>2, <2>3 DEF l
<1>4. CASE kind = "del"
  <2>1. BodyLine(s, l) = Adds(Counts(s, "deletions"), Row("del", s.old, 0, text), 1, 0)
    BY <1>2, <1>4 DEF BodyLine, RemovedRow, Counts
  <2>2. row = Row("del", s.old, 0, text) /\ OldStep(kind) = 1 /\ NewStep(kind) = 0
    BY <1>4 DEF RowAt, OldStep, NewStep
  <2>3. Further(s, Adds(Counts(s, "deletions"), row, 1, 0), row, 1, 0)
    BY <1>1, <1>4, CountsFurther
  <2>4. QED
    BY <1>2, <2>1, <2>2, <2>3 DEF l
<1>5. CASE kind = "note"
  <2>1. BodyLine(s, l) = Adds(s, Row("note", 0, 0, text), 0, 0)
    BY <1>2, <1>5 DEF BodyLine
  <2>2. row = Row("note", 0, 0, text) /\ OldStep(kind) = 0 /\ NewStep(kind) = 0
    BY <1>5 DEF RowAt, OldStep, NewStep
  <2>3. Further(s, Adds(s, row, 0, 0), row, 0, 0)
    BY <1>1, <1>5, AddsFurther
  <2>4. QED
    BY <1>2, <2>1, <2>2, <2>3 DEF l
<1>6. CASE kind = "context"
  <2>1. BodyLine(s, l) = Adds(s, Row("context", s.old, s.new, text), 1, 1)
    BY <1>2, <1>6 DEF BodyLine, ContextRow
  <2>2. row = Row("context", s.old, s.new, text) /\ OldStep(kind) = 1 /\ NewStep(kind) = 1
    BY <1>6 DEF RowAt, OldStep, NewStep
  <2>3. Further(s, Adds(s, row, 1, 1), row, 1, 1)
    BY <1>1, <1>6, AddsFurther
  <2>4. QED
    BY <1>2, <2>1, <2>2, <2>3 DEF l
<1>7. QED
  BY <1>3, <1>4, <1>5, <1>6

\* g is f, its rows and its counts as they were; the paths may be others.
Alike(f, g) ==
  /\ g \in FileSet /\ g.binary = f.binary
  /\ g.collapsed = f.collapsed /\ g.overBudget = f.overBudget
  /\ g.rows = f.rows /\ g.additions = f.additions /\ g.deletions = f.deletions

LEMMA SetsAlike ==
  ASSUME NEW s \in ReaderSet, s.files # <<>>, NEW field \in {"path", "oldPath"}, NEW x \in Names
  PROVE  /\ Sets(s, field, x) \in ReaderSet
         /\ \E g : Alike(Last(s.files), g) /\ Sets(s, field, x).files = With(s.files, g)
<1> DEFINE r == Sets(s, field, x)
           f == Last(s.files)
           g == [f EXCEPT ![field] = x]
           n == Len(s.files)
<1>1. s.files \in Seq(FileSet)
  BY DEF ReaderSet
<1>2. n \in Nat /\ n \in 1..n /\ f = s.files[n] /\ f \in FileSet /\ DOMAIN s.files = 1..n
  BY <1>1, LastOf
<1>3. g \in FileSet /\ Alike(f, g)
  BY <1>2 DEF FileSet, Alike
<1>4. r.files = [s.files EXCEPT ![n][field] = x] /\ r = [s EXCEPT !.files = r.files]
  BY DEF Sets, ReaderSet
<1>5. r.files = With(s.files, g)
  BY <1>2, <1>4 DEF With
<1> HIDE DEF r, g, f
<1>6. With(s.files, g) \in Seq(FileSet)
  BY <1>1, <1>3, WithLast
<1>7. r \in ReaderSet
  BY <1>4, <1>5, <1>6 DEF ReaderSet
<1>8. QED
  BY <1>3, <1>5, <1>7 DEF r, g, f

\* A line of a body that looks like a header makes none, whatever it does to
\* the paths; neither does one in front of the first hunk.
LEMMA ReadOther ==
  ASSUME NEW s \in ReaderSet, s.files # <<>>,
         NEW kind \in {"context", "add", "del", "note"}, NEW text \in TextKind,
         RowLine(kind, text).is \in {"---", "+++"} \/ Last(s.files).rows = <<>>
  PROVE  /\ Read(s, RowLine(kind, text)) \in ReaderSet
         /\ \E g : /\ Alike(Last(s.files), g)
                   /\ Read(s, RowLine(kind, text)).files = With(s.files, g)
<1> DEFINE l == RowLine(kind, text)
<1>1. s.files \in Seq(FileSet) /\ Last(s.files) \in FileSet
  BY LastOf DEF ReaderSet
<1>2. ASSUME Read(s, l) = s
      PROVE  /\ Read(s, l) \in ReaderSet
             /\ \E g : Alike(Last(s.files), g) /\ Read(s, l).files = With(s.files, g)
  <2>1. With(s.files, Last(s.files)) = s.files
    BY <1>1, WithTwice
  <2>2. Alike(Last(s.files), Last(s.files))
    BY <1>1 DEF Alike
  <2>3. QED
    BY <1>2, <2>1, <2>2
<1>3. l.is \in {"---", "+++"} => l.a = Foreign
  BY DEF RowLine, Line
<1>4. l.is \in {"---", "+++", "+", "-", "\\", " "}
  BY DEF RowLine, Line
<1> HIDE DEF l
<1>5. CASE l.is \in {"---", "+++"} /\ Foreign = None
  <2>1. Read(s, l) = s
    BY <1>3, <1>5 DEF Read
  <2>2. QED
    BY <1>2, <2>1 DEF l
<1>6. CASE l.is \in {"---", "+++"} /\ Foreign # None
  <2>1. Foreign \in Names
    BY DEF Names
  <2>2. \/ Read(s, l) = Sets(s, "oldPath", Foreign)
        \/ Read(s, l) = Sets(s, "path", Foreign)
    BY <1>3, <1>6 DEF Read
  <2>3. QED
    BY <2>1, <2>2, SetsAlike DEF l
<1>7. CASE l.is \notin {"---", "+++"}
  <2>1. Last(s.files).rows = <<>>
    BY <1>7 DEF l
  <2>2. Read(s, l) = s
    BY <1>4, <1>7, <2>1 DEF Read
  <2>3. QED
    BY <1>2, <2>2 DEF l
<1>8. QED
  BY <1>5, <1>6, <1>7

\* A hunk line makes its row, and sets the numbers.
LEMMA ReadHunk ==
  ASSUME NEW s \in ReaderSet, s.files # <<>>, NEW o \in Nat, NEW n \in Nat
  PROVE  /\ Read(s, Line("@@", o, n)) \in ReaderSet
         /\ Read(s, Line("@@", o, n)).old = o /\ Read(s, Line("@@", o, n)).new = n
         /\ \E g : /\ Extends(Last(s.files), g, Row("hunk", 0, 0, "words"))
                   /\ Read(s, Line("@@", o, n)).files = With(s.files, g)
<1> DEFINE row == Row("hunk", 0, 0, "words")
           t == Adds(s, row, 0, 0)
           r == Read(s, Line("@@", o, n))
<1>1. row \in RowType /\ row.kind = "hunk"
  BY DEF Row, RowType, TextKind
<1> HIDE DEF row
<1>2. Further(s, t, row, 0, 0)
  BY <1>1, AddsFurther
<1>3. r = [t EXCEPT !.old = o, !.new = n]
  BY DEF Read, Line, row
<1> HIDE DEF t, r
<1>4. t \in ReaderSet
  BY <1>2 DEF Further
<1>5. r \in ReaderSet /\ r.old = o /\ r.new = n /\ r.files = t.files
  BY <1>3, <1>4 DEF ReaderSet
<1>6. QED
  BY <1>2, <1>5 DEF Further, r, row

\* The line behind the last newline makes a row that is taken away again.
LEMMA ReadEnd ==
  ASSUME NEW s \in ReaderSet
  PROVE  LET r == Read(s, Line("", "empty", None)) IN
         r \in ReaderSet /\ Trimmed(r.files) = s.files
<1> DEFINE l == Line("", "empty", None)
           r == Read(s, l)
<1>0. s.files \in Seq(FileSet)
  BY DEF ReaderSet
<1>1. CASE s.files = <<>> \/ Last(s.files).rows = <<>>
  <2>1. r = s
    BY <1>1 DEF Read, Line
  <2>2. Trimmed(s.files) = s.files
    BY <1>1 DEF Trimmed
  <2>3. QED
    BY <2>1, <2>2
<1>2. CASE s.files # <<>> /\ Last(s.files).rows # <<>>
  <2> DEFINE row == Row("context", s.old, s.new, "empty")
             f == Last(s.files)
  <2>1. r = Adds(s, row, 1, 1)
    BY <1>2 DEF Read, Line, BodyLine, ContextRow
  <2>2. row \in RowType /\ row.kind = "context" /\ row.text = "empty"
    BY DEF Row, RowType, TextKind, ReaderSet
  <2>3. f \in FileSet
    BY <1>0, <1>2, LastOf
  <2> HIDE DEF l, row, f
  <2>4. Further(s, r, row, 1, 1)
    BY <1>2, <2>1, <2>2, AddsFurther
  <2>5. PICK g : Extends(f, g, row) /\ r.files = With(s.files, g)
    BY <2>4 DEF Further, f
  <2>6. r.files # <<>> /\ Last(r.files) = g /\ g \in FileSet
    BY <1>0, <1>2, <2>5, WithLast DEF Extends
  <2>7. /\ g.rows # <<>> /\ Last(g.rows) = row
        /\ SubSeq(g.rows, 1, Len(g.rows) - 1) = f.rows
    <3>1. f.rows \in Seq(RowType) /\ g.rows = Append(f.rows, row)
      BY <2>3, <2>5 DEF FileSet, Extends
    <3>2. QED
      BY <2>2, <3>1 DEF Last
  <2>8. Trimmed(r.files) = [r.files EXCEPT ![Len(r.files)].rows = SubSeq(@, 1, Len(@) - 1)]
    BY <2>2, <2>6, <2>7 DEF Trimmed
  <2>9. Trimmed(r.files) = With(r.files, [g EXCEPT !.rows = SubSeq(@, 1, Len(@) - 1)])
    <3>1. r.files[Len(r.files)] = g
      BY <2>6 DEF Last
    <3>2. QED
      BY <2>8, <3>1 DEF With
  <2>10. [g EXCEPT !.rows = SubSeq(@, 1, Len(@) - 1)] = f
    <3>1. /\ g.path = f.path /\ g.oldPath = f.oldPath /\ g.status = f.status
          /\ g.binary = f.binary /\ g.collapsed = f.collapsed /\ g.overBudget = f.overBudget
          /\ g.additions = f.additions /\ g.deletions = f.deletions
      BY <2>2, <2>5 DEF Extends
    <3>2. [g EXCEPT !.rows = f.rows] = f
      BY <2>3, <2>6, <3>1 DEF FileSet
    <3>3. [g EXCEPT !.rows = SubSeq(@, 1, Len(@) - 1)] = [g EXCEPT !.rows = f.rows]
      BY <2>7
    <3>4. QED
      BY <3>2, <3>3
  <2>11. With(r.files, f) = s.files
    BY <1>0, <1>2, <2>3, <2>5, <2>6, WithTwice DEF f
  <2>12. r \in ReaderSet
    BY <2>4 DEF Further
  <2>13. QED
    BY <2>9, <2>10, <2>11, <2>12 DEF l
<1>3. QED
  BY <1>1, <1>2

----------------------------------------------------------------------------
(***************************************************************************)
(* What git wrote, next to what the reader made of it.                     *)
(***************************************************************************)

\* The file t of git with one row more.
Longer(t, row) == [t EXCEPT !.rows = Append(@, row)]

LEMMA TruthLonger ==
  ASSUME NEW ts \in Seq(TruthSet), ts # <<>>, NEW row \in RowType
  PROVE  /\ Longer(Last(ts), row) \in TruthSet
         /\ Longer(Last(ts), row).rows = Append(Last(ts).rows, row)
         /\ [ts EXCEPT ![Len(ts)].rows = Append(@, row)] = With(ts, Longer(Last(ts), row))
<1> DEFINE t == Last(ts)
           u == Longer(t, row)
<1>1. t \in TruthSet /\ t = ts[Len(ts)]
  BY LastOf
<1>2. Append(t.rows, row) \in Seq(RowType)
  BY <1>1 DEF TruthSet
<1>3. u \in TruthSet /\ u.rows = Append(t.rows, row)
  BY <1>1, <1>2 DEF TruthSet, Longer
<1>4. [ts EXCEPT ![Len(ts)].rows = Append(@, row)] = With(ts, u)
  BY <1>1 DEF With, Longer
<1>5. QED
  BY <1>3, <1>4

\* A file whose rows are plain with one more was one with plain rows.
LEMMA PlainLonger ==
  ASSUME NEW t \in TruthSet, NEW row \in RowType, PlainRows(Longer(t, row))
  PROVE  /\ PlainRows(t)
         /\ row.kind # "hunk" => RowLine(row.kind, row.text).is \notin {"---", "+++"}
<1> DEFINE u == Longer(t, row)
           n == Len(t.rows)
<1>1. t.rows \in Seq(RowType) /\ n \in Nat
  BY DEF TruthSet
<1>2. u.rows = Append(t.rows, row)
  BY DEF Longer, TruthSet
<1>3. DOMAIN t.rows = 1..n /\ DOMAIN u.rows = 1..(n + 1) /\ u.rows[n + 1] = row
      /\ \A j \in 1..n : u.rows[j] = t.rows[j]
  BY <1>1, <1>2
<1>4. \A j \in 1..(n + 1) :
        u.rows[j].kind # "hunk" =>
          RowLine(u.rows[j].kind, u.rows[j].text).is \notin {"---", "+++"}
  BY <1>3 DEF PlainRows
<1> HIDE DEF u
<1>5. \A j \in 1..n :
        t.rows[j].kind # "hunk" =>
          RowLine(t.rows[j].kind, t.rows[j].text).is \notin {"---", "+++"}
  BY <1>1, <1>3, <1>4
<1>6. n + 1 \in 1..(n + 1)
  BY <1>1
<1>7. QED
  BY <1>3, <1>4, <1>5, <1>6 DEF PlainRows

\* The reader made a row of the line, and the same one where all of them are plain.
LEMMA MatchMore ==
  ASSUME NEW t \in TruthSet, NEW f \in FileSet, Match(t, f), t.body,
         NEW row \in RowType, NEW made \in RowType, NEW g, Extends(f, g, made),
         PlainRows(Longer(t, row)) => made = row
  PROVE  Match(Longer(t, row), g)
<1> DEFINE u == Longer(t, row)
<1>1. u.rows = Append(t.rows, row) /\ u.body = t.body /\ u.binary = t.binary
      /\ u.path = t.path /\ u.old = t.old /\ u.status = t.status
  BY DEF Longer, TruthSet
<1>2. NamedAgain(u) <=> NamedAgain(t)
  BY <1>1 DEF NamedAgain
<1>3. PlainRows(u) => PlainRows(t)
  BY PlainLonger
<1> HIDE DEF u
<1>4. Counted(g)
  BY ExtendsCounted DEF Match
<1>5. PlainRows(u) => /\ g.rows = u.rows
                      /\ g.path = u.path \/ (~NamedAgain(u) /\ u.old \in Spaced)
  BY <1>1, <1>2, <1>3 DEF Match, Extends, u
<1>6. QED
  BY <1>1, <1>4, <1>5 DEF Match, Extends, u

\* The reader made none of it, which happens where not all of them are plain.
LEMMA MatchAlike ==
  ASSUME NEW t \in TruthSet, NEW f \in FileSet, Match(t, f), t.body,
         NEW row \in RowType, NEW g, Alike(f, g), ~PlainRows(Longer(t, row))
  PROVE  Match(Longer(t, row), g)
<1> DEFINE u == Longer(t, row)
<1>1. u.body = t.body /\ u.binary = t.binary
  BY DEF Longer, TruthSet
<1> HIDE DEF u
<1>2. QED
  BY <1>1 DEF Match, Alike, Counted, u

\* The last of the files changes on both sides, and the two still match.
LEMMA MatchedWith ==
  ASSUME NEW ts \in Seq(TruthSet), NEW fs \in Seq(FileSet), ts # <<>>, Len(fs) = Len(ts),
         \A i \in 1..Len(fs) : Match(ts[i], fs[i]),
         NEW u \in TruthSet, NEW g \in FileSet, Match(u, g)
  PROVE  /\ Len(With(fs, g)) = Len(With(ts, u))
         /\ \A i \in 1..Len(With(fs, g)) : Match(With(ts, u)[i], With(fs, g)[i])
<1>1. fs # <<>> /\ Len(ts) \in Nat /\ DOMAIN ts = 1..Len(ts) /\ DOMAIN fs = 1..Len(ts)
  OBVIOUS
<1>2. Len(With(ts, u)) = Len(ts) /\ Len(With(fs, g)) = Len(fs)
  BY <1>1, WithLast
<1>3. \A i \in 1..Len(ts) : /\ With(ts, u)[i] = IF i = Len(ts) THEN u ELSE ts[i]
                            /\ With(fs, g)[i] = IF i = Len(ts) THEN g ELSE fs[i]
  BY <1>1 DEF With
<1>4. QED
  BY <1>2, <1>3

LEMMA LastMatches ==
  ASSUME NEW ts \in Seq(TruthSet), NEW fs \in Seq(FileSet), ts # <<>>, Len(fs) = Len(ts),
         \A i \in 1..Len(fs) : Match(ts[i], fs[i])
  PROVE  /\ fs # <<>> /\ Last(fs) \in FileSet /\ Last(ts) \in TruthSet
         /\ Match(Last(ts), Last(fs))
BY LastOf DEF Last

----------------------------------------------------------------------------
(***************************************************************************)
(* The steps.                                                              *)
(***************************************************************************)

LEMMA ReaderOf ==
  ASSUME Types
  PROVE  Reader \in ReaderSet /\ Reader.files = patch
         /\ Reader.old = lines.old /\ Reader.new = lines.new
BY DEF Types, Reader, ReaderSet, Numbers

LEMMA DInit ==
  ASSUME Init
  PROVE  DInv
<1>1. Types
  BY DEF Init, Types, Numbers
<1>2. Matched /\ Numbered /\ Kept
  BY DEF Init, Matched, Numbered, Kept
<1>3. QED
  BY <1>1, <1>2 DEF DInv

\* A header begins a file that matches: it has no row yet.
LEMMA MatchFresh ==
  ASSUME NEW f \in TruthSet, f.rows = <<>>, ~(f.binary /\ f.body),
         NEW h, Fresh(h), h.binary = f.binary,
         h.path = IF NamedAgain(f) THEN f.path ELSE SplitNew(f.old, f.path)
  PROVE  Match(f, h)
<1>1. Counted(h)
  BY CountNone DEF Counted, Fresh
<1>2. h.path = f.path \/ (~NamedAgain(f) /\ f.old \in Spaced)
  BY DEF SplitNew
<1>3. QED
  BY <1>1, <1>2 DEF Match, Fresh

LEMMA FileStep ==
  ASSUME DInv, WriteFile
  PROVE  DInv'
<1>1. PICK f : /\ f \in TruthSet /\ f.rows = <<>> /\ ~(f.binary /\ f.body)
               /\ truth' = Append(truth, f)
               /\ Reads(ReadHeader(Reader, f))
  <2> DEFINE F(old, path, status, binary, body) ==
               [old |-> old, path |-> path, status |-> status, binary |-> binary,
                body |-> body, rows |-> <<>>]
  <2>1. PICK old \in Path, path \in Path, status \in {"modified", "added", "deleted", "renamed"},
             binary \in BOOLEAN, body \in BOOLEAN :
          /\ status = "renamed" <=> old # path
          /\ ~(binary /\ body)
          /\ body => RowsWritten < MaxRows
          /\ \A i \in DOMAIN truth : truth[i].path # path
          /\ truth' = Append(truth, F(old, path, status, binary, body))
          /\ Reads(ReadHeader(Reader, F(old, path, status, binary, body)))
    BY DEF WriteFile
  <2>2. status \in Status
    BY DEF Status
  <2>3. PICK f : f = F(old, path, status, binary, body)
    OBVIOUS
  <2>4. f \in TruthSet /\ f.rows = <<>> /\ f.binary = binary /\ f.body = body
    BY <2>2, <2>3 DEF TruthSet
  <2> HIDE DEF F
  <2>5. QED
    BY <2>1, <2>3, <2>4
<1>2. Reader \in ReaderSet /\ Reader.files = patch
  BY ReaderOf DEF DInv
<1>3. PICK h : /\ On(patch, ReadHeader(Reader, f), h) /\ Fresh(h) /\ h.binary = f.binary
               /\ h.path = IF NamedAgain(f) THEN f.path ELSE SplitNew(f.old, f.path)
  BY <1>1, <1>2, ReadHeaderOn
<1>4. patch' = Append(patch, h) /\ h \in FileSet /\ lines' \in Numbers
  BY <1>1, <1>3 DEF Reads, On, ReaderSet, Numbers
<1>5. Match(f, h)
  BY <1>1, <1>3, MatchFresh
<1>6. phase = "writing" /\ phase' = phase /\ at' = at /\ view' = view
  BY DEF WriteFile
<1>7. patch \in Seq(FileSet) /\ truth \in Seq(TruthSet) /\ Types
  BY DEF DInv, Types
<1>8. Types'
  BY <1>1, <1>4, <1>6, <1>7 DEF Types
<1>9. Matched'
  <2>1. Len(patch) = Len(truth) /\ \A i \in 1..Len(patch) : Match(truth[i], patch[i])
    BY <1>6 DEF DInv, Matched
  <2>2. Len(patch') = Len(truth')
    BY <1>1, <1>4, <1>7, <2>1
  <2>3. ASSUME NEW i \in 1..Len(patch')
        PROVE  Match(truth'[i], patch'[i])
    <3>1. Len(patch) \in Nat /\ i \in 1..(Len(patch) + 1)
      BY <1>4, <1>7
    <3>2. CASE i \in 1..Len(patch)
      <4>1. truth'[i] = truth[i] /\ patch'[i] = patch[i]
        BY <1>1, <1>4, <1>7, <2>1, <3>2
      <4>2. QED
        BY <2>1, <3>2, <4>1
    <3>3. CASE i = Len(patch) + 1
      <4>1. truth'[i] = f /\ patch'[i] = h
        BY <1>1, <1>4, <1>7, <2>1, <3>3
      <4>2. QED
        BY <1>5, <4>1
    <3>4. QED
      BY <3>1, <3>2, <3>3
  <2>4. QED
    BY <2>2, <2>3 DEF Matched
<1>10. Numbered'
  <2>1. Last(truth') = f
    BY <1>1, <1>7 DEF Last
  <2>2. QED
    BY <1>1, <2>1 DEF Numbered
<1>11. Kept'
  BY <1>6 DEF Kept
<1>12. QED
  BY <1>8, <1>9, <1>10, <1>11 DEF DInv

\* A row is written, and what the reader makes of the file it reads matches.
LEMMA RowMatched ==
  ASSUME Types, Matched, phase = "writing", phase' = phase, view' = view, truth # <<>>,
         NEW row \in RowType, Wrote(row), at' \in Numbers, lines' \in Numbers,
         NEW g \in FileSet, patch' = With(patch, g), Match(Longer(Last(truth), row), g)
  PROVE  Types' /\ Matched' /\ Kept' /\ Last(truth') = Longer(Last(truth), row)
<1> DEFINE u == Longer(Last(truth), row)
<1>1. patch \in Seq(FileSet) /\ truth \in Seq(TruthSet)
  BY DEF Types
<1>2. Len(patch) = Len(truth) /\ \A i \in 1..Len(patch) : Match(truth[i], patch[i])
  BY DEF Matched
<1>3. u \in TruthSet /\ truth' = With(truth, u)
  BY <1>1, TruthLonger DEF Wrote
<1> HIDE DEF u
<1>4. patch # <<>>
  BY <1>1, <1>2
<1>5. /\ truth' \in Seq(TruthSet) /\ Last(truth') = u
      /\ patch' \in Seq(FileSet)
  BY <1>1, <1>3, <1>4, WithLast
<1>6. Types'
  BY <1>5 DEF Types
<1>7. Len(patch') = Len(truth') /\ \A i \in 1..Len(patch') : Match(truth'[i], patch'[i])
  BY <1>1, <1>2, <1>3, MatchedWith DEF u
<1>8. QED
  BY <1>5, <1>6, <1>7 DEF Matched, Kept, u

LEMMA HunkStep ==
  ASSUME DInv, WriteHunk
  PROVE  DInv'
<1> DEFINE row == Row("hunk", 0, 0, "words")
<1>1. PICK o \in Nat, n \in Nat :
        /\ at' = [old |-> o, new |-> n] /\ Wrote(row)
        /\ Reads(Read(Reader, Line("@@", o, n)))
  BY DiffAssumption DEF WriteHunk
<1>2. Reader \in ReaderSet /\ Reader.files = patch
  BY ReaderOf DEF DInv
<1>3. phase = "writing" /\ truth # <<>> /\ Last(truth).body /\ phase' = phase /\ view' = view
  BY DEF WriteHunk, InBody
<1>4. row \in RowType
  BY DEF Row, RowType, TextKind
<1> HIDE DEF row
<1>5. patch # <<>> /\ Last(patch) \in FileSet /\ Last(truth) \in TruthSet /\ Match(Last(truth), Last(patch))
  BY <1>3, LastMatches DEF DInv, Types, Matched
<1>6. PICK r : r = Read(Reader, Line("@@", o, n))
  OBVIOUS
<1>7. /\ r \in ReaderSet /\ r.old = o /\ r.new = n
      /\ \E g : Extends(Last(patch), g, row) /\ r.files = With(patch, g)
  <2>1. Reader.files # <<>>
    BY <1>2, <1>5
  <2>2. /\ Read(Reader, Line("@@", o, n)) \in ReaderSet
        /\ Read(Reader, Line("@@", o, n)).old = o /\ Read(Reader, Line("@@", o, n)).new = n
        /\ \E g : /\ Extends(Last(Reader.files), g, Row("hunk", 0, 0, "words"))
                  /\ Read(Reader, Line("@@", o, n)).files = With(Reader.files, g)
    BY <1>2, <2>1, ReadHunk
  <2>3. QED
    BY <1>2, <1>6, <2>2 DEF row
<1>8. PICK g : Extends(Last(patch), g, row) /\ r.files = With(patch, g)
  BY <1>7
<1>9. g \in FileSet /\ patch' = With(patch, g) /\ lines' = [old |-> o, new |-> n]
  BY <1>1, <1>6, <1>7, <1>8 DEF Extends, Reads
<1>10. Match(Longer(Last(truth), row), g)
  BY <1>3, <1>4, <1>5, <1>8, MatchMore
<1>11. at' \in Numbers /\ lines' \in Numbers
  BY <1>1, <1>9 DEF Numbers
<1>12. Types' /\ Matched' /\ Kept'
  BY <1>1, <1>3, <1>4, <1>9, <1>10, <1>11, RowMatched DEF DInv
<1>13. Numbered'
  BY <1>1, <1>9 DEF Numbered
<1>14. QED
  BY <1>12, <1>13 DEF DInv

LEMMA RowStep ==
  ASSUME DInv, WriteRow
  PROVE  DInv'
<1>1. PICK kind \in {"context", "add", "del", "note"}, text \in TextKind :
        /\ Wrote(RowAt(at.old, at.new, kind, text))
        /\ at' = [old |-> at.old + OldStep(kind), new |-> at.new + NewStep(kind)]
        /\ Reads(Read(Reader, RowLine(kind, text)))
  <2>1. at.old \in Nat /\ at.new \in Nat
    BY DEF DInv, Types, Numbers
  <2>2. PICK kind \in {"context", "add", "del", "note"}, text \in Text :
          /\ Wrote(Row(kind, IF kind \in {"context", "del"} THEN at.old ELSE 0,
                             IF kind \in {"context", "add"} THEN at.new ELSE 0, text))
          /\ at' = [old |-> IF kind \in {"context", "del"} THEN at.old + 1 ELSE at.old,
                    new |-> IF kind \in {"context", "add"} THEN at.new + 1 ELSE at.new]
          /\ Reads(Read(Reader, RowLine(kind, text)))
    BY DEF WriteRow
  <2>3. text \in TextKind
    BY DiffAssumption
  <2>4. Wrote(RowAt(at.old, at.new, kind, text))
    BY <2>2 DEF RowAt
  <2>5. at' = [old |-> at.old + OldStep(kind), new |-> at.new + NewStep(kind)]
    BY <2>1, <2>2 DEF OldStep, NewStep
  <2>6. QED
    BY <2>2, <2>3, <2>4, <2>5
<1>2. PICK row : row = RowAt(at.old, at.new, kind, text)
  OBVIOUS
<1>3. row \in RowType /\ row.kind = kind /\ row.text = text
  BY <1>2 DEF DInv, Types, Numbers, RowAt, Row, RowType
<1>4. Reader \in ReaderSet /\ Reader.files = patch /\ Reader.old = lines.old /\ Reader.new = lines.new
  BY ReaderOf DEF DInv
<1>5. /\ phase = "writing" /\ truth # <<>> /\ Last(truth).body /\ Last(truth).rows # <<>>
      /\ phase' = phase /\ view' = view
  BY DEF WriteRow, InBody
<1>6. patch # <<>> /\ Last(patch) \in FileSet /\ Last(truth) \in TruthSet /\ Match(Last(truth), Last(patch))
  BY <1>5, LastMatches DEF DInv, Types, Matched
<1> DEFINE u == Longer(Last(truth), row)
<1>7. PlainRows(u) => /\ PlainRows(Last(truth))
                      /\ RowLine(kind, text).is \notin {"---", "+++"}
                      /\ Last(patch).rows = Last(truth).rows
                      /\ lines.old = at.old /\ lines.new = at.new
  <2> SUFFICES ASSUME PlainRows(u)
               PROVE  /\ PlainRows(Last(truth))
                      /\ RowLine(kind, text).is \notin {"---", "+++"}
                      /\ Last(patch).rows = Last(truth).rows
                      /\ lines.old = at.old /\ lines.new = at.new
    OBVIOUS
  <2>1. PlainRows(Last(truth)) /\ RowLine(kind, text).is \notin {"---", "+++"}
    BY <1>3, <1>6, PlainLonger
  <2>2. Last(patch).rows = Last(truth).rows
    BY <1>6, <2>1 DEF Match
  <2>3. lines.old = at.old /\ lines.new = at.new
    BY <1>5, <2>1 DEF DInv, Numbered
  <2>4. QED
    BY <2>1, <2>2, <2>3
<1>8. PICK r : r = Read(Reader, RowLine(kind, text))
  OBVIOUS
<1>9. patch' = r.files /\ lines' = [old |-> r.old, new |-> r.new]
  BY <1>1, <1>8 DEF Reads
<1>10. at' \in Numbers
  BY <1>1 DEF DInv, Types, Numbers, OldStep, NewStep
<1> HIDE DEF u
<1>11. CASE RowLine(kind, text).is \notin {"---", "+++"} /\ Last(patch).rows # <<>>
  <2>1. PICK made : made = RowAt(lines.old, lines.new, kind, text)
    OBVIOUS
  <2>2. made \in RowType
    BY <2>1 DEF DInv, Types, Numbers, RowAt, Row, RowType
  <2>3. Further(Reader, r, made, OldStep(kind), NewStep(kind))
    BY <1>4, <1>6, <1>8, <1>11, <2>1, ReadPlain
  <2>4. PICK g : Extends(Last(patch), g, made) /\ r.files = With(patch, g)
    BY <1>4, <2>3 DEF Further
  <2>5. r \in ReaderSet /\ r.old = lines.old + OldStep(kind) /\ r.new = lines.new + NewStep(kind)
    BY <1>4, <2>3 DEF Further
  <2>6. g \in FileSet /\ lines' \in Numbers
    BY <1>9, <2>4, <2>5 DEF Extends, ReaderSet, Numbers
  <2>7. PlainRows(u) => made = row
    BY <1>2, <1>7, <2>1
  <2>8. Match(u, g)
    BY <1>3, <1>5, <1>6, <2>2, <2>4, <2>7, MatchMore DEF u
  <2>9. Types' /\ Matched' /\ Kept' /\ Last(truth') = u
    BY <1>1, <1>2, <1>3, <1>5, <1>9, <1>10, <2>4, <2>6, <2>8, RowMatched DEF DInv, u
  <2>10. Numbered'
    BY <1>1, <1>7, <1>9, <2>5, <2>9 DEF Numbered
  <2>11. QED
    BY <2>9, <2>10 DEF DInv
<1>12. CASE RowLine(kind, text).is \in {"---", "+++"} \/ Last(patch).rows = <<>>
  <2>1. ~PlainRows(u)
    BY <1>5, <1>7, <1>12
  <2>2. /\ r \in ReaderSet
        /\ \E g : Alike(Last(patch), g) /\ r.files = With(patch, g)
    BY <1>4, <1>6, <1>8, <1>12, ReadOther
  <2>3. PICK g : Alike(Last(patch), g) /\ r.files = With(patch, g)
    BY <2>2
  <2>4. g \in FileSet /\ lines' \in Numbers
    BY <1>9, <2>2, <2>3 DEF Alike, ReaderSet, Numbers
  <2>5. Match(u, g)
    BY <1>3, <1>5, <1>6, <2>1, <2>3, MatchAlike DEF u
  <2>6. Types' /\ Matched' /\ Kept' /\ Last(truth') = u
    BY <1>1, <1>2, <1>3, <1>5, <1>9, <1>10, <2>3, <2>4, <2>5, RowMatched DEF DInv, u
  <2>7. Numbered'
    BY <2>1, <2>6 DEF Numbered
  <2>8. QED
    BY <2>6, <2>7 DEF DInv
<1>13. QED
  BY <1>11, <1>12

LEMMA EndStep ==
  ASSUME DInv, End
  PROVE  DInv'
<1>1. PICK s : s = Read(Reader, Line("", "empty", None))
  OBVIOUS
<1>2. patch' = Trimmed(s.files) /\ lines' = [old |-> s.old, new |-> s.new]
      /\ phase = "writing" /\ phase' = "read" /\ truth' = truth /\ at' = at /\ view' = view
  BY <1>1 DEF End
<1>3. Reader \in ReaderSet /\ Reader.files = patch
  BY ReaderOf DEF DInv
<1>4. s \in ReaderSet /\ Trimmed(s.files) = patch
  BY <1>1, <1>3, ReadEnd
<1>5. lines' \in Numbers
  BY <1>2, <1>4 DEF ReaderSet, Numbers
<1>6. Types'
  BY <1>2, <1>4, <1>5 DEF DInv, Types
<1>7. Matched'
  BY <1>2, <1>4 DEF DInv, Matched
<1>8. QED
  BY <1>2, <1>6, <1>7 DEF DInv, Numbered, Kept

\* What the budget may do to a file: shut it, or take the rows of one that is
\* past what one file may have, and never of the one that was asked for.
LEMMA BudgetedOf ==
  ASSUME NEW f \in FileSet, ~f.collapsed, ~f.overBudget, f.rows # <<>> => ~f.binary,
         NEW force \in Path \cup {None}, NEW expanded \in BOOLEAN, NEW total,
         NEW g, g = Budgeted(f, Budget(force, expanded), total)
  PROVE  /\ g \in FileSet /\ g.path = f.path
         /\ g.additions = f.additions /\ g.deletions = f.deletions
         /\ g.rows # <<>> => g.rows = f.rows
         /\ g.collapsed => g.rows # <<>> /\ ~expanded
         /\ g.collapsed => Changed(f) > Collapse \/ total > PerPatch
         /\ g.overBudget => Changed(f) > PerFile
         /\ IF force # None /\ force = f.path
            THEN ~g.overBudget /\ ~g.collapsed
            ELSE /\ g.rows # <<>> => Changed(f) <= PerFile
                 /\ g.rows # <<>> /\ ~g.collapsed /\ ~expanded =>
                      Changed(f) <= Collapse /\ ~(total > PerPatch)
<1> DEFINE b == Budget(force, expanded)
           forced == force # None /\ force = f.path
           past == total > PerPatch
<1>1. Changed(f) \in Nat /\ PerFile \in Nat \ {0} /\ PerPatch \in Nat \ {0} /\ Collapse \in Nat \ {0}
  BY DiffAssumption DEF Changed, FileSet
<1>2. /\ b.force = force /\ b.perFile = PerFile
      /\ b.perPatch = (IF expanded THEN 0 ELSE PerPatch)
      /\ b.collapse = (IF expanded THEN 0 ELSE Collapse)
  BY DEF Budget
<1>3. (b.perPatch > 0 /\ total > b.perPatch) <=> (~expanded /\ past)
  BY <1>1, <1>2
<1>4. (b.collapse > 0 /\ Changed(f) > b.collapse) <=> (~expanded /\ Changed(f) > Collapse)
  BY <1>1, <1>2
<1>5. (b.perFile > 0 /\ Changed(f) > b.perFile) <=> Changed(f) > PerFile
  BY <1>1, <1>2
<1> HIDE DEF past
<1>6. \/ f.rows = <<>> /\ g = f
      \/ f.rows # <<>> /\ ~forced /\ Changed(f) > PerFile
           /\ g = [f EXCEPT !.rows = <<>>, !.overBudget = TRUE]
      \/ f.rows # <<>> /\ forced /\ g = [f EXCEPT !.collapsed = FALSE]
      \/ f.rows # <<>> /\ ~forced /\ ~(Changed(f) > PerFile) /\ ~expanded /\ past
           /\ g = [f EXCEPT !.collapsed = TRUE]
      \/ f.rows # <<>> /\ ~forced /\ ~(Changed(f) > PerFile) /\ ~(~expanded /\ past)
           /\ g = [f EXCEPT !.collapsed = (b.collapse > 0 /\ Changed(f) > b.collapse)]
  BY <1>2, <1>3, <1>5 DEF Budgeted
<1>7. CASE f.rows = <<>> /\ g = f
  BY <1>7
<1>8. CASE f.rows # <<>> /\ ~forced /\ Changed(f) > PerFile
             /\ g = [f EXCEPT !.rows = <<>>, !.overBudget = TRUE]
  <2>1. <<>> \in Seq(RowType)
    OBVIOUS
  <2>2. g \in FileSet /\ g.path = f.path /\ g.additions = f.additions
        /\ g.deletions = f.deletions /\ g.rows = <<>> /\ ~g.collapsed
    BY <1>8, <2>1 DEF FileSet
  <2>3. QED
    BY <1>8, <2>2
<1>9. CASE f.rows # <<>> /\ forced /\ g = [f EXCEPT !.collapsed = FALSE]
  BY <1>9 DEF FileSet
<1>10. CASE f.rows # <<>> /\ ~forced /\ ~(Changed(f) > PerFile) /\ ~expanded /\ past
              /\ g = [f EXCEPT !.collapsed = TRUE]
  <2>1. g \in FileSet /\ g.path = f.path /\ g.additions = f.additions
        /\ g.deletions = f.deletions /\ g.rows = f.rows /\ g.collapsed /\ ~g.overBudget
    BY <1>10 DEF FileSet
  <2>2. Changed(f) <= PerFile
    BY <1>1, <1>10
  <2>3. QED
    BY <1>10, <2>1, <2>2 DEF past
<1>11. CASE f.rows # <<>> /\ ~forced /\ ~(Changed(f) > PerFile) /\ ~(~expanded /\ past)
              /\ g = [f EXCEPT !.collapsed = (b.collapse > 0 /\ Changed(f) > b.collapse)]
  <2>1. PICK shut \in BOOLEAN : shut <=> (~expanded /\ Changed(f) > Collapse)
    OBVIOUS
  <2>2. g = [f EXCEPT !.collapsed = shut]
    BY <1>4, <1>11, <2>1
  <2>3. g \in FileSet /\ (g.collapsed <=> shut) /\ ~g.overBudget /\ g.path = f.path
        /\ g.additions = f.additions /\ g.deletions = f.deletions /\ g.rows = f.rows
    BY <2>1, <2>2 DEF FileSet
  <2>4. g.rows # <<>> => Changed(f) <= PerFile
    BY <1>1, <1>11
  <2>5. ~g.collapsed /\ ~expanded => Changed(f) <= Collapse /\ ~past
    BY <1>1, <1>11, <2>1, <2>3
  <2>6. g.collapsed => ~expanded /\ Changed(f) > Collapse
    BY <2>1, <2>3
  <2>7. QED
    BY <1>11, <2>3, <2>4, <2>5, <2>6 DEF past
<1>12. QED
  BY <1>6, <1>7, <1>8, <1>9, <1>10, <1>11

LEMMA ShowStep ==
  ASSUME DInv, NEW screen \in {"commit", "compare"}, NEW force \in Path \cup {None},
         NEW expanded \in BOOLEAN, Page(screen, force, expanded)
  PROVE  DInv'
<1>1. /\ view' = [screen |-> screen, force |-> force, expanded |-> expanded]
      /\ patch' = [i \in DOMAIN patch |-> Budgeted(patch[i], Budget(force, expanded), Total(patch))]
  BY DEF Page
<1>2. PICK n : n = Len(patch)
  OBVIOUS
<1>3. PICK total : total = Total(patch)
  OBVIOUS
<1>4. /\ phase = "read" /\ phase' = "shown" /\ truth' = truth /\ at' = at /\ lines' = lines
      /\ patch \in Seq(FileSet) /\ n \in Nat /\ DOMAIN patch = 1..n
  BY <1>2 DEF Page, DInv, Types
<1>5. \A i \in 1..n : /\ patch[i] \in FileSet /\ Counted(patch[i])
                      /\ ~patch[i].collapsed /\ ~patch[i].overBudget
                      /\ patch[i].rows # <<>> => ~patch[i].binary
  BY <1>2, <1>4 DEF DInv, Matched, Match
<1>6. ASSUME NEW i \in 1..n
      PROVE  /\ patch'[i] \in FileSet /\ patch'[i].path = patch[i].path
             /\ patch'[i].additions = patch[i].additions /\ patch'[i].deletions = patch[i].deletions
             /\ patch'[i].rows # <<>> => patch'[i].rows = patch[i].rows
             /\ patch'[i].collapsed => patch'[i].rows # <<>> /\ ~expanded
             /\ patch'[i].collapsed => Changed(patch[i]) > Collapse \/ total > PerPatch
             /\ patch'[i].overBudget => Changed(patch[i]) > PerFile
             /\ IF force # None /\ force = patch[i].path
                THEN ~patch'[i].overBudget /\ ~patch'[i].collapsed
                ELSE /\ patch'[i].rows # <<>> => Changed(patch[i]) <= PerFile
                     /\ patch'[i].rows # <<>> /\ ~patch'[i].collapsed /\ ~expanded =>
                          Changed(patch[i]) <= Collapse /\ ~(total > PerPatch)
  <2>1. PICK f : f = patch[i]
    OBVIOUS
  <2>2. PICK g : g = patch'[i]
    OBVIOUS
  <2>3. g = Budgeted(f, Budget(force, expanded), total)
    BY <1>1, <1>3, <1>4, <2>1, <2>2
  <2>4. f \in FileSet /\ ~f.collapsed /\ ~f.overBudget /\ (f.rows # <<>> => ~f.binary)
    BY <1>5, <2>1
  <2>5. /\ g \in FileSet /\ g.path = f.path
        /\ g.additions = f.additions /\ g.deletions = f.deletions
        /\ g.rows # <<>> => g.rows = f.rows
        /\ g.collapsed => g.rows # <<>> /\ ~expanded
        /\ g.collapsed => Changed(f) > Collapse \/ total > PerPatch
        /\ g.overBudget => Changed(f) > PerFile
        /\ IF force # None /\ force = f.path
           THEN ~g.overBudget /\ ~g.collapsed
           ELSE /\ g.rows # <<>> => Changed(f) <= PerFile
                /\ g.rows # <<>> /\ ~g.collapsed /\ ~expanded =>
                     Changed(f) <= Collapse /\ ~(total > PerPatch)
    BY <2>3, <2>4, BudgetedOf
  <2>6. QED
    BY <2>1, <2>2, <2>5
<1>7. DOMAIN patch' = 1..n
  BY <1>1, <1>4
<1>8. patch' \in Seq(FileSet)
  <2>1. patch' = [i \in 1..n |-> patch'[i]]
    BY <1>1, <1>4
  <2>2. patch' \in [1..n -> FileSet]
    BY <1>6, <2>1
  <2>3. QED
    BY <1>4, <2>2
<1>9. \A i \in 1..n : Changed(patch'[i]) = Changed(patch[i])
  BY <1>6 DEF Changed
<1>10. Total(patch') = total
  <2>1. [i \in DOMAIN patch' |-> Changed(patch'[i])] = [i \in DOMAIN patch |-> Changed(patch[i])]
    BY <1>4, <1>7, <1>9
  <2>2. QED
    BY <1>3, <2>1 DEF Total
<1>11. Types'
  BY <1>1, <1>4, <1>8 DEF DInv, Types
<1>12. view'.screen = screen /\ view'.force = force /\ view'.expanded = expanded
  BY <1>1
<1>13. CountsAreRows'
  BY <1>5, <1>6, <1>7 DEF CountsAreRows, Counted
<1>14. BudgetHolds'
  BY <1>6, <1>7, <1>9, <1>10, <1>12 DEF BudgetHolds, Shows, Asked
<1>15. ExpandOpens'
  <2>1. ASSUME NEW i \in 1..n
        PROVE  /\ patch'[i].collapsed => ~expanded /\ Large(patch[i])'
               /\ Large(patch[i])' => patch'[i].collapsed \/ expanded
               /\ patch'[i].overBudget => Changed(patch'[i]) > PerFile /\ ~Asked(patch[i])'
    <3>1. PICK c \in Nat : c = Changed(patch[i]) /\ c = Changed(patch'[i])
      BY <1>5, <1>9 DEF Changed, FileSet
    <3>2. PICK g : g = patch'[i]
      OBVIOUS
    <3>3. Asked(patch[i])' <=> force # None /\ force = patch[i].path
      BY <1>6, <1>12 DEF Asked
    <3>4. Large(patch[i])' <=> (g.rows # <<>> /\ ~(force # None /\ force = patch[i].path)
                                 /\ (c > Collapse \/ total > PerPatch))
      BY <1>10, <3>1, <3>2, <3>3 DEF Large, Shows
    <3>5. /\ g.collapsed => g.rows # <<>> /\ ~expanded
          /\ g.collapsed => c > Collapse \/ total > PerPatch
          /\ g.overBudget => c > PerFile
          /\ IF force # None /\ force = patch[i].path
             THEN ~g.overBudget /\ ~g.collapsed
             ELSE g.rows # <<>> /\ ~g.collapsed /\ ~expanded => c <= Collapse /\ ~(total > PerPatch)
      BY <1>6, <3>1, <3>2
    <3>6. c <= Collapse => ~(c > Collapse)
      BY DiffAssumption
    <3>7. QED
      BY <3>1, <3>2, <3>3, <3>4, <3>5, <3>6
  <2>2. QED
    BY <1>7, <1>12, <2>1 DEF ExpandOpens, OffersExpand
<1>16. QED
  BY <1>4, <1>11, <1>13, <1>14, <1>15 DEF DInv, Matched, Numbered, Kept

LEMMA StayStep ==
  ASSUME DInv, UNCHANGED vars
  PROVE  DInv'
<1>1. /\ phase' = phase /\ truth' = truth /\ at' = at /\ patch' = patch
      /\ lines' = lines /\ view' = view
  BY DEF vars
<1>2. Types' /\ Matched' /\ Numbered'
  BY <1>1 DEF DInv, Types, Matched, Numbered
<1>3. Kept'
  BY <1>1 DEF DInv, Kept, CountsAreRows, BudgetHolds, ExpandOpens, OffersExpand,
               Large, Shows, Asked, Total
<1>4. QED
  BY <1>2, <1>3 DEF DInv

LEMMA DNext ==
  ASSUME DInv, [Next]_vars
  PROVE  DInv'
<1>1. CASE WriteFile
  BY <1>1, FileStep
<1>2. CASE WriteHunk
  BY <1>2, HunkStep
<1>3. CASE WriteRow
  BY <1>3, RowStep
<1>4. CASE End
  BY <1>4, EndStep
<1>5. CASE ShowCommit \/ ShowCompare
  BY <1>5, ShowStep DEF ShowCommit, ShowCompare
<1>6. CASE Stay \/ UNCHANGED vars
  BY <1>6, StayStep DEF Stay
<1>7. QED
  BY <1>1, <1>2, <1>3, <1>4, <1>5, <1>6 DEF Next

LEMMA DInvHolds == Spec => []DInv
BY DInit, DNext, PTL DEF Spec

----------------------------------------------------------------------------
\* Type correctness, for every patch and every budget.
THEOREM TypesHold == Spec => []TypeOK
<1>1. DInv => TypeOK
  <2> SUFFICES ASSUME DInv PROVE TypeOK
    OBVIOUS
  <2>1. phase \in {"writing", "read", "shown"} /\ lines \in [old : Nat, new : Nat]
    BY DEF DInv, Types, Numbers
  <2>2. \A i \in DOMAIN patch : patch[i] \in FileSet
    BY DEF DInv, Types
  <2>3. \A i \in DOMAIN patch : /\ patch[i].status \in Status
                                /\ patch[i].rows \in Seq(RowType)
                                /\ patch[i].collapsed \in BOOLEAN
    BY <2>2 DEF FileSet
  <2>4. QED
    BY <2>1, <2>3 DEF TypeOK, Status
<1>2. QED
  BY <1>1, DInvHolds, PTL

\* parseFiles: whatever the other files of a patch are like, and however many
\* there are, a file with no line that begins like a header has the rows git
\* wrote with git's own numbers, and its own path, unless that holds " b/" and
\* only the first line names it.
THEOREM PlainFilesAreRead == Spec => []PlainFaithful
<1>1. DInv => PlainFaithful
  <2> SUFFICES ASSUME DInv, phase = "read"
               PROVE  /\ Len(patch) = Len(truth)
                      /\ \A i \in DOMAIN truth :
                           PlainRows(truth[i]) =>
                             /\ patch[i].rows = truth[i].rows
                             /\ \/ patch[i].path = truth[i].path
                                \/ ~NamedAgain(truth[i]) /\ truth[i].old \in Spaced
    BY DEF PlainFaithful
  <2>1. Len(patch) = Len(truth) /\ \A i \in 1..Len(patch) : Match(truth[i], patch[i])
    BY DEF DInv, Matched
  <2>2. DOMAIN truth = 1..Len(patch)
    BY <2>1 DEF DInv, Types
  <2>3. QED
    BY <2>1, <2>2 DEF Match
<1>2. QED
  BY <1>1, DInvHolds, PTL

\* Additions and Deletions: whatever the lines look like, the counts beside a
\* file whose rows are shown are those of its rows, while the text is read and
\* on the page.
THEOREM CountsAreOfRows == Spec => []CountsAreRows
<1>1. DInv => CountsAreRows
  <2>1. ASSUME DInv, phase = "shown"
        PROVE  CountsAreRows
    BY <2>1 DEF DInv, Kept
  <2>2. ASSUME DInv, phase # "shown"
        PROVE  CountsAreRows
    <3>1. \A i \in 1..Len(patch) : Counted(patch[i])
      BY <2>2 DEF DInv, Matched, Match
    <3>2. DOMAIN patch = 1..Len(patch)
      BY <2>2 DEF DInv, Types
    <3>3. QED
      BY <3>1, <3>2 DEF CountsAreRows, Counted
  <2>3. QED
    BY <2>1, <2>2
<1>2. QED
  BY <1>1, DInvHolds, PTL

\* applyBudget: no page renders a body past what one file may have, and none
\* that was not asked for is open past what the patch may have.
THEOREM BudgetIsKept == Spec => []BudgetHolds
<1>1. DInv => BudgetHolds
  BY DEF DInv, Kept, BudgetHolds
<1>2. QED
  BY <1>1, DInvHolds, PTL

\* expandLinks and openEvery: for every patch and every budget, the commit screen
\* offers to open every file exactly where it renders a body past a limit that
\* shuts one, has none shut when it is asked to, and leaves out no body that one
\* file may have (ExpandOpens).
THEOREM ExpandOpensAll == Spec => []ExpandOpens
<1>1. DInv => ExpandOpens
  BY DEF DInv, Kept, ExpandOpens
<1>2. QED
  BY <1>1, DInvHolds, PTL

\* "every path, every line, and every count below is read out of the bytes git
\* wrote": the rows of a patch are all git's where no line of it begins like a
\* header.  (The run diff_rows has a line that does, and refutes it.)
THEOREM PlainPatchesAreRead ==
  Spec => []((\A i \in DOMAIN truth : PlainRows(truth[i])) => RowsFaithful)
<1>1. PlainFaithful => ((\A i \in DOMAIN truth : PlainRows(truth[i])) => RowsFaithful)
  BY DEF PlainFaithful, RowsFaithful
<1>2. QED
  BY <1>1, PlainFilesAreRead, PTL

\* splitGitHeader: what is ambiguous in a file's first line, the others overwrite.
\* In a patch of such files every file is shown under its own path, if none with
\* " b/" in its name has nothing behind its first line to name it.  (MCDiff_paths
\* has one, and refutes it.)
THEOREM NamedPatchesAreNamed ==
  Spec => []((\A i \in DOMAIN truth :
                PlainRows(truth[i]) /\ (NamedAgain(truth[i]) \/ truth[i].old \notin Spaced))
             => PathsFaithful)
<1>1. PlainFaithful =>
        ((\A i \in DOMAIN truth :
            PlainRows(truth[i]) /\ (NamedAgain(truth[i]) \/ truth[i].old \notin Spaced))
         => PathsFaithful)
  BY DEF PlainFaithful, PathsFaithful
<1>2. QED
  BY <1>1, PlainFilesAreRead, PTL
=============================================================================
