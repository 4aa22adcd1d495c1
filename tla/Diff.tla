-------------------------------- MODULE Diff --------------------------------
(***************************************************************************)
(* The unified diff text of a comparison, read into files and rows, and    *)
(* the budget that bounds the page it is shown on (internal/diff/diff.go,  *)
(* and the two screens of internal/web/page_commit.go that show it).       *)
(*                                                                         *)
(* git writes one line at a time and the reader reads it; truth is what    *)
(* git means by what it wrote.  A line is what the reader can tell of it:  *)
(* the prefix it starts with, and the path, numbers or text behind it.     *)
(***************************************************************************)
EXTENDS Naturals, Sequences, SequencesExt, FiniteSets

CONSTANTS
  Path,      \* the paths of the repository
  Spaced,    \* those with " b/" in them
  Foreign,   \* the path that text beginning like a header line names
  None,      \* no path
  Text,      \* what a line of a file may hold, of TextKind
  Start,     \* the line numbers a hunk may start at
  Collapse,  \* Budget.Collapse, PerFile and PerPatch
  PerFile,
  PerPatch,
  MaxFiles,  \* bound: the files of a patch
  MaxRows    \* bound: the rows of a patch

\* A line of a file: words, nothing at all, or text that begins with two
\* dashes or two pluses and a space.
TextKind == {"words", "empty", "dashes", "pluses"}

ASSUME DiffAssumption ==
  /\ None \notin Path /\ Spaced \subseteq Path /\ Text \subseteq TextKind
  /\ Start \subseteq Nat
  /\ Collapse \in Nat \ {0} /\ PerFile \in Nat \ {0} /\ PerPatch \in Nat \ {0}
  /\ MaxFiles \in Nat /\ MaxRows \in Nat

VARIABLES
  phase,  \* git is writing, the text has been read, the page is shown
  truth,  \* history: the files git wrote, as it means them
  at,     \* history: the line numbers git writes next, base side and head side
  patch,  \* the files read so far, the last one still being read
  lines,  \* oldLine and newLine of parseFiles
  view    \* the screen, and what it was asked for: one path, and every file opened

vars == <<phase, truth, at, patch, lines, view>>

Init ==
  /\ phase = "writing"
  /\ truth = <<>> /\ at = [old |-> 0, new |-> 0]
  /\ patch = <<>> /\ lines = [old |-> 0, new |-> 0]
  /\ view = [screen |-> "commit", force |-> None, expanded |-> FALSE]

Row(kind, old, new, text) == [kind |-> kind, old |-> old, new |-> new, text |-> text]

----------------------------------------------------------------------------
(***************************************************************************)
(* The reader: parseFiles.                                                 *)
(***************************************************************************)

\* splitGitHeader: the line is cut at the first " b/", which is the one between
\* the two paths unless the first path holds one.
\* Mutant of SplitNew: the whole of the line is taken for the name.
SplitNewWhole(a, b) == <<a, b>>

SplitOld(a)    == IF a \in Spaced THEN <<"before", a>> ELSE a
SplitNew(a, b) == IF a \in Spaced THEN <<"after", a, b>> ELSE b

\* Mutant of NewFile: the status is left for a later line to set.
NewFileUnset(a, b) == [path |-> SplitNew(a, b), oldPath |-> SplitOld(a), status |-> "",
                       binary |-> FALSE, additions |-> 0, deletions |-> 0, rows |-> <<>>,
                       collapsed |-> FALSE, overBudget |-> FALSE]

NewFile(a, b) == [path |-> SplitNew(a, b), oldPath |-> SplitOld(a), status |-> "modified",
                  binary |-> FALSE, additions |-> 0, deletions |-> 0, rows |-> <<>>,
                  collapsed |-> FALSE, overBudget |-> FALSE]

\* One row more, and how far it moves the number on each side.
Adds(s, row, old, new) ==
  [files |-> [s.files EXCEPT ![Len(s.files)].rows = Append(@, row)],
   old |-> s.old + old, new |-> s.new + new]

Counts(s, side) == [s EXCEPT !.files[Len(s.files)][side] = @ + 1]

Sets(s, field, value) == [s EXCEPT !.files[Len(s.files)][field] = value]

\* Mutant of ContextRow: the head side alone moves on.
ContextRowAhead(s, text) == Adds(s, Row("context", s.old, s.new, text), 0, 1)

ContextRow(s, text) == Adds(s, Row("context", s.old, s.new, text), 1, 1)
AddedRow(s, text)   == Adds(Counts(s, "additions"), Row("add", 0, s.new, text), 0, 1)

\* Mutant of RemovedRow: it is counted with the lines added.
RemovedRowAdded(s, text) == Adds(Counts(s, "additions"), Row("del", s.old, 0, text), 1, 0)

RemovedRow(s, text) == Adds(Counts(s, "deletions"), Row("del", s.old, 0, text), 1, 0)

\* A line below the first hunk line of a file: a row of its body.
BodyLine(s, l) ==
  CASE l.is = "+"  -> AddedRow(s, l.a)
    [] l.is = "-"  -> RemovedRow(s, l.a)
    [] l.is = "\\" -> Adds(s, Row("note", 0, 0, l.a), 0, 0)
    [] l.is \in {" ", ""} -> ContextRow(s, l.a)

\* One line of the text, of the file being read or the first of the next.
Read(s, l) ==
  IF l.is = "git" THEN [files |-> Append(s.files, NewFile(l.a, l.b)), old |-> 0, new |-> 0]
  ELSE IF s.files = <<>> THEN s
  ELSE CASE l.is \in {"added", "deleted"} -> Sets(s, "status", l.is)
         [] l.is = "from"   -> Sets(Sets(s, "oldPath", l.a), "status", "renamed")
         [] l.is = "to"     -> Sets(Sets(s, "path", l.a), "status", "renamed")
         [] l.is = "binary" -> Sets(s, "binary", TRUE)
         [] l.is = "---"    -> IF l.a = None THEN s ELSE Sets(s, "oldPath", l.a)
         [] l.is = "+++"    -> IF l.a = None THEN s ELSE Sets(s, "path", l.a)
         [] l.is = "@@"     -> [Adds(s, Row("hunk", 0, 0, "words"), 0, 0) EXCEPT !.old = l.a, !.new = l.b]
         [] l.is \in {"+", "-", "\\", " ", ""} ->
              IF Last(s.files).rows = <<>> THEN s ELSE BodyLine(s, l)

Line(is, a, b) == [is |-> is, a |-> a, b |-> b]

\* Where the reader is, and where it goes on from.
Reader == [files |-> patch, old |-> lines.old, new |-> lines.new]
Reads(s) == patch' = s.files /\ lines' = [old |-> s.old, new |-> s.new]

\* What the end of the text leaves: git ends with a newline, and the empty line
\* behind it is not a row.
Trimmed(files) ==
  IF files # <<>> /\ Last(files).rows # <<>>
       /\ Last(Last(files).rows).kind = "context" /\ Last(Last(files).rows).text = "empty"
  THEN [files EXCEPT ![Len(files)].rows = SubSeq(@, 1, Len(@) - 1)]
  ELSE files

----------------------------------------------------------------------------
(***************************************************************************)
(* git.                                                                    *)
(***************************************************************************)

\* The lines in front of a file's hunks, read one after another.  A file with no hunk, whether binary,
\* empty, or changed in its mode or its name alone, has no --- and +++ line.
ReadStatus(s, f) ==
  CASE f.status = "renamed"  -> Read(Read(s, Line("from", f.old, None)), Line("to", f.path, None))
    [] f.status = "modified" -> s
    [] f.status \in {"added", "deleted"} -> Read(s, Line(f.status, None, None))
ReadBinary(s, f) == IF f.binary THEN Read(s, Line("binary", None, None)) ELSE s
ReadSides(s, f) ==
  IF ~f.body THEN s
  ELSE Read(Read(s, Line("---", IF f.status = "added" THEN None ELSE f.old, None)),
            Line("+++", IF f.status = "deleted" THEN None ELSE f.path, None))
ReadHeader(s, f) ==
  ReadSides(ReadBinary(ReadStatus(Read(s, Line("git", f.old, f.path)), f), f), f)

\* A row as git writes it.  The sign and the text make one line, and a sign in
\* front of text that begins like the rest of a header line makes a header line.
RowLine(kind, text) ==
  IF kind = "add" /\ text = "pluses" THEN Line("+++", Foreign, None)
  ELSE IF kind = "del" /\ text = "dashes" THEN Line("---", Foreign, None)
  ELSE CASE kind = "add"     -> Line("+", text, None)
         [] kind = "del"     -> Line("-", text, None)
         [] kind = "note"    -> Line("\\", text, None)
         [] kind = "context" -> Line(" ", text, None)

RowsWritten == FoldLeft(LAMBDA n, f : n + Len(f.rows), 0, truth)

WriteFile ==
  /\ phase = "writing" /\ Len(truth) < MaxFiles
  /\ truth # <<>> => (Last(truth).body <=> Last(truth).rows # <<>>)
  /\ \E old, path \in Path, status \in {"modified", "added", "deleted", "renamed"},
       binary, body \in BOOLEAN :
       LET f == [old |-> old, path |-> path, status |-> status, binary |-> binary,
                 body |-> body, rows |-> <<>>] IN
       /\ status = "renamed" <=> old # path
       /\ ~(binary /\ body)
       /\ body => RowsWritten < MaxRows
       /\ \A i \in DOMAIN truth : truth[i].path # path
       /\ truth' = Append(truth, f)
       /\ Reads(ReadHeader(Reader, f))
  /\ UNCHANGED <<phase, at, view>>

Wrote(row) == truth' = [truth EXCEPT ![Len(truth)].rows = Append(@, row)]

InBody == phase = "writing" /\ truth # <<>> /\ Last(truth).body /\ RowsWritten < MaxRows

WriteHunk ==
  /\ InBody
  /\ \E o, n \in Start :
       /\ at' = [old |-> o, new |-> n]
       /\ Wrote(Row("hunk", 0, 0, "words"))
       /\ Reads(Read(Reader, Line("@@", o, n)))
  /\ UNCHANGED <<phase, view>>

WriteRow ==
  /\ InBody /\ Last(truth).rows # <<>>
  /\ \E kind \in {"context", "add", "del", "note"}, text \in Text :
       /\ kind = "note" => text = "words"
       /\ Wrote(Row(kind, IF kind \in {"context", "del"} THEN at.old ELSE 0,
                          IF kind \in {"context", "add"} THEN at.new ELSE 0, text))
       /\ at' = [old |-> IF kind \in {"context", "del"} THEN at.old + 1 ELSE at.old,
                 new |-> IF kind \in {"context", "add"} THEN at.new + 1 ELSE at.new]
       /\ Reads(Read(Reader, RowLine(kind, text)))
  /\ UNCHANGED <<phase, view>>

\* The text ends, at the end of a file where Origo cut it short.
End ==
  /\ phase = "writing"
  /\ truth # <<>> => (Last(truth).body <=> Last(truth).rows # <<>>)
  /\ phase' = "read"
  /\ LET s == Read(Reader, Line("", "empty", None)) IN
     patch' = Trimmed(s.files) /\ lines' = [old |-> s.old, new |-> s.new]
  /\ UNCHANGED <<truth, at, view>>

----------------------------------------------------------------------------
(***************************************************************************)
(* The budget: applyBudget, openEvery and expandLinks.                     *)
(***************************************************************************)

Changed(f) == f.additions + f.deletions
SumOf(counts) == FoldLeft(LAMBDA n, c : n + c, 0, counts)
Total(files) == SumOf([i \in DOMAIN files |-> Changed(files[i])])

Budget(force, expanded) ==
  [collapse |-> IF expanded THEN 0 ELSE Collapse, perFile |-> PerFile,
   perPatch |-> IF expanded THEN 0 ELSE PerPatch, force |-> force]

\* Mutants of Budgeted: the file asked for is bounded like any other, and the
\* patch rule stays on when every file is opened.
BudgetedAlike(f, b, total) ==
  IF f.binary \/ f.rows = <<>> THEN f
  ELSE IF Changed(f) > b.perFile THEN [f EXCEPT !.rows = <<>>, !.overBudget = TRUE]
  ELSE [f EXCEPT !.collapsed = (b.perPatch > 0 /\ total > b.perPatch)
                                 \/ (b.collapse > 0 /\ Changed(f) > b.collapse)]
BudgetedShut(f, b, total) ==
  IF f.binary \/ f.rows = <<>> THEN f
  ELSE [f EXCEPT !.collapsed = b.force # f.path /\ total > PerPatch]

Budgeted(f, b, total) ==
  LET forced == b.force # None /\ b.force = f.path IN
  IF f.binary \/ f.rows = <<>> THEN f
  ELSE IF ~forced /\ b.perFile > 0 /\ Changed(f) > b.perFile
       THEN [f EXCEPT !.rows = <<>>, !.overBudget = TRUE]
  ELSE IF forced THEN [f EXCEPT !.collapsed = FALSE]
  ELSE IF b.perPatch > 0 /\ total > b.perPatch THEN [f EXCEPT !.collapsed = TRUE]
  ELSE [f EXCEPT !.collapsed = (b.collapse > 0 /\ Changed(f) > b.collapse)]

\* The page, for a patch that was asked for whole or for one path, which is then
\* all that Origo sends.
Page(screen, force, expanded) ==
  LET b == Budget(force, expanded) IN
  /\ phase = "read"
  /\ force # None => \A i \in DOMAIN truth : truth[i].path = force
  /\ view' = [screen |-> screen, force |-> force, expanded |-> expanded]
  /\ patch' = [i \in DOMAIN patch |-> Budgeted(patch[i], b, Total(patch))]
  /\ phase' = "shown"
  /\ UNCHANGED <<truth, at, lines>>

\* handleCommit: perhaps with every file opened.
ShowCommit ==
  \E force \in Path \cup {None}, expanded \in BOOLEAN : Page("commit", force, expanded)

\* handleCompare: the same budget, and nothing that turns its rules off.
ShowCompare == \E force \in Path \cup {None} : Page("compare", force, FALSE)

\* Mutant of OffersExpand: a body that is not rendered counts as a shut one.
OffersExpandDropped ==
  /\ view.screen = "commit" /\ ~view.expanded
  /\ \E i \in DOMAIN patch : patch[i].collapsed \/ patch[i].overBudget

\* expandLinks: the commit screen offers to open every file.  The comparison has
\* no such control.
OffersExpand ==
  /\ view.screen = "commit" /\ ~view.expanded
  /\ \E i \in DOMAIN patch : patch[i].collapsed

\* The page may be left standing.
Stay == phase = "shown" /\ UNCHANGED vars

Next == WriteFile \/ WriteHunk \/ WriteRow \/ End \/ ShowCommit \/ ShowCompare \/ Stay

Spec == Init /\ [][Next]_vars

----------------------------------------------------------------------------
RowType == [kind : {"hunk", "context", "add", "del", "note"}, old : Nat, new : Nat,
            text : TextKind]

TypeOK ==
  /\ phase \in {"writing", "read", "shown"}
  /\ lines \in [old : Nat, new : Nat]
  /\ \A i \in DOMAIN patch :
       /\ patch[i].status \in {"modified", "added", "deleted", "renamed"}
       /\ patch[i].rows \in Seq(RowType)
       /\ patch[i].collapsed \in BOOLEAN

\* The package comment: "every path, every line, and every count below is read
\* out of the bytes git wrote".  Read whole, the rows of each file are those git
\* wrote, each with the number git gives it on either side.
RowsFaithful ==
  phase = "read" =>
    /\ Len(patch) = Len(truth)
    /\ \A i \in DOMAIN truth : patch[i].rows = truth[i].rows

\* splitGitHeader: what is ambiguous in the first line of a file, the others
\* overwrite.  Each file is shown under its own path.
PathsFaithful ==
  phase = "read" => \A i \in DOMAIN truth : patch[i].path = truth[i].path

\* No line of the file begins like a header line once git has put a sign before it.
PlainRows(f) ==
  \A j \in DOMAIN f.rows :
    f.rows[j].kind # "hunk" => RowLine(f.rows[j].kind, f.rows[j].text).is \notin {"---", "+++"}

\* A line behind the first names the path of the file again.
NamedAgain(f) == f.status = "renamed" \/ (f.body /\ f.status # "deleted")

\* parseFiles: what of "every line" and "every path" does hold.  Whatever the
\* other files of the patch are like, a file none of whose lines begins like a
\* header has the rows git wrote, each with git's own numbers; and it has its own
\* path, unless that holds " b/" and no line behind the first names it.
PlainFaithful ==
  phase = "read" =>
    /\ Len(patch) = Len(truth)
    /\ \A i \in DOMAIN truth :
         PlainRows(truth[i]) =>
           /\ patch[i].rows = truth[i].rows
           /\ \/ patch[i].path = truth[i].path
              \/ ~NamedAgain(truth[i]) /\ truth[i].old \in Spaced

CountOf(rows, kind) == Cardinality({j \in DOMAIN rows : rows[j].kind = kind})

\* Additions and Deletions: "the file's changed lines".  Whatever the lines of the
\* files look like, the counts beside a file are those of the rows under it.
CountsAreRows ==
  \A i \in DOMAIN patch :
    patch[i].rows # <<>> => /\ patch[i].additions = CountOf(patch[i].rows, "add")
                            /\ patch[i].deletions = CountOf(patch[i].rows, "del")

Shows(f) == f.rows # <<>>
Asked(f) == view.force # None /\ view.force = f.path

\* Budget: "one page" renders no body past PerFile and opens none past Collapse,
\* and past PerPatch opens no file at all, except the one that was asked for,
\* which is rendered and open "whatever its size".
BudgetHolds ==
  phase = "shown" =>
    \A i \in DOMAIN patch :
      LET f == patch[i] IN
      IF Asked(f)
      THEN ~f.overBudget /\ ~f.collapsed
      ELSE /\ Shows(f) => Changed(f) <= PerFile
           /\ Shows(f) /\ ~f.collapsed /\ ~view.expanded =>
                Changed(f) <= Collapse /\ ~(Total(patch) > PerPatch)

\* A body that is rendered, was not asked for, and is past Collapse or in a patch
\* past PerPatch.
Large(f) ==
  /\ Shows(f) /\ ~Asked(f)
  /\ Changed(f) > Collapse \/ Total(patch) > PerPatch

\* expandLinks and openEvery: "A commit screen with a file rendered shut offers one
\* address that opens every one of them", "Neither is offered where it would do
\* nothing, and opening every file renders no body the per-file budget dropped".
\* The commit screen offers it exactly where it renders a body past either limit
\* that shuts one; asked so, it has none shut; and either way it leaves no body out
\* but of a file past what one file may have.
ExpandOpens ==
  phase = "shown" /\ view.screen = "commit" =>
    /\ OffersExpand <=> ~view.expanded /\ \E i \in DOMAIN patch : Large(patch[i])
    /\ view.expanded => \A i \in DOMAIN patch : Shows(patch[i]) => ~patch[i].collapsed
    /\ \A i \in DOMAIN patch : patch[i].overBudget =>
         Changed(patch[i]) > PerFile /\ ~Asked(patch[i])
=============================================================================
