------------------------------- MODULE DiffParser -------------------------------
(***************************************************************************)
(* parseDiff of extras/scripts/verify-and-finish/bar-guard.go: a unified   *)
(* diff is read line by line, and what is incomplete or unfamiliar is an   *)
(* error, so that a patch that was cut or edited by hand is not reported   *)
(* clean.  A line is its kind: "---" and "+++" are headers outside a hunk  *)
(* and removed and added lines within one.                                 *)
(***************************************************************************)
EXTENDS Integers, Sequences, FiniteSets, SequencesExt

CONSTANTS
    HunkCounts,  \* the old and new lengths a hunk header may give
    MaxPatch     \* bound: lines

\* What is asked of the constants: lengths are natural numbers.
ParserConstants == HunkCounts \subseteq Nat \X Nat /\ MaxPatch \in Nat

VARIABLES
    lines,   \* the patch as far as it was read
    files,   \* the files of it
    pending, \* "---" was read and "+++" was not
    headers, \* both were
    left,    \* old and new lines the hunk still has
    result   \* of parseDiff

parserVars == <<lines, files, pending, headers, left, result>>

Line(kind) == [kind |-> kind, counts |-> <<0, 0>>]
Plain == {"git", "---", "+++", "-", "+", " ", "deleted", "mode", "binary", "index",
          "empty index", "other"}
PatchLines == {Line(kind) : kind \in Plain} \cup {[kind |-> "@@", counts |-> c] : c \in HunkCounts}

NewFile ==
    [hunks |-> 0, text |-> FALSE, metadata |-> FALSE, empty |-> FALSE, index |-> "none",
     binary |-> FALSE]

ParserInit ==
    /\ lines = << >> /\ files = << >>
    /\ pending = FALSE /\ headers = FALSE
    /\ left = <<0, 0>>
    /\ result = "reading"

InHunk == left # <<0, 0>>

Removes(kind) == kind \in {"-", "---", " "}
Adds(kind) == kind \in {"+", "+++", " "}

\* A line of a hunk: the counts say how many of each there are.
HunkLine(line) ==
    /\ InHunk
    /\ Removes(line.kind) \/ Adds(line.kind)
    /\ left' = <<left[1] - (IF Removes(line.kind) THEN 1 ELSE 0),
                 left[2] - (IF Adds(line.kind) THEN 1 ELSE 0)>>
    /\ left'[1] >= 0 /\ left'[2] >= 0
    /\ UNCHANGED <<files, pending, headers>>

\* diff --git
GitHeader(line) ==
    /\ line.kind = "git" /\ ~pending
    /\ files' = Append(files, NewFile)
    /\ headers' = FALSE
    /\ UNCHANGED <<pending, left>>

\* Without a line of git before it, it starts a file.
OldHeader(line) ==
    /\ line.kind = "---" /\ ~pending
    /\ files' = IF files = << >> \/ headers THEN Append(files, NewFile) ELSE files
    /\ pending' = TRUE /\ headers' = FALSE
    /\ UNCHANGED left

NewHeader(line) ==
    /\ line.kind = "+++" /\ pending
    /\ files' = [files EXCEPT ![Len(files)].text = TRUE]
    /\ pending' = FALSE /\ headers' = TRUE
    /\ UNCHANGED left

HunkHeader(line) ==
    /\ line.kind = "@@" /\ headers
    /\ left' = line.counts
    /\ files' = [files EXCEPT ![Len(files)].hunks = @ + 1]
    /\ UNCHANGED <<pending, headers>>

\* A deleted or new file, a pair of modes, a binary file and the blobs.
Metadata(line) ==
    /\ files # << >>
    /\ LET f == Last(files) IN
         files' = [files EXCEPT ![Len(files)] =
           CASE line.kind = "deleted" -> [f EXCEPT !.metadata = TRUE, !.empty = TRUE]
             [] line.kind = "mode" -> [f EXCEPT !.metadata = TRUE]
             [] line.kind = "binary" -> [f EXCEPT !.metadata = TRUE, !.binary = TRUE]
             [] line.kind \in {"index", "empty index"} -> [f EXCEPT !.index = line.kind]]
    /\ UNCHANGED <<pending, headers, left>>

Header(line) ==
    /\ ~InHunk
    /\ \/ GitHeader(line) \/ OldHeader(line) \/ NewHeader(line) \/ HunkHeader(line)
       \/ line.kind \in {"deleted", "mode", "binary", "index", "empty index"} /\ Metadata(line)

Understood(line) ==
    IF InHunk
    THEN /\ Removes(line.kind) => left[1] > 0
         /\ Adds(line.kind) => left[2] > 0
         /\ Removes(line.kind) \/ Adds(line.kind)
    ELSE \/ line.kind \in {"git", "---"} /\ ~pending
         \/ line.kind = "+++" /\ pending
         \/ line.kind = "@@" /\ headers
         \/ line.kind \in {"deleted", "mode", "binary", "index", "empty index"} /\ files # << >>

ReadPatchLine ==
    /\ result = "reading" /\ Len(lines) < MaxPatch
    /\ \E line \in PatchLines :
         /\ lines' = Append(lines, line)
         /\ HunkLine(line) \/ Header(line)
    /\ UNCHANGED result

\* Any other line is an error.
RefuseLine ==
    /\ result = "reading" /\ Len(lines) < MaxPatch
    /\ \E line \in PatchLines : ~Understood(line) /\ lines' = Append(lines, line)
    /\ result' = "refused"
    /\ UNCHANGED <<files, pending, headers, left>>

\* A file without a hunk has to say what it is instead, and an empty one the blob it had.
Explained(f) ==
    ~f.text /\ (f.binary \/ (IF f.empty THEN f.index = "empty index"
                             ELSE f.metadata /\ f.index = "none"))

\* Mutant: a file whose hunks are missing passes for one whose mode changed.
EndPatchAnyFile ==
    /\ result = "reading"
    /\ result' = IF pending \/ InHunk THEN "refused" ELSE "accepted"
    /\ UNCHANGED <<lines, files, pending, headers, left>>

EndPatch ==
    /\ result = "reading"
    /\ result' = IF pending \/ InHunk
                    \/ \E i \in DOMAIN files : files[i].hunks = 0 /\ ~Explained(files[i])
                 THEN "refused" ELSE "accepted"
    /\ UNCHANGED <<lines, files, pending, headers, left>>

ParserNext == ReadPatchLine \/ RefuseLine \/ EndPatch

ParserSpec == ParserInit /\ [][ParserNext]_parserVars

-----------------------------------------------------------------------------
(* Properties *)

\* Every variable stays in its set, and only the last file can have a hunk open.
ParserTypeOK ==
    /\ result \in {"reading", "refused", "accepted"}
    /\ left \in Nat \X Nat
    /\ InHunk => headers /\ Last(files).hunks > 0
    /\ ~(pending /\ headers)
    /\ Len(files) <= Len(lines)

\* What a patch is, said of all of its lines at once.  A line that starts a hunk has no place
\* within one, so that the hunks of a patch are its lines of that kind; the lines of a hunk
\* are those that follow, as many of each kind as it says.
HunksOf(ls) == {i \in DOMAIN ls : ls[i].kind = "@@"}
RemovedIn(ls, h, to) == {i \in h + 1..to : Removes(ls[i].kind)}
AddedIn(ls, h, to) == {i \in h + 1..to : Adds(ls[i].kind)}
EndsOf(ls, h) ==
    {to \in h..Len(ls) :
       /\ \A i \in h + 1..to : Removes(ls[i].kind) \/ Adds(ls[i].kind)
       /\ <<Cardinality(RemovedIn(ls, h, to)), Cardinality(AddedIn(ls, h, to))>> = ls[h].counts}

\* The lines outside of hunks; a hunk without an end goes on to the last line.
OuterOf(ls) ==
    {i \in DOMAIN ls : ~ \E h \in HunksOf(ls) : h < i /\ \A to \in EndsOf(ls, h) : i <= to}
StructureOf(ls) == {i \in OuterOf(ls) : ls[i].kind \in {"git", "---", "+++", "@@"}}
LastOf(at) == CHOOSE j \in at : \A k \in at : k <= j
PreviousOf(ls, i) ==
    LET before == {j \in StructureOf(ls) : j < i} IN
      IF before = {} THEN "none" ELSE ls[LastOf(before)].kind

\* A file starts at git's line, or at its headers without one, and ends where the next starts.
StartsOf(ls) ==
    {i \in StructureOf(ls) : \/ ls[i].kind = "git"
                             \/ ls[i].kind = "---" /\ PreviousOf(ls, i) # "git"}
FileOf(ls, s) == {i \in OuterOf(ls) : i >= s /\ \A t \in StartsOf(ls) : t <= s \/ i < t}
HasKind(ls, s, kind) == \E i \in FileOf(ls, s) : ls[i].kind = kind
IndexesOf(ls, s) == {i \in FileOf(ls, s) : ls[i].kind \in {"index", "empty index"}}
IndexOf(ls, s) == IF IndexesOf(ls, s) = {} THEN "none" ELSE ls[LastOf(IndexesOf(ls, s))].kind

\* Every line outside of hunks is one of a file, and comes after one that it may follow.
InOrder(ls) ==
    /\ \A i \in OuterOf(ls) : ls[i].kind \notin {"-", "+", " ", "other"}
    /\ \A i \in OuterOf(ls) : \E s \in StartsOf(ls) : s <= i
    /\ \A i \in StructureOf(ls) : ls[i].kind = "+++" <=> PreviousOf(ls, i) = "---"
    /\ \A i \in StructureOf(ls) : ls[i].kind = "@@" => PreviousOf(ls, i) \in {"+++", "@@"}

ExplainedIn(ls, s) ==
    /\ ~HasKind(ls, s, "---")
    /\ \/ HasKind(ls, s, "binary")
       \/ HasKind(ls, s, "deleted") /\ IndexOf(ls, s) = "empty index"
       \/ ~HasKind(ls, s, "deleted") /\ HasKind(ls, s, "mode") /\ IndexOf(ls, s) = "none"

WholePatch(ls) ==
    /\ \A h \in HunksOf(ls) : EndsOf(ls, h) # {}
    /\ InOrder(ls)
    /\ \A s \in StartsOf(ls) : HasKind(ls, s, "@@") \/ ExplainedIn(ls, s)

\* "Incomplete or unfamiliar patches fail closed rather than report clean"
\* (bar-guard.go:305): a patch is accepted when it is a whole one, whose hunks have the
\* lines they announce and whose files have their hunks, and only then.
OnlyWholePatches == result # "reading" => (result = "accepted" <=> WholePatch(lines))
=================================================================================
