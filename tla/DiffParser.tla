----------------------------- MODULE DiffParser -----------------------------
(***************************************************************************)
(* The diff parser (services/ingestion/internal/parser/parser.go):         *)
(* ExtractSnippets and its helpers, fed line by line with a diff as git    *)
(* writes it, which may have any lines the bounds allow.                   *)
(*                                                                         *)
(* A line is known by its place in the diff; what the parser makes of it   *)
(* depends on its kind only:                                               *)
(*   context   unchanged          removed   starts with "-"                *)
(*   plain     added              blank     added, white space             *)
(*   function  added, matches funcBoundaryRegex                            *)
(*   tiny      the same, and less than ten characters                      *)
(*   short     added, and its function up to here less than ten characters *)
(*   plusplus  added, and its text starts with "++"                        *)
(* git knows the number a line has in the new file; the diff gives it for  *)
(* the first line of a hunk only.                                          *)
(***************************************************************************)
EXTENDS Integers, Sequences, SequencesExt

CONSTANTS MaxLines,  \* bound of the model: lines of a diff
          MaxFiles   \* bound of the model: files of a diff

ASSUME DiffParserAssumption == MaxLines \in Nat /\ MaxFiles \in Nat

VARIABLES
    diff,      \* the lines read so far: kind, file, hunk, number in the new file
    file,      \* the file they are at
    number,    \* the number of the next line of the new file
    current,   \* the hunk being read, or NoHunk before the first one of a file
    snippets   \* what ExtractSnippets makes of the hunks before

vars == <<diff, file, number, current, snippets>>

Added == {"plain", "blank", "function", "tiny", "short", "plusplus"}
Kinds == {"context", "removed"} \cup Added
Boundary == {"function", "tiny"}

NoHunk == [startLine |-> 0, addedLines |-> <<>>]

Kind(p) == diff[p].kind

Places == 1..Len(diff)

\* The number of the hunk that is read: hunks without added lines count too.
Hunk == IF diff = <<>> THEN 0 ELSE diff[Len(diff)].hunk

Init ==
    /\ diff = <<>> /\ file = 1 /\ number = 1
    /\ current = NoHunk /\ snippets = <<>>

-----------------------------------------------------------------------------
(* extractFunctions *)

IsStart(h, i) == Kind(h.addedLines[i]) \in Boundary

\* Where the function that starts at from ends: before the next one, and before
\* the white space there.
LastLine(h, from) ==
    Max({e \in from..Len(h.addedLines) :
            /\ Kind(h.addedLines[e]) # "blank"
            /\ \A i \in from + 1..e : ~IsStart(h, i)})

\* Mutant: the first line of a hunk counts as one.
Function_OneBased(h, from) ==
    [lines     |-> SubSeq(h.addedLines, from, LastLine(h, from)),
     startLine |-> h.startLine + from,
     endLine   |-> h.startLine + LastLine(h, from)]

\* Mutant: every function is said to start where its hunk does.
Function_AtHunk(h, from) ==
    [lines     |-> SubSeq(h.addedLines, from, LastLine(h, from)),
     startLine |-> h.startLine,
     endLine   |-> h.startLine + LastLine(h, from) - from]

Function(h, from) ==
    [lines     |-> SubSeq(h.addedLines, from, LastLine(h, from)),
     startLine |-> h.startLine + from - 1,
     endLine   |-> h.startLine + LastLine(h, from) - 1]

\* "Skip trivially small fragments"
Substantial(h, from) ==
    \E i \in from..LastLine(h, from) : Kind(h.addedLines[i]) \in {"plain", "function"}

\* One function for every line of the hunk that starts one.
Functions(h) ==
    FlattenSeq([i \in DOMAIN h.addedLines |->
                   IF IsStart(h, i) /\ Substantial(h, i) THEN <<Function(h, i)>> ELSE <<>>])

\* The functions of a hunk, or the whole hunk if it has none.
Snippets(h) ==
    IF Functions(h) # <<>> THEN Functions(h)
    ELSE << [lines     |-> h.addedLines,
             startLine |-> h.startLine,
             endLine   |-> h.startLine + Len(h.addedLines) - 1] >>

-----------------------------------------------------------------------------
(* extractHunks *)

\* The current hunk is complete.  The code collects the hunks of a file before
\* it looks for functions in them; they do not change in between.
Complete ==
    IF current.addedLines # <<>> THEN snippets \o Snippets(current) ELSE snippets

\* Mutant: a hunk is complete when the next header is read, and not else.
Returned_WithoutLast == snippets

\* What ExtractSnippets returns if the diff ends here: the last hunk is taken.
Returned == Complete

\* Mutant: the lines of the hunk before stay.
HunkHeader_KeepsLines(c) ==
    /\ Len(diff) < MaxLines /\ c \in number..number + 1
    /\ diff' = Append(diff, [kind |-> "header", file |-> file, hunk |-> Hunk + 1,
                             number |-> c])
    /\ snippets' = Complete
    /\ current' = [current EXCEPT !.startLine = c]
    /\ number' = c
    /\ UNCHANGED file

\* @@ -a,b +c,d @@
HunkHeader(c) ==
    /\ Len(diff) < MaxLines /\ c \in number..number + 1
    /\ diff' = Append(diff, [kind |-> "header", file |-> file, hunk |-> Hunk + 1,
                             number |-> c])
    /\ snippets' = Complete
    /\ current' = [startLine |-> c, addedLines |-> <<>>]
    /\ number' = c
    /\ UNCHANGED file

\* Added, and not taken for a file header.
Collected(kind) == kind \in {"plain", "blank", "function", "tiny", "short"}

Line(kind) ==
    /\ Len(diff) < MaxLines /\ current # NoHunk
    /\ diff' = Append(diff, [kind |-> kind, file |-> file, hunk |-> Hunk, number |-> number])
    /\ number' = IF kind = "removed" THEN number ELSE number + 1
    /\ current' = IF Collected(kind)
                  THEN [current EXCEPT !.addedLines = Append(@, Len(diff) + 1)]
                  ELSE current
    /\ UNCHANGED <<file, snippets>>

\* diff --git: the next file.
NextFile ==
    /\ current # NoHunk /\ file < MaxFiles
    /\ snippets' = Returned
    /\ file' = file + 1 /\ number' = 1
    /\ current' = NoHunk
    /\ UNCHANGED diff

-----------------------------------------------------------------------------
Next == (\E kind \in Kinds : Line(kind)) \/ (\E c \in 1..2 * MaxLines : HunkHeader(c)) \/ NextFile

Spec == Init /\ [][Next]_vars

\* FormatSnippetID, within one repository and commit.
SnippetID(s) == <<diff[s.lines[1]].file, s.startLine>>

-----------------------------------------------------------------------------
(* Properties *)

ToLines(s) == {s[i] : i \in DOMAIN s}
Extracted == UNION {ToLines(Returned[i].lines) : i \in DOMAIN Returned}

\* The place of a line's hunk header, and the lines of the hunk before it.
BeforeInHunk(p) == {q \in 1..p - 1 : diff[q].hunk = diff[p].hunk}

\* Snippets are taken from the diff in its order: each from one hunk, without
\* removed or unchanged lines, and no line is in two of them.
SnippetsInOrder ==
    /\ \A i \in DOMAIN Returned :
           LET lines == Returned[i].lines IN
           /\ \A a, b \in DOMAIN lines : a < b => lines[a] < lines[b]
           /\ \A p, q \in ToLines(lines) : Kind(p) \in Added /\ diff[p].hunk = diff[q].hunk
    /\ \A i, j \in DOMAIN Returned : i < j =>
           \A p \in ToLines(Returned[i].lines), q \in ToLines(Returned[j].lines) : p < q

\* An added line that is in no snippet starts with "++" (parser.go:173), is
\* blank, is in a function too small to be looked at (parser.go:216), or comes
\* before the first function of its hunk (parser.go:207).
LossIsKnown ==
    \A p \in Places : Kind(p) \in Added /\ p \notin Extracted =>
        \/ Kind(p) \in {"plusplus", "blank"}
        \/ \E q \in BeforeInHunk(p) \cup {p} :
               Kind(q) = "tiny" /\ \A r \in q..p : Kind(r) \notin {"plain", "function"}
        \/ /\ \A q \in BeforeInHunk(p) : Kind(q) \notin Boundary
           /\ \E q \in p..Len(diff) : diff[q].hunk = diff[p].hunk /\ Kind(q) \in Boundary

\* "FormatSnippetID creates a unique identifier for a code snippet"
\* (parser.go:234): no two snippets of a commit share one, although the number
\* in it is only a lower bound of the line's.
UniqueIDs ==
    \A i, j \in DOMAIN Returned : i # j => SnippetID(Returned[i]) # SnippetID(Returned[j])

\* The number of a snippet's first line is never too high, and it is right if
\* the hunk has neither context nor a line lost to "++" before it.
NumbersFromAbove ==
    \A i \in DOMAIN Returned :
        LET p == Returned[i].lines[1]
            skipped == {q \in BeforeInHunk(p) : Kind(q) \in {"context", "plusplus"}} IN
        /\ Returned[i].startLine <= diff[p].number
        /\ skipped = {} => Returned[i].startLine = diff[p].number
=============================================================================
