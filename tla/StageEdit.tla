----------------------------- MODULE StageEdit -----------------------------
(***************************************************************************)
(* One file of the stage and the tools that read, write and edit it        *)
(* (goal_native/sandbox.py: Sandbox.read, write and edit).                 *)
(*                                                                         *)
(* The tools of a run are called one after the other, but a script that    *)
(* has outlived its call, or the human, may write to the file at any time. *)
(* An edit names the hash of the text it was thought out for; the text is  *)
(* hashed three times before os.replace.  A Ctrl-C can be raised anywhere  *)
(* in a tool, and the process can die.                                     *)
(*                                                                         *)
(* A text is a sequence of characters, NL is the only line boundary, and a *)
(* SHA-256 is the text it was taken of.  The file's inode and modification *)
(* time are one number that every change of the file advances: a change    *)
(* that keeps size and time within their resolution is not considered.     *)
(* Sizes, UTF-8 and the checks of the path are left out.                   *)
(***************************************************************************)
EXTENDS Naturals, Sequences, FiniteSets, SequencesExt

CONSTANTS
    NL,             \* the newline character
    EditTexts,      \* texts that are written to the file, and edited
    Replacements,   \* texts that edits put in
    MaxLine,        \* bound on the line numbers of edits and reads
    MaxColumn,      \* bound on the column numbers of edits
    MaxEditCount,   \* bound on the edits of one call
    MaxStamp        \* bound on the changes of the file

ASSUME EditAssumption ==
    /\ \A t \in EditTexts \cup Replacements : t \in Seq(UNION {ToSet(u) : u \in EditTexts \cup Replacements})
    /\ {MaxLine, MaxColumn, MaxEditCount, MaxStamp} \subseteq Nat

VARIABLES
    file,           \* the text at the path and its stamp
    temporary,      \* the text of the temporary file beside it, if any
    read,           \* what the last read or edit has answered
    tool            \* the call in progress

editVars == <<file, temporary, read, tool>>

Idle == [at |-> "idle"]
NoText == {}        \* a set of at most one text

-----------------------------------------------------------------------------
(* Lines and positions.                                                    *)

Breaks(t) == {k \in DOMAIN t : t[k] = NL}
EndsInBreak(t) == t # <<>> /\ Last(t) = NL
LineCount(t) == Cardinality(Breaks(t)) + (IF t = <<>> \/ EndsInBreak(t) THEN 0 ELSE 1)

\* The offset behind the n-th line, its newline included.
LineEnd(t, n) ==
    IF n = 0 THEN 0
    ELSE IF n > Cardinality(Breaks(t)) THEN Len(t)
    ELSE CHOOSE k \in Breaks(t) : Cardinality({j \in Breaks(t) : j <= k}) = n

BodyLength(t, n) ==
    LineEnd(t, n) - LineEnd(t, n - 1) - (IF n <= Cardinality(Breaks(t)) THEN 1 ELSE 0)

\* _text_position: the offset, or nothing where it raises.
TextPosition(t, line, column) ==
    CASE t = <<>>                -> IF line = 1 /\ column = 1 THEN {0} ELSE {}
      [] line = LineCount(t) + 1 -> IF column = 1 /\ EndsInBreak(t) THEN {Len(t)} ELSE {}
      [] line > LineCount(t) + 1 -> {}
      [] OTHER                   -> IF column > BodyLength(t, line) + 1 THEN {}
                                    ELSE {LineEnd(t, line - 1) + column - 1}

-----------------------------------------------------------------------------
(* The edits of one call.                                                  *)

Positions == (1 .. MaxLine) \X (1 .. MaxColumn)
Anchors == UNION {{SubSeq(t, i, j) : i, j \in DOMAIN t} : t \in EditTexts} \ {<<>>}
EditRequests ==
    [kind: {"range"}, from: Positions, to: Positions, replacement: Replacements]
        \cup [kind: {"anchor"}, old: Anchors, replacement: Replacements]
EditLists == UNION {[1 .. n -> EditRequests] : n \in 1 .. MaxEditCount}

\* The spans an edit may mean: one, or none where it is refused (a position
\* outside the text, an end before the start, an anchor that occurs twice).
Occurrences(t, old) ==
    {k \in 0 .. Len(t) : k + Len(old) <= Len(t) /\ SubSeq(t, k + 1, k + Len(old)) = old}

Spans(t, e) ==
    IF e.kind = "range"
    THEN {[start |-> a, end |-> b, replacement |-> e.replacement] :
            a \in TextPosition(t, e.from[1], e.from[2]),
            b \in {k \in TextPosition(t, e.to[1], e.to[2]) :
                    \A l \in TextPosition(t, e.from[1], e.from[2]) : l <= k}}
    ELSE {[start |-> k, end |-> k + Len(e.old), replacement |-> e.replacement] :
            k \in {l \in Occurrences(t, e.old) : Cardinality(Occurrences(t, e.old)) = 1}}

Before(a, b) == a.start < b.start \/ (a.start = b.start /\ a.end <= b.end)
Ordered(spans) ==
    LET place == CHOOSE p \in Bijection(DOMAIN spans, DOMAIN spans) :
                    \A i, j \in DOMAIN spans : i < j => Before(spans[p[i]], spans[p[j]])
    IN  [i \in DOMAIN spans |-> spans[place[i]]]

\* Mutant of Overlap: only edits of the same place are refused.
SameStart(ordered) == \E i \in 1 .. Len(ordered) - 1 : ordered[i].start = ordered[i + 1].start

Overlap(ordered) ==
    \E i \in 1 .. Len(ordered) - 1 :
        LET a == ordered[i]
            b == ordered[i + 1]
        IN  b.start < a.end \/ (a.start = b.start /\ a.end = b.start)

\* From the back: what follows the span, its replacement, and what is before.
Put(t, done, s) ==
    [text |-> s.replacement \o SubSeq(t, s.end + 1, done.cursor) \o done.text,
     cursor |-> s.start]

Rebuilt(t, ordered) ==
    LET n == Len(ordered)
        back[k \in 0 .. n] == IF k = 0 THEN [text |-> <<>>, cursor |-> Len(t)]
                              ELSE Put(t, back[k - 1], ordered[n + 1 - k])
    IN  SubSeq(t, 1, back[n].cursor) \o back[n].text

\* What the edits make of t, or nothing where one of them is refused or two
\* overlap.
Edited(t, edits) ==
    LET spans == [i \in DOMAIN edits |-> CHOOSE s \in Spans(t, edits[i]) : TRUE]
        ordered == Ordered(spans)
    IN  IF (\E i \in DOMAIN edits : Spans(t, edits[i]) = {}) \/ Overlap(ordered)
        THEN {}
        ELSE {[spans |-> ToSet(spans), text |-> Rebuilt(t, ordered)]}

-----------------------------------------------------------------------------
(* The tools.                                                              *)

Changed(text) == file' = [text |-> text, stamp |-> file.stamp + 1]

\* Sandbox.read of a range of lines, and of the whole text's hash.
ReadLines(first, last) ==
    /\ tool = Idle /\ first <= last
    /\ LET end == IF last < LineCount(file.text) THEN last ELSE LineCount(file.text) IN
       read' = {[hash |-> file.text, first |-> first, last |-> end,
                 content |-> IF first <= LineCount(file.text)
                             THEN SubSeq(file.text, LineEnd(file.text, first - 1) + 1,
                                         LineEnd(file.text, end))
                             ELSE <<>>]}
    /\ UNCHANGED <<file, temporary, tool>>

\* Sandbox.write truncates the file and then writes it, piece by piece.
WriteTool(text) ==
    /\ tool = Idle /\ file.stamp < MaxStamp
    /\ Changed(<<>>)
    /\ tool' = [at |-> "writing", text |-> text, done |-> 0]
    /\ UNCHANGED <<temporary, read>>

WritePiece(n) ==
    /\ tool.at = "writing"
    /\ tool.done + n <= Len(tool.text)
    /\ file' = [file EXCEPT !.text = SubSeq(tool.text, 1, tool.done + n)]
    /\ tool' = IF tool.done + n = Len(tool.text) THEN Idle ELSE [tool EXCEPT !.done = @ + n]
    /\ UNCHANGED <<temporary, read>>

\* The beginning of Sandbox.edit, up to the text to write: the hash is the one
\* the last read or edit answered, whatever the file holds by now.
BeginEdit ==
    /\ tool = Idle /\ file.stamp < MaxStamp /\ file.text \in EditTexts
    /\ \E r \in read : file.text = r.hash
    /\ \E edits \in EditLists : \E result \in Edited(file.text, edits) :
        tool' = [at |-> "computed", expected |-> file, spans |-> result.spans,
                 output |-> result.text, late |-> FALSE]
    /\ UNCHANGED <<file, temporary, read>>

\* The file is compared, and the temporary file written beside it.
VerifyEdit ==
    /\ tool.at = "computed"
    /\ IF file = tool.expected
       THEN temporary' = {tool.output} /\ tool' = [tool EXCEPT !.at = "written"]
       ELSE tool' = Idle /\ UNCHANGED temporary
    /\ UNCHANGED <<file, read>>

\* The last comparison; a refused edit removes its temporary file.
CheckEdit ==
    /\ tool.at = "written"
    /\ IF file = tool.expected
       THEN tool' = [tool EXCEPT !.at = "checked"] /\ UNCHANGED temporary
       ELSE tool' = Idle /\ temporary' = NoText
    /\ UNCHANGED <<file, read>>

\* What an edit answers: the hash of the text it has written, and no line of it.
EditAnswer(text) ==
    [hash |-> text, first |-> LineCount(text) + 1, last |-> LineCount(text), content |-> <<>>]

\* os.replace, and the answer, unless a Ctrl-C comes before it.
ReplaceFile ==
    /\ tool.at = "checked"
    /\ file' = [text |-> tool.output, stamp |-> file.stamp + 1]
    /\ temporary' = NoText
    /\ tool' = Idle
    /\ read' = {EditAnswer(tool.output)} \/ UNCHANGED read

\* A Ctrl-C or an error inside a tool.
InterruptTool ==
    /\ tool # Idle
    /\ tool' = Idle
    /\ temporary' = NoText
    /\ UNCHANGED <<file, read>>

\* The process dies; a run of another one continues with a copy of the stage.
DieInTool ==
    /\ tool # Idle
    /\ tool' = Idle
    /\ UNCHANGED <<file, temporary, read>>

\* A script or the human writes the file, a tool being busy with it or not.
WriteBeside(text) ==
    /\ file.stamp < MaxStamp
    /\ Changed(text)
    /\ tool' = IF tool.at = "checked" THEN [tool EXCEPT !.late = TRUE] ELSE tool
    /\ UNCHANGED <<temporary, read>>

-----------------------------------------------------------------------------

EditInit ==
    /\ file \in {[text |-> t, stamp |-> 0] : t \in EditTexts}
    /\ temporary = NoText
    /\ read = {}
    /\ tool = Idle

EditNext ==
    \/ \E first, last \in 1 .. MaxLine : ReadLines(first, last)
    \/ \E t \in EditTexts : WriteTool(t) \/ WriteBeside(t)
    \/ \E n \in 0 .. 2 : WritePiece(n)
    \/ BeginEdit \/ VerifyEdit \/ CheckEdit \/ ReplaceFile
    \/ InterruptTool \/ DieInTool

EditSpec == EditInit /\ [][EditNext]_editVars

-----------------------------------------------------------------------------
(* Properties.                                                             *)

\* What all the edits mean at once: wherever a span starts its replacement
\* stands, and a character inside a span is gone.
Inserted(spans, k) ==
    LET here == {s \in spans : s.start = k} IN
    IF here = {} THEN <<>> ELSE (CHOOSE s \in here : TRUE).replacement
Remains(t, spans, k) ==
    IF \E s \in spans : s.start < k /\ k <= s.end THEN <<>> ELSE <<t[k]>>

Simultaneous(t, spans) ==
    LET upTo[k \in 0 .. Len(t)] ==
            IF k = 0 THEN Inserted(spans, 0)
            ELSE upTo[k - 1] \o Remains(t, spans, k) \o Inserted(spans, k)
    IN  upTo[Len(t)]

\* docs/API.md, "All edits address the original file" and "stale bytes reject
\* before atomic replacement": an edit puts all its replacements at once into
\* the text that was read, in whatever order they came; a change by anybody
\* else is overwritten only when it came after the last check; and an edit of
\* the lines that a read has shown takes away exactly what was shown.
EditsMeanWhatWasRead ==
    [][(tool.at = "checked" /\ tool' = Idle /\ file' # file) =>
        LET t == tool.expected.text IN
        /\ file'.text = Simultaneous(t, tool.spans)
        /\ file = tool.expected \/ tool.late
        /\ \A r \in read, s \in tool.spans :
            /\ TextPosition(t, r.first, 1) = {s.start}
            /\ TextPosition(t, r.last + 1, 1) = {s.end}
            => SubSeq(t, s.start + 1, s.end) = r.content]_editVars
=============================================================================
