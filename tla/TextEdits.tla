-------------------------------- MODULE TextEdits ------------------------------
(***************************************************************************)
(* The two ways to change a piece of a file: applySurgicalPatch, which     *)
(* finds its target exactly or line by line with the blanks left aside,    *)
(* and the edits of edit_file, one after the other.  A text is a sequence  *)
(* of characters, with "nl" and "crlf" for the two ends of a line; "$&" is *)
(* the pair that String.replace takes for the text it found.               *)
(***************************************************************************)
EXTENDS Naturals, Sequences, SequencesExt, FiniteSets, FiniteSetsExt

Refused == [applied |-> FALSE, text |-> <<>>]
Applied(text) == [applied |-> TRUE, text |-> text]

Count(text, c) == Cardinality({i \in DOMAIN text : text[i] = c})
Replaced(text, c, d) == [i \in DOMAIN text |-> IF text[i] = c THEN d ELSE text[i]]

\* detectEol, normalizeLineEndings, applyEol.
DetectEol(text) ==
    LET crlf == Count(text, "crlf") IN
    IF crlf > 0 /\ crlf * 2 >= crlf + Count(text, "nl") THEN "crlf" ELSE "nl"
Normalized(text) == Replaced(text, "crlf", "nl")

ApplyEol(text, eol) == Replaced(text, "nl", eol)

Blank == {" ", "nl", "crlf"}
Trim(text) ==
    LET inked == {i \in DOMAIN text : text[i] \notin Blank} IN
    IF inked = {} THEN <<>> ELSE SubSeq(text, Min(inked), Max(inked))

\* The lines of a normalized text, character by character.
LineOn(lines, c) ==
    IF c = "nl" THEN Append(lines, <<>>) ELSE [lines EXCEPT ![Len(lines)] = Append(@, c)]
LinesOf(text) ==
    LET after[n \in 0..Len(text)] == IF n = 0 THEN <<<<>>>> ELSE LineOn(after[n - 1], text[n])
    IN  after[Len(text)]
JoinLines(lines) ==
    FlattenSeq([k \in DOMAIN lines |-> IF k = 1 THEN lines[k] ELSE <<"nl">> \o lines[k]])

\* Where s stands in text.
Occurrences(text, s) ==
    {i \in 1..(Len(text) - Len(s) + 1) : SubSeq(text, i, i + Len(s) - 1) = s}

Splice(text, from, length, new) ==
    SubSeq(text, 1, from - 1) \o new \o SubSeq(text, from + length, Len(text))

-----------------------------------------------------------------------------
(* applySurgicalPatch. *)

\* Another place behind the first one.
FoundAgain(text, target, first) ==
    \E i \in Occurrences(text, target) : i >= first + Len(target)

\* The lines from k on are the target's, blanks aside.
LinesMatch(lines, target, k) ==
    \A j \in DOMAIN target : Trim(lines[k + j - 1]) = target[j]

ApplySurgicalPatch(original, targetCode, replacementCode) ==
    LET eol == DetectEol(original)
        text == Normalized(original)
        target == Trim(Normalized(targetCode))
        replacement == Normalized(replacementCode)
        exact == Occurrences(text, target)
        lines == LinesOf(text)
        targetLines == [k \in DOMAIN LinesOf(target) |-> Trim(LinesOf(target)[k])]
        near == {k \in 1..(Len(lines) - Len(targetLines) + 1) : LinesMatch(lines, targetLines, k)}
    IN  IF target = <<>> THEN Refused
        ELSE IF exact # {}
        THEN IF FoundAgain(text, target, Min(exact)) THEN Refused
             ELSE Applied(ApplyEol(Splice(text, Min(exact), Len(target), replacement), eol))
        ELSE IF Cardinality(near) = 1
        THEN Applied(ApplyEol(
                JoinLines(Splice(lines, Min(near), Len(targetLines), LinesOf(replacement))), eol))
        ELSE Refused

-----------------------------------------------------------------------------
(* edit_file. *)

\* The places that splitting at s finds, from the left, none over another.
PlaceOn(found, i, length) ==
    IF found # <<>> /\ i < Last(found) + length THEN found ELSE Append(found, i)
Places(text, s) ==
    LET there == Occurrences(text, s)
        found[n \in 0..Len(text)] ==
            IF n = 0 THEN <<>>
            ELSE IF n \in there THEN PlaceOn(found[n - 1], n, Len(s)) ELSE found[n - 1]
    IN  found[Len(text)]

\* What String.replace puts in the place of old.
Expanded(new, old) ==
    FlattenSeq([i \in DOMAIN new |-> IF new[i] = "$&" THEN old ELSE <<new[i]>>])

\* split and join.
EveryPlace(text, old, new) ==
    FoldLeft(LAMBDA working, i : Splice(working, i, Len(old), new), text, Reverse(Places(text, old)))

\* Mutant of Ambiguous: the first place is taken.
AmbiguousNot(places, edit) == FALSE

Ambiguous(places, edit) == Len(places) > 1 /\ ~edit.replaceAll

\* An empty old text would stand everywhere.
EditOnce(working, edit) ==
    LET places == Places(working, edit.old) IN
    IF edit.old = <<>> \/ places = <<>> \/ Ambiguous(places, edit) THEN Refused
    ELSE IF edit.replaceAll THEN Applied(EveryPlace(working, edit.old, edit.new))
    ELSE Applied(Splice(working, Head(places), Len(edit.old), Expanded(edit.new, edit.old)))

\* stageFileWrite: the whole text takes the end of line that the file has most.
Staged(content, text) == ApplyEol(Normalized(text), DetectEol(content))

\* All the edits or none: the first refusal is the answer.
EditNext(file, edit) == IF file.applied THEN EditOnce(file.text, edit) ELSE Refused
EditFile(content, edits) ==
    LET after[n \in 0..Len(edits)] ==
            IF n = 0 THEN Applied(content) ELSE EditNext(after[n - 1], edits[n])
        edited == after[Len(edits)]
    IN  IF edited.applied THEN Applied(Staged(content, edited.text)) ELSE Refused

-----------------------------------------------------------------------------

\* One place of the text was replaced, and there was no second one beside it.
ReplacesOnePlace(text, old, new, result) ==
    /\ \E i \in Occurrences(text, old) : result = Splice(text, i, Len(old), new)
    /\ \A i, j \in Occurrences(text, old) : i < j => j < i + Len(old)

\* At most one end of line.
Uniform(text) == Count(text, "nl") = 0 \/ Count(text, "crlf") = 0

\* What lies around the changed lines keeps its bytes when the file has one end
\* of line; the new text gets that end, and the old one stood nowhere else.
PatchIsLocal(original, target, replacement) ==
    LET patch == ApplySurgicalPatch(original, target, replacement)
        wanted == Trim(Normalized(target))
        eol == DetectEol(original)
        new == ApplyEol(Normalized(replacement), eol) IN
    patch.applied /\ Uniform(original) =>
        \/ ReplacesOnePlace(original, ApplyEol(wanted, eol), new, patch.text)
        \/ /\ Occurrences(original, ApplyEol(wanted, eol)) = {}
           /\ \E i \in 1..(Len(original) + 1) : \E n \in 0..(Len(original) + 1 - i) :
            LET piece == Normalized(SubSeq(original, i, i + n - 1)) IN
            /\ [k \in DOMAIN LinesOf(piece) |-> Trim(LinesOf(piece)[k])]
                = [k \in DOMAIN LinesOf(wanted) |-> Trim(LinesOf(wanted)[k])]
            /\ patch.text = Splice(original, i, n, new)

\* "exact-string replacements" (tool-runtime/src/index.ts:700): where the old
\* text stood, and no second time beside it, stands the new one, the ends of
\* line aside; and in a file with one end of line nothing else changes.
EditIsExact(content, edit) ==
    LET result == EditFile(content, <<edit>>)
        given == ApplyEol(Normalized(edit.new), DetectEol(content)) IN
    result.applied /\ ~edit.replaceAll =>
        /\ \E i \in Occurrences(content, edit.old) :
              /\ Normalized(result.text) = Normalized(Splice(content, i, Len(edit.old), edit.new))
              /\ Uniform(content) => result.text = Splice(content, i, Len(edit.old), given)
        /\ \A i, j \in Occurrences(content, edit.old) : i < j => j < i + Len(edit.old)

\* "Must not silently change its line endings" (patch-engine/src/index.ts:279),
\* of an edit that names no "$&".  False of a file with both ends of line: the
\* rarer ones change with any edit.
EndsOfLineStay(content, edit) ==
    LET result == EditFile(content, <<edit>>)
        given == ApplyEol(Normalized(edit.new), DetectEol(content)) IN
    result.applied /\ ~edit.replaceAll =>
        \E i \in Occurrences(content, edit.old) : result.text = Splice(content, i, Len(edit.old), given)
================================================================================
