---------------------------------- MODULE Diff ---------------------------------
(***************************************************************************)
(* The unified-diff engine: an edit script by the O(ND) search, hunks with *)
(* context around it, and the application of hunks to a text, which takes  *)
(* them at their place or refuses.  A text is a sequence of lines and the   *)
(* flag of its last newline; a line that ends a text without one is keyed   *)
(* so that it differs from the same line with one.                          *)
(***************************************************************************)
EXTENDS Integers, Sequences, SequencesExt, FiniteSets, FiniteSetsExt

CONSTANT MaxEditDistance  \* the bound MAX_EDIT_DISTANCE

ASSUME DiffAssumption == MaxEditDistance \in Nat

Text(lines, nl) == [lines |-> lines, endsWithNewline |-> nl]

\* keyLines.
Keyed(t) ==
    [i \in DOMAIN t.lines |->
        [text |-> t.lines[i], noNewline |-> i = Len(t.lines) /\ ~t.endsWithNewline]]

\* Back from keyed lines; an empty text has no last newline.
Unkeyed(keyed) ==
    Text([i \in DOMAIN keyed |-> keyed[i].text], keyed # <<>> /\ ~Last(keyed).noNewline)

Op(kind, line) == [kind |-> kind, line |-> line]
All(kind, lines) == [i \in DOMAIN lines |-> Op(kind, lines[i])]

-----------------------------------------------------------------------------
(* The edit script. *)

CommonHead(a, b) ==
    LET shorter == Min({Len(a), Len(b)})
    IN  Min({n \in 0..shorter : n = shorter \/ a[n + 1] # b[n + 1]})
CommonTail(a, b) == CommonHead(Reverse(a), Reverse(b))

\* The x the diagonal k reaches in round d, from the round before.
FromAbove(v, d, k) == k = -d \/ (k # d /\ v[k - 1] < v[k + 1])

Snake(a, b, x, k) ==
    x + CommonHead(SubSeq(a, x + 1, Len(a)), SubSeq(b, x - k + 1, Len(b)))

Reach(a, b, v, d, k) ==
    LET x == IF FromAbove(v, d, k) THEN v[k + 1] ELSE v[k - 1] + 1
    IN  IF x > Len(a) \/ x - k > Len(b) THEN x ELSE Snake(a, b, x, k)

\* Round d moves every other diagonal, in place.
Round(a, b, v, d) ==
    FoldLeft(LAMBDA w, k : [w EXCEPT ![k] = Reach(a, b, w, d, k)],
             v, [i \in 1..(d + 1) |-> 2 * (i - 1) - d])

\* The last round the search goes to.
Limit(a, b) == Min({Len(a) + Len(b), MaxEditDistance})

\* trace[d + 1]: the diagonals before round d.
Trace(a, b) ==
    LET width == Len(a) + Len(b) + 1
    IN  FoldLeft(LAMBDA trace, d : Append(trace, Round(a, b, Last(trace), d)),
                 <<[k \in -width..width |-> 0]>>, [i \in 1..(Limit(a, b) + 1) |-> i - 1])

\* Round d reaches the end of both texts.
Solved(a, b, trace, d) ==
    \E k \in -d..d : (k + d) % 2 = 0 /\ trace[d + 2][k] >= Len(a) /\ trace[d + 2][k] - k >= Len(b)

PrevDiagonal(v, d, k) == IF FromAbove(v, d, k) THEN k + 1 ELSE k - 1

\* One round of the walk back from at = [x, y]: the snake, then its edit.
StepBack(a, b, v, d, at) ==
    LET prevK == PrevDiagonal(v, d, at.x - at.y)
        prevX == v[prevK]
        prevY == prevX - prevK
        snake == Max({0, Min({at.x - prevX, at.y - prevY})})
        x == at.x - snake
        y == at.y - snake
        edit == IF x = prevX THEN Op("insert", b[y]) ELSE Op("delete", a[x])
    IN  [x |-> IF x = prevX THEN x ELSE x - 1,
         y |-> IF x = prevX THEN y - 1 ELSE y,
         ops |-> <<edit>> \o All("equal", SubSeq(a, x + 1, at.x)) \o at.ops]

Backtrack(a, b, trace, solvedAt) ==
    LET end == FoldRight(LAMBDA d, at : StepBack(a, b, trace[d + 1], d, at),
                         [i \in 1..solvedAt |-> i],
                         [x |-> Len(a), y |-> Len(b), ops |-> <<>>])
    IN  All("equal", SubSeq(a, 1, Min({end.x, end.y}))) \o end.ops

\* An exhaustive rewrite.
Rewrite(a, b) == All("delete", a) \o All("insert", b)

\* myersMiddle: a rewrite when nothing is shared, and when the search ends
\* before it has a script.
Middle(a, b) ==
    LET trace == Trace(a, b)
        solved == {d \in 0..Limit(a, b) : Solved(a, b, trace, d)}
    IN  IF ToSet(a) \cap ToSet(b) = {} \/ solved = {} THEN Rewrite(a, b)
        ELSE Backtrack(a, b, trace, Min(solved))

DiffLines(old, new) ==
    LET a == Keyed(old)
        b == Keyed(new)
        head == CommonHead(a, b)
        tail == CommonTail(SubSeq(a, head + 1, Len(a)), SubSeq(b, head + 1, Len(b)))
    IN  All("equal", SubSeq(a, 1, head))
        \o Middle(SubSeq(a, head + 1, Len(a) - tail), SubSeq(b, head + 1, Len(b) - tail))
        \o All("equal", SubSeq(a, Len(a) - tail + 1, Len(a)))

-----------------------------------------------------------------------------
(* Hunks. *)

CountOf(ops, first, last, kinds) == Cardinality({i \in first..last : ops[i].kind \in kinds})
OldSide == {"equal", "delete"}
NewSide == {"equal", "insert"}

\* Changes closer than two contexts are one group.
Groups(ops, context) ==
    LET changed == SelectSeq([i \in DOMAIN ops |-> i], LAMBDA i : ops[i].kind # "equal")
        AddTo(i, groups) ==
            IF groups # <<>> /\ i - Last(groups)[2] - 1 <= 2 * context
            THEN [groups EXCEPT ![Len(groups)] = <<@[1], i>>]
            ELSE Append(groups, <<i, i>>)
    IN  FoldLeft(LAMBDA groups, i : AddTo(i, groups), <<>>, changed)

\* A side starts at the first line it contributes; one that contributes
\* nothing names the line it goes after.
StartOf(ops, first, last, kinds) ==
    CountOf(ops, 1, first - 1, kinds) + (IF CountOf(ops, first, last, kinds) > 0 THEN 1 ELSE 0)

BuildHunks(ops, context) ==
    LET groups == Groups(ops, context)
        Hunk(g) ==
            LET first == Max({1, g[1] - context})
                last == Min({Len(ops), g[2] + context})
            IN  [oldStart |-> StartOf(ops, first, last, OldSide),
                 oldCount |-> CountOf(ops, first, last, OldSide),
                 newStart |-> StartOf(ops, first, last, NewSide),
                 newCount |-> CountOf(ops, first, last, NewSide),
                 lines |-> SubSeq(ops, first, last)]
    IN  [i \in DOMAIN groups |-> Hunk(groups[i])]

\* formatUnifiedPatch, then parseUnifiedPatch: the body is read until both
\* counts are satisfied.  A removed line that prints like a file header
\* (headerLike: "-- ..." behind its minus) is refused, and so is the whole patch.
Parses(hunks, headerLike) ==
    \A h \in ToSet(hunks) : \A op \in ToSet(h.lines) :
        ~(op.kind = "delete" /\ op.line.text \in headerLike)

-----------------------------------------------------------------------------
(* Application, without fuzz. *)

\* Where a hunk goes; a zero-count side names the line before.
Anchor(h) == IF h.oldCount = 0 THEN h.oldStart ELSE h.oldStart - 1

Side(h, kinds) == LET ops == SelectSeq(h.lines, LAMBDA op : op.kind \in kinds)
                  IN  [i \in DOMAIN ops |-> ops[i].line]

\* In order, not overlapping, and every line of the old side as it says.
Fits(keyed, cursor, h) ==
    /\ Anchor(h) >= cursor /\ Anchor(h) + Len(Side(h, OldSide)) <= Len(keyed)
    /\ SubSeq(keyed, Anchor(h) + 1, Anchor(h) + Len(Side(h, OldSide))) = Side(h, OldSide)

\* The result of a call that may throw.
Thrown == [ok |-> FALSE]
Value(text) == [ok |-> TRUE, text |-> text]

\* applyParsedPatch: one hunk that does not fit refuses the patch.
Apply(old, hunks) ==
    LET keyed == Keyed(old)
        Step(acc, h) ==
            IF ~acc.ok \/ ~Fits(keyed, acc.cursor, h) THEN [acc EXCEPT !.ok = FALSE]
            ELSE [ok |-> TRUE,
                  out |-> acc.out \o SubSeq(keyed, acc.cursor + 1, Anchor(h)) \o Side(h, NewSide),
                  cursor |-> Anchor(h) + Len(Side(h, OldSide))]
        end == FoldLeft(Step, [ok |-> TRUE, out |-> <<>>, cursor |-> 0], hunks)
    IN  IF ~end.ok THEN Thrown
        ELSE Value(Unkeyed(end.out \o SubSeq(keyed, end.cursor + 1, Len(keyed))))

-----------------------------------------------------------------------------
(* What is checked, for one pair of texts. *)

\* The length of the longest sequence that is a subsequence of both.
Subsequences(s) == {[i \in 1..Cardinality(at) |->
                        s[CHOOSE n \in at : Cardinality({m \in at : m <= n}) = i]]
                    : at \in SUBSET DOMAIN s}
Lcs(a, b) == Max({Len(s) : s \in Subsequences(a) \cap Subsequences(b)})

\* The script is as short as a script can be, if that is within the bound.
IsShortest(old, new) ==
    LET ops == DiffLines(old, new)
        shortest == Len(old.lines) + Len(new.lines) - 2 * Lcs(Keyed(old), Keyed(new))
    IN  shortest <= MaxEditDistance =>
            CountOf(ops, 1, Len(ops), {"insert", "delete"}) = shortest

\* The patch made from old and new, on a third text: it changes the text only
\* where every line it names is there, and it makes new out of old.
AppliesExactly(old, new, third, context, headerLike) ==
    LET hunks == BuildHunks(DiffLines(old, new), context)
        keyed == Keyed(third)
        result == Apply(third, hunks)
    IN  Parses(hunks, headerLike) =>
          /\ third = old => result = Value(new)
          /\ result.ok => \A h \in ToSet(hunks) :
                SubSeq(keyed, Anchor(h) + 1, Anchor(h) + h.oldCount) = Side(h, OldSide)
================================================================================
