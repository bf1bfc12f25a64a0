------------------------------- MODULE ShellRules ------------------------------
(***************************************************************************)
(* The review of a shell command line.  A line is a sequence of lexemes:   *)
(* words of the classes the rule tables tell apart, blanks, quotes and     *)
(* operators.  It is cut into segments at the joiners outside quotes and   *)
(* parentheses; every segment gets the verdict of the first table that     *)
(* matches it, the line the strictest one, and structure that no segment   *)
(* shows (a substitution, a written redirection, a subshell, the           *)
(* background) can only raise it to "ask".                                 *)
(***************************************************************************)
EXTENDS Integers, Sequences, SequencesExt, FiniteSets, FiniteSetsExt

Severity(verdict) == CASE verdict = "allow" -> 0 [] verdict = "ask" -> 1 [] OTHER -> 2

\* ";" stands for the end of a line too.
Joiners == {";", "|"}
DoubleJoiners == {<<"&", "&">>, <<"|", "|">>, <<"|", "&">>}

-----------------------------------------------------------------------------
(* Parsing. *)

\* The index of the parenthesis that closes the one at i, or the last index.
ClosingParen(line, i) ==
    LET Depth(j) == Cardinality({n \in i..j : line[n] \in {"(", "$("}})
                      - Cardinality({n \in i..j : line[n] = ")"})
        closing == {j \in i..Len(line) : line[j] = ")" /\ Depth(j) = 0}
    IN  IF closing = {} THEN Len(line) ELSE Min(closing)

Follows(line, i, ch) == i < Len(line) /\ line[i + 1] = ch

\* Where the joiner at i ends, or 0.
JoinerEnds(line, i) ==
    IF i < Len(line) /\ SubSeq(line, i, i + 1) \in DoubleJoiners THEN i + 1
    ELSE IF line[i] \in Joiners THEN i ELSE 0

\* Where the sign of a redirection at i ends: ">>" and "<>" are one sign.
SignEnds(line, i) == IF Follows(line, i, ">") THEN i + 1 ELSE i

\* The target behind a sign that ends at i: behind blanks, up to the next blank
\* or operator.  Its quotes are not looked at.
TargetEnds(line, i) ==
    LET start == Min({j \in (i + 1)..(Len(line) + 1) : j > Len(line) \/ line[j] # " "})
    IN  Min({j \in start..(Len(line) + 1) : j > Len(line) \/ line[j] \in {" ", ";", "|", "&", "<", ">"}}) - 1
HasTarget(line, i) == \E j \in (i + 1)..TargetEnds(line, i) : line[j] # " "

\* The parser between two lexemes; next is the first one not yet consumed.
Start == [segments |-> <<>>, current |-> <<>>, quoted |-> FALSE, depth |-> 0,
          next |-> 1, features |-> {}]

Take(p, line, last) ==
    [p EXCEPT !.current = @ \o SubSeq(line, p.next, last), !.next = last + 1]
Flush(p) == [p EXCEPT !.segments = Append(@, p.current), !.current = <<>>]
Noting(p, feature) == [p EXCEPT !.features = @ \cup {feature}]

\* A redirection at i, with its target if it has one.
Redirect(p, line, i) ==
    LET sign == SignEnds(line, i)
        noted == IF HasTarget(line, sign)
                 THEN Noting(p, IF line[i] = ">" THEN "write" ELSE "read") ELSE p
    IN  Take(noted, line, TargetEnds(line, sign))

\* "<(" is a subshell, not a redirection, and ">&" merges descriptors.
Lexeme(p, line, i) ==
    LET ch == line[i] IN
    IF ch = "'" THEN Take([p EXCEPT !.quoted = ~@], line, i)
    ELSE IF p.quoted THEN Take(p, line, i)
    ELSE IF ch = "$(" THEN Take(Noting(p, "substitution"), line, ClosingParen(line, i))
    ELSE IF ch = "(" THEN Take([Noting(p, "subshell") EXCEPT !.depth = @ + 1], line, i)
    ELSE IF ch = ")" THEN Take([p EXCEPT !.depth = Max({0, @ - 1})], line, i)
    ELSE IF p.depth > 0 THEN Take(p, line, i)
    ELSE IF ch \in {"<", ">"} /\ Follows(line, i, "&") THEN Take(p, line, i + 1)
    ELSE IF ch \in {"<", ">"} /\ ~Follows(line, i, "(") THEN Redirect(p, line, i)
    ELSE IF ch = "&" /\ ~Follows(line, i, "&") /\ (i > 1 => line[i - 1] # "&")
         THEN Take(Noting(p, "background"), line, i)
    ELSE IF JoinerEnds(line, i) > 0 THEN [Flush(p) EXCEPT !.next = JoinerEnds(line, i) + 1]
    ELSE Take(p, line, i)

\* parseShellSegments; blank segments are dropped.
ParseShellSegments(line) ==
    LET end == FoldLeft(LAMBDA p, i : IF i < p.next THEN p ELSE Lexeme(p, line, i),
                        Start, [i \in 1..Len(line) |-> i])
        IsBlank(s) == \A i \in DOMAIN s : s[i] = " "
    IN  [segments |-> SelectSeq(Flush(end).segments, LAMBDA s : ~IsBlank(s)),
         features |-> end.features]

\* Quoted regions become one placeholder: rules match structure, not data.
RedactQuotedArguments(text) ==
    LET Quotes(i) == Cardinality({j \in 1..i : text[j] = "'"})
        outside == SelectSeq([i \in DOMAIN text |-> i], LAMBDA i :
                        Quotes(i) % 2 = 0 \/ (text[i] = "'" /\ Quotes(i) % 2 = 1))
        kept == SelectSeq(outside, LAMBDA i : text[i] # "'" \/ Quotes(i) % 2 = 1)
    IN  [n \in DOMAIN kept |-> IF text[kept[n]] = "'" THEN "quoted" ELSE text[kept[n]]]

-----------------------------------------------------------------------------
(* The tables, by the words that stand for their patterns. *)

Mentions(text, word) == \E i \in DOMAIN text : text[i] = word

\* DENY_RULES: a program that is never run, or output piped into a shell.
PipesIntoShell(text) ==
    \E i, j \in DOMAIN text : i < j /\ text[i] = "|" /\ text[j] = "sh"
                              /\ \A n \in (i + 1)..(j - 1) : text[n] = " "
Denied(text) == Mentions(text, "mkfs") \/ PipesIntoShell(text)

\* ASK_RULES.
Asked(text) == Mentions(text, "rm")

\* ALLOW_RULES: the program the text starts with only reads.
Allowed(text) ==
    \E i \in DOMAIN text : text[i] = "ls" /\ \A n \in 1..(i - 1) : text[n] = " "

\* loadUserShellRules: of each list, the patterns that compile.
LoadUserShellRules(rules) == [kind \in {"allow", "ask", "deny"} |-> rules[kind] \ {"broken"}]
UserMatches(user, kind, text) == \E word \in user[kind] : Mentions(text, word)

\* classifySegment: what the user said, then deny, ask, allow; unknown asks.
ClassifySegment(segment, user) ==
    LET text == RedactQuotedArguments(segment) IN
    IF UserMatches(user, "deny", text) THEN "deny"
    ELSE IF UserMatches(user, "ask", text) THEN "ask"
    ELSE IF UserMatches(user, "allow", text) THEN "allow"
    ELSE IF Denied(text) THEN "deny"
    ELSE IF ~Asked(text) /\ Allowed(text) THEN "allow"
    ELSE "ask"

\* CROSS_SEGMENT_DENY_RULES, with the user's and the table's, on the line.
CrossSegmentDenied(line, user) ==
    LET text == RedactQuotedArguments(line) IN UserMatches(user, "deny", text) \/ Denied(text)

Raising == {"substitution", "write", "subshell", "background"}

\* Mutant of Strictest: the last segment decides.
StrictestLast(verdicts, features) ==
    IF features \cap Raising # {} THEN "ask" ELSE Last(<<"allow">> \o verdicts)

Strictest(verdicts, features) ==
    IF "deny" \in ToSet(verdicts) THEN "deny"
    ELSE IF "ask" \in ToSet(verdicts) \/ features \cap Raising # {} THEN "ask"
    ELSE "allow"

\* reviewShellCommand.
ReviewShellCommand(line, rules) ==
    LET user == LoadUserShellRules(rules)
        parsed == ParseShellSegments(line)
    IN  IF \A i \in DOMAIN line : line[i] = " " THEN "deny"
        ELSE IF CrossSegmentDenied(line, user) THEN "deny"
        ELSE Strictest([i \in DOMAIN parsed.segments |-> ClassifySegment(parsed.segments[i], user)],
                       parsed.features)

-----------------------------------------------------------------------------
(* What is checked, for one line. *)

Closed(line) ==
    /\ Cardinality({i \in DOMAIN line : line[i] = "'"}) % 2 = 0
    /\ Cardinality({i \in DOMAIN line : line[i] \in {"(", "$("}})
         = Cardinality({i \in DOMAIN line : line[i] = ")"})

\* Another command behind a complete line makes the verdict no milder, and
\* what stands in quotes makes no difference to it.
NeverLoosens(line, more, rules) ==
    Closed(line) /\ (\E i \in DOMAIN line : line[i] # " ")
      => Severity(ReviewShellCommand(line \o <<";">> \o more, rules))
           >= Severity(ReviewShellCommand(line, rules))

\* A quoted argument behind a complete word; not the target of a redirection.
QuotedIsData(line, word, rules) ==
    Closed(line) /\ line # <<>> /\ line[1] \notin {"<", ">"} /\ Last(line) \notin {"<", ">", " "}
      => ReviewShellCommand(line \o <<" ", "'", word, "'">>, rules)
           = ReviewShellCommand(line \o <<" ", "'", "foo", "'">>, rules)
================================================================================
