------------------------------ MODULE MCAlgorithms -----------------------------
(* The pure algorithms over bounded inputs: a first step picks a part of an  *)
(* input, the second one the rest; each property looks at its own inputs.    *)
EXTENDS Diff, ShellRules, TLC

CONSTANTS None, Omitted, NoCommand, MaxSteps

\* null is no reason to finish, no name of a tool and no id.
ASSUME NoneAssumption ==
    /\ None \notin {"stop", "tool_calls", "end_turn", "tool_use", "STOP", "read", "edit"}
    /\ None \notin {<<"call", i>> : i \in 1..2}

VARIABLE input

Plans == INSTANCE PlanFormat
Models == INSTANCE ModelStream
Edits == INSTANCE TextEdits

Texts == {Text(lines, nl) : lines \in BoundedSeq({"a", "--"}, 3) \ {<<>>}, nl \in BOOLEAN}
             \cup {Text(<<>>, FALSE)}
Thirds == {Text(<<"a", "b", "a">>, TRUE), Text(<<"b", "a", "b">>, FALSE)}

Lexemes == {"ls", "rm", "sh", "foo", "'", ";", "|", "&", "<", ">", "(", ")", "$(", " "}
Additions == {"rm", "mkfs", ";", "|", ")", "(", "$(", ">", "&", "ls", " "}
UserRules == [allow : {{}, {"foo"}}, ask : {{}}, deny : {{}, {"rm", "broken"}}]

RawSteps ==
    [id : 1..3, named : {TRUE}, state : Plans!StepStates \cup {Omitted},
     dependencies : {<<>>, <<1>>, <<2>>, <<3>>, <<1, 1>>, <<1, 3>>}, command : {Omitted, "c", NoCommand}]
LaterSteps == {r \in RawSteps : r.command # "c" /\ r.dependencies # <<1, 1>>}
OnDisk == BoundedSeq([id : {1, 2}, status : {"pending", "completed"}, dependencies : {<<>>},
                      command : {"old", NoCommand}], 1)

Call(i, name) == [id |-> <<"call", i>>, name |-> name, args |-> <<"a", "b">>]
Answers ==
    [text : {None, "hello"},
     calls : {<<>>} \cup {<<Call(1, m)>> : m \in {"read", "edit"}}
                    \cup {<<Call(1, m), Call(2, n)>> : m, n \in {"read", "edit"}}]

Targets == {<<"x">>, <<" ", "x">>, <<"x", "nl", "y">>, <<"x", "crlf", " ", "y">>, <<"x", "x">>, <<" ">>}
NewTexts == {<<>>, <<"y">>, <<" ", "y", "nl", "x">>, <<"y", "crlf">>}
EditOf == [old : {<<>>, <<"x">>, <<"x", "x">>, <<"x", "y">>}, new : NewTexts \cup {<<"$&", "y">>}, replaceAll : BOOLEAN]

Init ==
    \/ input \in [of : {"diff"}, old : Texts]
    \/ input \in [of : {"shell"}, line : BoundedSeq(Lexemes, 3), rules : UserRules]
    \/ input \in [of : {"plan"}, first : RawSteps, disk : OnDisk]
    \/ input \in [of : {"answer"}, from : Models!Adapters, answer : Answers, style : BOOLEAN]
    \/ input \in [of : {"edit"}, file : BoundedSeq({"x", "y", " ", "nl", "crlf"}, 4)]

\* The rest of an input, with the part drawn before.
Next ==
    \/ /\ input.of = "diff"
       /\ \E new \in Texts, third \in Thirds \cup {input.old}, context \in 0..1 :
            input' = [of |-> "whole_diff", old |-> input.old,
                      new |-> new, third |-> third, context |-> context]
    \/ /\ input.of = "shell"
       /\ \E more \in Additions :
            input' = [of |-> "whole_shell", line |-> input.line, rules |-> input.rules, more |-> more]
    \/ /\ input.of = "plan"
       /\ \E more \in LaterSteps :
            input' = [of |-> "whole_plan", first |-> input.first, disk |-> input.disk, more |-> more]
    \/ /\ input.of = "answer"
       /\ \E offset \in 1..4, size \in 1..5, to \in Models!Adapters :
            input' = [of |-> "whole_answer", from |-> input.from, answer |-> input.answer,
                      style |-> input.style, offset |-> offset, size |-> size, to |-> to]
    \/ /\ input.of = "edit"
       /\ \/ \E target \in Targets, new \in NewTexts :
                input' = [of |-> "whole_edit", file |-> input.file, target |-> target, new |-> new]
          \/ \E edit \in EditOf : input' = [of |-> "whole_call", file |-> input.file, edit |-> edit]

Spec == Init /\ [][Next]_input

\* A patch applied to its own text makes the new one, to another text it
\* applies only where every line it names stands, and its edit script is as
\* short as a script can be.  A surgical patch changes one place of a file and
\* nothing around it; so does an edit whose new text has no sign that
\* String.replace reads.
ChangesAreExact ==
    /\ input.of = "whole_diff" =>
        /\ AppliesExactly(input.old, input.new, input.third, input.context, {"--"})
        /\ IsShortest(input.old, input.new)
    /\ input.of = "whole_edit" => Edits!PatchIsLocal(input.file, input.target, input.new)
    /\ input.of = "whole_call" /\ "$&" \notin {input.edit.new[i] : i \in DOMAIN input.edit.new} =>
        Edits!EditIsExact(input.file, input.edit)
\* Another command behind a line makes its verdict no milder, and a quoted
\* argument is data: the verdict does not depend on it.
VerdictsHold ==
    input.of = "whole_shell" =>
        /\ NeverLoosens(input.line, <<input.more>>, input.rules)
        /\ QuotedIsData(input.line, input.more, input.rules)
\* An accepted plan loses nothing, can be worked off and reads back as it is.
PublishedPlansAreSound ==
    input.of = "whole_plan" => Plans!PublishesSound(<<input.first, input.more>>, input.disk)
\* A stream gives the same answer however it is cut, and the results of its
\* calls stand where the next request looks for them.
ConversationsCarryOver ==
    input.of = "whole_answer" =>
        /\ Models!StreamDecodes(input.from, input.answer, input.style, input.offset, input.size)
        /\ Models!ResultsFindTheirCalls(input.from, input.to, input.answer, input.style)
\* "Apply several exact-string replacements" (tool-runtime/src/index.ts:700):
\* whatever the new text is, it takes the place of the old one.
EditsAreExact == input.of = "whole_call" => Edits!EditIsExact(input.file, input.edit)
================================================================================
