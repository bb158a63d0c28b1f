------------------------------- MODULE MCAdapter -------------------------------
(* Adapter on a small instance for TLC. *)
EXTENDS Adapter

MCTools == <<<<"a", ".">>, <<"a", "__">>, <<"a", "__", "_2">>>>
MCNumbers == <<"_2", "_3", "_4">>
MCSizes == <<2, 1, 1, 3, 1>>

Quoted(s) == <<"\"">> \o s \o <<"\"">>
Field(key, value) == Quoted(<<key>>) \o <<":">> \o value
Braced(fields) == <<"{">> \o fields \o <<"}">>
Document(prose) == Braced(Field("presentation", Braced(Field("prose", Quoted(prose)))))

(* Another prose before and after the document's own, and within a list. *)
Decoys == Braced(Field("x", Braced(Field("prose", Quoted(<<"n">>)))) \o <<",">>
                 \o Field("presentation", <<"[">> \o Braced(Field("prose", Quoted(<<"n">>))) \o <<"]">>)
                 \o <<",">> \o Field("presentation", Braced(Field("prose", Quoted(<<"x">>)))
                                        \o <<",">> \o Field("prose", Quoted(<<"n">>))))

Escaped  == <<"\\", "\"", "\\", "n", "\\", "u", "hi", "\\", "u", "lo", "\\", "u", "e", "n">>
Unescaped == <<"\"", "\n", "pair", "e", "n">>

Plain(before, document, after, prose) ==
    [before |-> before, document |-> document, after |-> after, prose |-> prose,
     presents |-> document # <<>>, own |-> <<>>, calls |-> <<>>]
Reply(before, after) == Plain(before, Document(<<"x", "y">>), after, <<"x", "y">>)

(* A document that lists a call, with a presentation or without. *)
List == Field("tool_calls", <<"[", "]">>)
Lists(a) == [a EXCEPT !.own = <<[tool |-> <<"b">>, args |-> <<"{", "}">>]>>]
Listing == Lists(Plain(<<>>, Braced(Field("presentation", Braced(Field("prose", Quoted(<<"x">>))))
                                    \o <<",">> \o List), <<>>, <<"x">>))
Bare == Lists([Plain(<<"x", "\n">>, Braced(List), <<>>, <<>>) EXCEPT !.presents = FALSE])

(* A note and native calls. *)
Call(name, args) == [name |-> name, args |-> args]
Made(cs) == [Plain(<<"x", "\n">>, <<>>, <<>>, <<>>) EXCEPT !.calls = cs]

MCAnswers ==
    {Plain(<<>>, Document(Escaped), <<>>, Unescaped), Plain(<<"\n">>, Decoys, <<" ">>, <<"x">>),
     Reply(<<"fence", "\n">>, <<"\n", "fence">>), Reply(<<"x", "{", "}", "\n", "\n">>, <<>>),
     Reply(<<"x", "\n", " ", "{", "\n">>, <<>>), Reply(<<"x">>, <<"x">>),
     Made(<<Call(<<"a", "__">>, <<"{", "}">>), Call(<<"a", "__", "_2">>, <<>>)>>),
     Made(<<Call(<<"a", "__", "_2", "_2">>, <<"{", "}">>), Call(<<"b">>, <<"{">>)>>),
     Listing, [Listing EXCEPT !.calls = <<Call(<<"a", "__">>, <<>>)>>],
     [Bare EXCEPT !.calls = <<Call(<<"a", "__">>, <<>>)>>]}
================================================================================
