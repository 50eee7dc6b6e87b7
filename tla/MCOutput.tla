------------------------------ MODULE MCOutput -------------------------------
(* Texts for TLC, put together from fragments. *)
EXTENDS WrappedSession

Complete == <<"p", "c">>
Blocked  == <<"p", "b", "b">>
MCKinds  == {Complete, Blocked}

Block == Open(Complete) \o <<"x">> \o Close(Complete)

\* Whole tags, pieces of tags, prose and the start of a fence.
Fragments ==
    {Open(Complete), Close(Complete), Open(Blocked), Close(Blocked),
     <<"<", "p">>, <<"c", ">">>, <<"<", "space">>, <<"/">>, <<"x">>,
     <<"space">>, <<"newline">>, <<"tick", "tick", "tick", "newline">>}

\* Lines that open, close or only look like fences.
FenceParts ==
    {<<"space", "space", "space">>, <<"space">>, <<"x", "newline">>,
     <<"tick", "tick", "tick", "newline">>,
     <<"tick", "tick", "tick", "tick", "newline">>,
     <<"tick", "tick", "tick", "x", "newline">>,
     <<"tilde", "tilde", "tilde", "newline">>}

Few(fragments, n) == {FlattenSeq(fs) : fs \in BoundedSeq(fragments, n)}

\* Three fragments; a block with two before or two after it or two within;
\* a block after three lines of fences.
MCTexts ==
    Few(Fragments, 3)
      \union {t \o Block : t \in Few(Fragments, 2) \union Few(FenceParts, 3)}
      \union {Block \o t : t \in Few(Fragments, 2)}
      \union {Open(Complete) \o t \o Close(Complete) : t \in Few(Fragments, 2)}

\* Nothing, a block, an unfinished and a malformed tag.
MCErrTexts == {<< >>, Block, Open(Complete), <<"<">> \o Complete}
-----------------------------------------------------------------------------
(* What a provider writes *)

Pieces ==
    {Open(Complete), Close(Complete), Open(Blocked), <<"<", "p">>, <<"c", ">">>,
     <<"<">>, <<"/">>, <<"x">>, <<"space">>, <<"newline">>,
     <<"tick", "tick", "tick", "newline">>}

Within(k, body) == Open(k) \o body \o Close(k)

\* Three fragments, or a block between two.
Lives ==
    Few(Pieces, 3)
      \union {s \o Within(Blocked, <<"x">>) \o t :
                s, t \in Few(Pieces, 1)}

\* Two fragments of a body, with a line or a fence before, or a tag after.
Finals ==
    {Within(Complete, t) : t \in Few(Pieces, 2)}
      \union {<< >>, <<"space">>, <<"x">>}
      \union {s \o Within(Complete, <<"x", "newline">>) \o t :
                s \in Few(Pieces, 1), t \in Few(Pieces, 1)}

\* Every diagnostic before a valid, a broken and no result, and every final
\* response after a line, an open fence and an unfinished block, as the
\* provider's answer or as its error.
MCOutputs ==
    (Lives \X {Within(Complete, <<"x">>), Open(Complete), << >>} \X {FALSE})
      \union ({<<"x">>, <<"tick", "tick", "tick", "newline">>,
               <<"x">> \o Open(Blocked)} \X Finals \X BOOLEAN)
=============================================================================
