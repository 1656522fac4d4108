-------------------------------- MODULE MCCodec --------------------------------
(***************************************************************************)
(* An instance of Codec for TLC.  Headers are written out from what their  *)
(* sender means: extensions with parameters, or tokens, then maybe         *)
(* something that is not in order.  Messages are cut with a buffer of two  *)
(* bytes behind a header of one, so that a piece of more than six bytes    *)
(* takes the fast path.                                                    *)
(***************************************************************************)
EXTENDS Codec

MCPieces == {<<>>, <<"a">>, <<"l">>, <<"t", "a">>, [i \in 1..3 |-> "a"], [i \in 1..7 |-> "a"]}

(* Every first and second byte, and the ends of all ranges of the others.  *)
MCNthByte == <<0..255, 0..255, {0, 65, 127, 128, 143, 144, 159, 160, 191, 192, 255},
               {0, 65, 127, 128, 143, 144, 159, 160, 191, 192, 255}>>

(* Extensions with up to two parameters, tokens, and ends of lines.        *)
MCValues == {[as |-> "none"], [as |-> "token", pre |-> <<>>, token |-> <<"b">>],
             [as |-> "quoted", pre |-> <<" ">>, chars |-> <<<<"b">>>>],
             [as |-> "quoted", pre |-> <<>>, chars |-> <<<<"\\", "\"">>, <<",">>, <<"b">>>>]}
MCParams == {[pre |-> <<" ">>, key |-> k, post |-> v.pre, value |-> v.value, end |-> v.pre] :
                k \in {<<"a">>, <<"b">>}, v \in {[pre |-> p, value |-> w] : p \in {<<>>, <<" ">>}, w \in MCValues}}
ParamLists == {<<>>} \cup {<<x>> : x \in MCParams} \cup {<<x, y>> : x, y \in MCParams}

Ext(ps)    == [pre |-> <<" ">>, name |-> <<"a">>, post |-> <<>>, params |-> ps]
Word(t)    == [pre |-> <<>>, name |-> t, post |-> <<"\t">>, params |-> <<>>]
EndOf(m, p, r) == [mark |-> m, pre |-> p, rest |-> r]
Orderly    == EndOf(<<>>, <<>>, <<>>)
MCEnds     == {Orderly, EndOf(<<",">>, <<>>, <<>>), EndOf(<<>>, <<" ">>, <<"@">>), EndOf(<<";">>, <<>>, <<>>),
               EndOf(<<>>, <<" ">>, <<"a">>), EndOf(<<",">>, <<>>, <<"@", ",", "a">>)}

ExtLists ==
    {[lines |-> ls, value |-> None] :
        ls \in {<<[items |-> <<Ext(ps)>> \o w, end |-> e]>> \o m :
                   ps \in ParamLists, e \in MCEnds, w \in {<<>>, <<Word(<<"b">>)>>},
                   m \in {<<>>, <<[items |-> <<Word(<<"b">>)>>, end |-> Orderly]>>}}}

Words2 == {<<"a">>, <<"A">>, <<"b">>, <<"a", "b">>}

TokenLists ==
    {[lines |-> <<[items |-> <<Word(t), Word(u)>>, end |-> e], [items |-> <<Word(v)>>, end |-> Orderly]>>, value |-> w] :
        t \in Words2, u \in Words2, v \in Words2, w \in {<<"a">>, <<"A">>, <<"b">>}, e \in MCEnds}

MCLists == ExtLists \cup TokenLists
=============================================================================
