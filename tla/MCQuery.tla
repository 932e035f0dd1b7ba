------------------------------- MODULE MCQuery -------------------------------
EXTENDS QueryPipeline
\* Nothing; a chunk only the vector list has; three chunks, one of them in both lists.
SomeHits == {[vec |-> <<>>, txt |-> <<>>], [vec |-> <<"a">>, txt |-> <<>>],
             [vec |-> <<"a", "b", "c">>, txt |-> <<"b">>]}
=============================================================================
