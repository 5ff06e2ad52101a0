------------------------ MODULE MCProtocolSelection ------------------------
EXTENDS ProtocolSelection

\* Names of one and of two bytes, the empty name, and one whose length does
\* not fit the byte that holds it.
a == <<2>>
b == <<1>>
ab == <<1, 2>>
empty == << >>
long == [k \in 1..257 |-> 120]

SmallLists  == {<<a>>, <<b, empty, ab>>, <<empty, ab, a>>, << >>}
SmallOffers == {<<a>>, <<a, ab>>, <<ab, b>>}
SmallJunk   == {<< >>, <<0, 1, 2, 1, 0, 0>>}

LongLists == {<<long, a>>}
LongJunk  == {[k \in 1..128 |-> 0]}
=============================================================================
