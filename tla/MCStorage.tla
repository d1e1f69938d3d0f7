---- MODULE MCStorage ----
EXTENDS SparseStorage
CONSTANTS e1, e2, e3, e4, v1
Queries == {<<1>>, <<2, 1>>, <<1, 2, 3>>}
Rows(s) == [i \in 1..Len(s) |-> <<s[i][1], s[i][2], v1>>]
\* Three full rows in every table; two entities that match among four, so that
\* the index is the shorter way; and one of them in a bucket of its own.
Shapes == { Rows(<<<<e1, 1>>, <<e1, 2>>, <<e2, 1>>, <<e2, 2>>, <<e3, 2>>, <<e3, 1>>>>),
            Rows(<<<<e1, 1>>, <<e1, 2>>, <<e1, 3>>, <<e2, 1>>, <<e2, 2>>, <<e2, 3>>,
                   <<e3, 1>>, <<e3, 2>>, <<e4, 3>>>>),
            Rows(<<<<e1, 1>>, <<e1, 2>>, <<e1, 3>>, <<e1, 4>>, <<e2, 1>>, <<e2, 2>>, <<e2, 3>>,
                   <<e3, 1>>, <<e3, 2>>, <<e4, 3>>>>) }
====
