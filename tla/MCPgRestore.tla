---------------------------- MODULE MCPgRestore -----------------------------
(* PgRestore for TLC: the databases that were backed up.                   *)
EXTENDS PgRestore

NoObjects == [tables |-> {1, 2}, keyed |-> {}, refs |-> {}, sequences |-> {}, drawing |-> {},
              views |-> {}, functions |-> {}]

\* A foreign key to a table whose name comes later.
ToLaterTable == {[NoObjects EXCEPT !.keyed = {2}, !.refs = {<<1, 2>>}]}

\* A table with a serial column.
WithSerial == {[NoObjects EXCEPT !.sequences = {1}, !.drawing = {1}]}

\* Keys and a foreign key to an earlier table; sequences, one of them drawn from;
\* a view of a materialized view; a function that returns rows of a table.
SomeSchemas ==
    {NoObjects} \cup ToLaterTable
    \cup {[NoObjects EXCEPT !.keyed = keys, !.refs = refs, !.sequences = {1, 2},
                            !.drawing = drawing, !.views = views, !.functions = functions] :
            keys \in {{1, 2}, {1}}, refs \in {{}, {<<2, 1>>}}, drawing \in {{}, {1}},
            views \in {{}, {2}}, functions \in {{}, {1}}}
=============================================================================
