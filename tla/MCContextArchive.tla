--------------------------- MODULE MCContextArchive ---------------------------
\* One run of six rounds for TLC: a query, its raw record, an exploration with relations of
\* every kind, a metric over both, a round without a data tool, and a query without a hit.
EXTENDS ReportContext

Tools == <<"process", "raw", "explore", "metrics", "none", "process">>
Kind  == <<"query", "raw", "entity", "metric", "none", "query">>
Found == <<{"a"}, {"a"}, {"b"}, {"a", "b"}, {}, {}>>

Explored(r, relation) == IF Kind[r] = "entity" THEN {relation} ELSE {}

MCRan == [r \in Rounds |->
            [tool |-> Tools[r], kind |-> Kind[r], refs |-> Found[r],
             resolved |-> Explored(r, "s"), candidate |-> Explored(r, "c"), clues |-> Explored(r, "o")]]
===============================================================================
