------------------------------ MODULE MCRfTestd ------------------------------
EXTENDS RfTestd
CONSTANTS c1, c2, c3, none

Line(s) == [lines |-> s, ended |-> TRUE]
\* Nothing; a verdict after other lines; one that a newline is missing of.
Scripts == {Line(<<>>), Line(<<"other", "PASS">>),
            [lines |-> <<"FAIL">>, ended |-> FALSE]}
=============================================================================
