---------------------------- MODULE MCDosProcess ----------------------------
\* A gap that only an environment fits, four paragraphs of low memory and two of upper.
EXTENDS DosProcess

MCNeeds == {<<1, 2>>, <<2, 100>>}
MCSettable == {[area |-> "low", fit |-> "best"], [area |-> "highlow", fit |-> "last"]}
=============================================================================
