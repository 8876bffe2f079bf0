---------------------------- MODULE MCTopicSync ----------------------------
EXTENDS TopicSync, TLC
CONSTANTS c1, c2, m1, m2, zero, high, noone, garbled

OneManager == {m1}
TwoManagers == {m1, m2}
TwoConsumers == {c1, c2}
TwoValues == {zero, high}
NoNonText == {}
HighIsNonText == {high}
Swap == Permutations({c1, c2})
=============================================================================
