----------------------------- MODULE MCWasmBuild -----------------------------
EXTENDS WasmBuild, TLC
CONSTANTS p1, p2, t1, dir, none, torn

TwoPages == {p1, p2}
OneTopic == {t1}
Named == {p2}
TwoTexts == {1, 2}
SecondText == {2}
==============================================================================
