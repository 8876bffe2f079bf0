----------------------------- MODULE MCReactive -----------------------------
EXTENDS Reactive, TLC
CONSTANTS a, b, s1, s2, nosub

TwoObservables == {a, b}
TwoSubscriptions == {s1, s2}
SecondCleans == {s2}
Bits == {0, 1}
SwapObservables == Permutations({a, b})
=============================================================================
