-------------------------- MODULE MCSourceCompilation --------------------------
EXTENDS SourceCompilation

CONSTANTS w1, w2, r1

TwoWorkers == {w1, w2}
OneRequest == {r1}

CompilationRisk == [crash |-> 1, fail |-> 1, lapse |-> 1, retry |-> 1, compile |-> 1]

===============================================================================
