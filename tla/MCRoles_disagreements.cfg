\* What documents say of this module and the code does not do: each of these is
\* violated. Run with -continue, or with all but one of them taken out.
SPECIFICATION Spec
CONSTANTS
    People = {p1, p2, p3, p4}
    Nobody = nobody
    MaxDepth = 2
    Hands = {h1}
    LastDay = 2
    MaxMoves = 2
INVARIANTS TrueWhenAbove ActiveSeeThemselves CurrentManagersSeeTheirs
