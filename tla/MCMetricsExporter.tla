------------------------- MODULE MCMetricsExporter -------------------------
(* One or two CHIs with one host list, one or two scrapes side by side.    *)
EXTENDS MetricsExporter, TLC

CONSTANTS
    k1, k2,  \* CHIs
    h1,      \* a host list
    s1, s2   \* scrapes

OneChi == {k1}
TwoChis == {k1, k2}
OneList == {h1}
OneScraper == {s1}
TwoScrapers == {s1, s2}
NoFaults == {}

ChiSymmetry == Permutations(TwoChis)
=============================================================================
