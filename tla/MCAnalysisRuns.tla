--------------------------- MODULE MCAnalysisRuns ---------------------------
\* Small instances of AnalysisRuns.
EXTENDS AnalysisRuns, TLC

CONSTANTS macro, sector, debate

TwoWaves == <<{macro, sector}, {debate}>>
ShortWaves == <<{macro}, {debate}>>
SameWave == Permutations({macro, sector})

Budget(f, s, c, m, l) == [faults |-> f, skips |-> s, crashes |-> c, made |-> m, live |-> l]

\* One thing after another, or two requests at once.
SomeTrouble ==
    {Budget(1, 0, 1, 2, 1), Budget(0, 1, 1, 3, 1), Budget(1, 0, 0, 3, 1), Budget(0, 0, 1, 2, 2), Budget(0, 1, 0, 2, 2)}
=============================================================================
