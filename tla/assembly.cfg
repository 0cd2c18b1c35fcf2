SPECIFICATION MCSpec
CONSTANTS
  c1 = c1
  c2 = c2
  e1 = e1
  e2 = e2
  s1 = s1
  s2 = s2
  Claims = {c1, c2}
  Evidence = {e1, e2}
  Sources = {s1, s2}
  Analyses = {"a"}
  ChartTypes = {"m", "p", "q"}
  Required = {"m"}
  Options = {"p", "q"}
  None = None
  Competitors = {1, 2, 3}
  Dimensions = {"d1", "d2", "d3", "d4", "d5"}
  Scope <- MCScope
  Sheets <- MCSheets
  Unresolved = Unresolved
  Unjudged = Unjudged
  MaxScores = 2
INVARIANTS ReportSupported PublishedExactlyWhen RanksAgree
CHECK_DEADLOCK FALSE
