CONSTANTS
    reviewer = reviewer  tester = tester  graph = graph  NoRun = NoRun
    RunId = {reviewer, tester, graph}
    Role = {reviewer, tester}
    GraphRun = graph
    MaxConcurrent = 2
    MaxEvents = 1
    MaxHandled = 3
SPECIFICATION Spec
INVARIANTS RunsSound  AckedEventsKept
PROPERTIES EndedRunsImmutable BatchReturns
