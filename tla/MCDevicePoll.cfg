SPECIFICATION PollSpec
CONSTANTS
  Agents <- MCAgents
INVARIANTS
  ReportIsConsistent
  RefusedOnlyForTextOrIndex
  SelectionByPrecedence
