CONSTANTS
  Flow = {f1, f2, f3, f4, f5}
  IdleLimit = 4
  ReapEvery = 2
  MaxFlows = 3
SPECIFICATION FlowSpec
SYMMETRY Symmetry
INVARIANTS FlowTypeOK TableKeepsRecent
