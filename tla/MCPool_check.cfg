SPECIFICATION Spec

CONSTANTS
  Callers = {c1, c2, c3}
  None = None
  Env = {"query", "reply", "echo"}
  Liquidity = 2
  Attempts = 2
  MaxActive = 1
  Handlers = 2

SYMMETRY Symmetry

INVARIANTS
  AnswerTellsWhatLanded
  SwapBacked
  ActiveBounded

CHECK_DEADLOCK FALSE
