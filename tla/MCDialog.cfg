CONSTANTS
  Texts = {"Starting", "Failed"}
  MayFail = {"layers", "animation", "result_view"}
  MaxCalls = 4
SPECIFICATION FairSpec
INVARIANTS
  AtRest
PROPERTIES
  ImplementsStatusScreen
