CONSTANTS
  Vendor = {"sumsub", "persona", "didit"}
  Workflow = {"identity", "address", "combined"}
  addressWorkflow = "address"
  MaxMoves = 3
  MaxMail = 1
  PollCap = 1

SPECIFICATION LiveSpec

INVARIANTS
  TypeOK
  VerdictsAreCurrent
  LevelsAreBacked

PROPERTY IssuerEnds

\* The vendor has decided and nothing is under way.
CHECK_DEADLOCK FALSE
