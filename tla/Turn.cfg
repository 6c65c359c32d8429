SPECIFICATION TurnSpec
CONSTANTS
  None = None
  Nowhere = Nowhere
  Models <- MCModels
  Wishes <- MCWishes
  Texts <- MCTexts
  Outputs <- MCOutputs
  Tiers <- MCTiers
  MaxMessages = 3
  Schemas <- MCSchemas
  Arguments <- MCArguments
  MaxBytes = 2
  MaxLines = 1
  ReadBytes = 1
  PipeBytes = 1
  Writes <- MCWrites
  MaxWritten = 5
  MaxFaults = 1
INVARIANTS TokensTold ThinkingFits ArgumentsFit OutputKept
PROPERTY CommandEnds
CHECK_DEADLOCK FALSE
