SPECIFICATION Spec
CONSTANTS
  Scalar = Scalar
  Moved = Moved
  Hole = Hole
  Absent = Absent
  FieldTypes <- MCFieldTypes
  Cases <- MCCases
  DeclaredResources <- MCDeclaredResources
  Signatures <- MCSignatures
  Library <- MCLibrary
  EntryOf <- MCEntryOf
  Recipes <- MCRecipes
  FunctionOf <- MCFunctionOf
  Miscompiled <- MCMiscompiled
  Gaps <- MCGaps
  Unclaimed <- MCUnclaimed
  Shapes <- MCShapes
  CheckStage <- MCCheckStage
  LowerStage <- MCLowerStage
  VerifyStage <- MCVerifyStage
  MaxSlots = 6
  MaxTemps = 48
  MaxLoads = 10
  MaxJumps = 2
  MAX_CALL_DEPTH = 4
  MaxResources = 24
  MaxGeneration = 16
  MaxLeases = 4
  MaxLeaves = 4
INVARIANT AcceptedIsCompiled
INVARIANT VerifiedIsNeverRefused
INVARIANT NothingIsLeft
