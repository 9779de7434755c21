CONSTANTS
  None = None
  Idents = {"_", "x", "y", "z", "a", "b", "e", "f", "g", "h", "o", "r", "s", "T", "R", "E", "P", "O", "A", "B", "C", "S", "N", "m", "n", "i64", "bool", "i32", "c", "f1", "f1nc", "f1unc", "fnc", "fu", "fu1c", "fu1nc", "fuc", "fun", "fun1", "fun1c", "func1", "func1f", "funcf", "nc", "r1", "unc", "x1", "x11"}
  Primitives = {"i64", "bool", "i32"}
  Reserved = {"i32"}
  MaxExpressionDepth = 12
  MaxPatternDepth = 3
  MaxGenericDepth = 3
  MaxUsefulnessSteps = 60
  MaxGenericInstances = 3
  MaxCapabilityDepth = 2
  MaxSteps = 6
  SampleDepth = 2
  Fuel = 3
  MaxLiteral = 300
  Amendments = {"visibility", "payload", "range", "jump", "arm", "digits"}
  ParseStage <- MCParseStage
  LowerStage <- MCLowerStage
  DeclareStage <- MCDeclareStage
  CheckStage <- MCCheckStage
  Sources <- MCSources
SPECIFICATION Spec
INVARIANTS
  TypeOK
  LexedAsWritten
  AcceptsTheGrammar
  ReadBack
  LaterItems
  AcceptedNeverGoesWrong
  DeclarationOrderIsFree
