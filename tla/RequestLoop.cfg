CONSTANTS
  MaxBlocks = 4
  Tools <- SpecialTools
  MistakeLimit = 1
  HasParent = FALSE
SPECIFICATION Spec
CHECK_DEADLOCK FALSE
INVARIANTS
  TypeOK
  OnePresenter
  ReadyMeansPresented
  NoLostWakeup
  MistakesBounded
  ToolsAnswered
  RunOrRefused
PROPERTIES
  NoToolAfterRejection
  SecondToolRefused
  KeepsTurn
