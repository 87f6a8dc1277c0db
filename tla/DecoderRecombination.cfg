SPECIFICATION Spec
CONSTANTS
  Hash <- MCHash
  NoElement = NoElement
  Words <- MCWords
  LmMax = 3
  UnkWord = "unk"
  ZeroWeight <- MCZeroWeight
  NoPhrase = NoPhrase
  UnkPhrase <- MCUnkPhrase
  BeginTag <- MCBeginTag
  EndTag <- MCEndTag
  MaxTargetLen = 2
  MaxWords = 3
  CapacityValues <- MCCapacityValues
  MaxConsoleCommands = 1
  Instances <- MCThreeClasses
INVARIANT RecombinationKeepsBest
