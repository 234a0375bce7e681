SPECIFICATION ScriptSpec
CONSTANTS
  Trees = {}
  Broken <- MCTexts
  Names <- MCNames
  NumberOf <- MCNumbers
  Unknown <- MCUnknown
  Limits = {5}
  AnswerWords <- MCWords
  WordSize = 16
  HiLo = FALSE
  RvOf <- MCRvOf
  ArchiveValue = 3
PROPERTIES ParseReturns
CHECK_DEADLOCK FALSE
