SPECIFICATION Spec
CONSTANTS
  None = None
  Operations <- MCOperations
  Ledger <- MCLedger
  Texts <- MCTexts
  Alphabet <- MCAlphabet
  TooLong = {"enormous"}
  DefaultLimit = 3
  Queries <- MCQueries
  Unknown = {"repository.gett"}
  Tries <- MCTries
  Loose <- MCLoose
  Spellings <- MCSpellings
CHECK_DEADLOCK FALSE
INVARIANT HandWrittenNamesItself
