SPECIFICATION ClientSpec
CONSTANTS
  None = None
  Operations <- MCOperations
  Ledger <- MCLedger
  Texts <- MCTexts
  Alphabet <- MCAlphabet
  TooLong = {"enormous"}
  DefaultLimit = 3
  Queries <- MCQueries
  Unknown = {"repository.gett"}
  Tries <- MCTries
  Loose <- MCLoose
  Spellings <- MCSpellings
  Walks = {w1, w2}
  PageSize = 2
  MaxEntries = 4
  TTL = 2
  MaxId = 5
  MaxTime = 3
  NoCursor = NoCursor
  TokenNames = {"agent", "1", "+2"}
  Number <- MCNumber
  Caps = {1, 3}
  Styles = {"plain", "links", "has more", "twice", "foreign", "back"}
  Limit = 2
  MaxResults = 2
  MaxPages = 3
  MaxItems = 3
  MaxLinks = 4
  MaxToken = 3
  Nothing = Nothing
  Null_ = Null_
  Reasons <- MCReasons
  Given <- MCGiven
  Configured <- MCConfigured
  Logins <- MCLogins
  Sensitive = {"password", "secrets", "token", "data"}
  MaxDepth = 3
  MaxBody = 8
  MaxReason = 3
SYMMETRY Symmetry
CHECK_DEADLOCK FALSE
INVARIANT LaneKeepsRisk
INVARIANT GuidanceLeadsHome
INVARIANT RequestFaithful
INVARIANT SearchShowsAll
PROPERTY NothingMissed
INVARIANT AbsenceProved
INVARIANT RevokesTheNamed
INVARIANT Scrubbed
