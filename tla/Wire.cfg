\* Up to two requests, whose bytes and whose answers arrive in any pieces.
CONSTANTS
  Logins <- MCLogins
  Verifications <- MCVerifications
  Diffs <- MCDiffs
  Password <- MCPassword
  RootName <- MCRootName
  Texts <- MCTexts
  FirstIds <- MCFirstIds
  MaxRequests = 2
  ShortSends = TRUE
SPECIFICATION Spec
INVARIANTS WireTypeOK SizesAreExact ConcatenationMerges NothingStranded HandledIsSentText
PROPERTIES AnswersAreMeant Exchanges
CHECK_DEADLOCK FALSE
