SPECIFICATION FairSpec
CONSTANTS
  Processes = {p1, p2, p3}
  NoOne = NoOne
  ManagerId = ManagerId
  Spellings <- SpellingsOfTwo
  Normal <- Lower
  ManagerEmail = "manager"
  Requests <- AllOperations
INVARIANTS
  EmailsAreUnique
  OwnersHaveAccounts
  AnswersAreTrue
  OnlyTheManagerManages
PROPERTIES
  IdentitiesAreKept
  EveryProcessAnswers
CHECK_DEADLOCK FALSE
