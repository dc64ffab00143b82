SPECIFICATION FairSpec
CONSTANTS
  Browser = {b1, b2}
  Operator = op
  Email = {e1, e2}
  Applicant = e1
  MaxAsks = 4
  MaxDrawn = 2
  MaxAttempts = 2
  MaxStalls = 1
  MaxRetries = 1
INVARIANTS
  TypeOK
  ApprovedHasAccount
  WelcomeTellsThePassword
  SpentLinkIsDead
PROPERTIES
  ImplementsBook
  MailEnds
CHECK_DEADLOCK FALSE
