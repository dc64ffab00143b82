SPECIFICATION Spec
CONSTANTS
  Plate = {v1}
  Phone = {d1}
  Tab = {AllTab, t1}
  Word = {NoWord, w1}
  AllTab = AllTab
  NoWord = NoWord
  Off = Off
  Handler = {h1}
  MaxPage = 2
  MaxFetches = 3
  MaxWrites = 3
INVARIANTS
  TypeOK
  LastRequestWins
  ReadsItsOwnWrites
PROPERTIES
  NeverBackInTime
CHECK_DEADLOCK FALSE
