SPECIFICATION FairSpec
CONSTANTS
  Clients = {c1, c2}
  Amounts <- OneAmount
  Opening <- ZeroOrAbsent
  IntMax = 1
  Absent = Absent
  Torn = Torn
  Nothing = Nothing
  Uninit = Uninit
INVARIANTS TypeOK MutualExclusion ServedAsAsked NoMutualWait NoSigpipe
PROPERTIES ImplementsAccount SomeoneServed
