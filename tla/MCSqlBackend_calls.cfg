\* Calls of every kind in every use of a backend.
SPECIFICATION FairSpec
CONSTANTS
  k1 = k1
  k2 = k2
  c1 = c1
  c2 = c2
  h1 = h1
  h2 = h2
  h3 = h3
  Keys <- MCKeys
  NoRow = NoRow
  NoTx = NoTx
  Nil = Nil
  Conns = {h1, h2, h3}
  Clients = {c1, c2}
  Calls <- EveryCall
  Values = 2
  Configs <- EveryUse
INVARIANTS AnswerTellsEffect TransactionsAreTheirOwn AloneCallsAreExact BreakdownCostsOneWrite SomebodyGoesOn
PROPERTIES ChangesAreWholeCalls EveryCallReturnsGivenRoom
CHECK_DEADLOCK FALSE
