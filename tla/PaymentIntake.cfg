SPECIFICATION FairSpec
CONSTANTS
  Keys = {k1}
  Fingerprints = {f1, f2}
  Requests = {r1, r2}
  NoKey = NoKey
  NoPrint = NoPrint
  MaxCreations = 3
  MaxPosts = 3
  MaxTokens = 2
  MaxDrops = 1
INVARIANTS
  TypeOK
  OneAnswerPerKey
  AnswersHold
  NonceDecidesOnce
  OnlyDropsWasteNonces
PROPERTY
  InsertsGetThrough
CHECK_DEADLOCK FALSE
