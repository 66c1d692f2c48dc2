CONSTANTS
  Capacity = 4
  Word = 8
  Records = {r1, r2}
  Zeroed = Zeroed
  MaxCallbacks = 6
  MaxRequest = 3
  RuleDirs <- OneChain
  Unparsable = Unparsable
  Mentions <- OwnId
  AlertLists <- MayAlert
  MaxEtw = 2
SPECIFICATION PipelineSpec
INVARIANTS TypeOK NothingIsDelivered OnlyNewestRetained LiveIsBlind
