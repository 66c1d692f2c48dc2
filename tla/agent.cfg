CONSTANTS
  RuleDirs <- Dirs
  Unparsable = Unparsable
  Mentions <- DistinctIds
  AlertLists <- NoneOrBoth
  BatchSize = 2
  MaxKernel = 3
  MaxEtw = 2
SPECIFICATION FairSpec
INVARIANTS TypeOK EventsOnceInOrder AlertsAccounted RuleOfItsChain CompleteMeansAll BoundedReordering
PROPERTY BatchFlushesEtw
CHECK_DEADLOCK FALSE
