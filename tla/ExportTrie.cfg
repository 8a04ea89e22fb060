SPECIFICATION Spec
CONSTANTS Width = 20
          Images <- TrieImages
INVARIANTS EveryExportFound EdgesTellApart WrittenAtOffset PrunedFits
PROPERTY TrieEnds
