SPECIFICATION Spec
CONSTANTS
  Projects <- MCParents
  MultipleToolsets = TRUE
  RecursionLimit = 6
  PathNames = {"x_dir"}
  ExtraPaths = {}
  ExtraKeys = {}
  Alphabet <- MCAlphabet
INVARIANTS SubdictsCannotInfluenceParents
