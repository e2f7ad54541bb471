SPECIFICATION Spec
CONSTANTS
  Projects <- MCProjects
  MultipleToolsets = TRUE
  RecursionLimit = 6
  PathNames = {"x_dir"}
  ExtraPaths = {}
  ExtraKeys = {}
  Alphabet <- MCAlphabet
INVARIANTS OneHolder EvaluatesAsWritten ConfigurationsInherit FiltersDecide
