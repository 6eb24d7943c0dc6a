SPECIFICATION Spec
CONSTANTS
  Computations = {"short", "label", "valid", "row"}
  Expressions = {"all"}
  Getter <- MCGetter
  PartOf <- MCPartOf
  Settings <- MCSettings
  Templates <- MCTemplates
  Observable = {"label", "valid"}
  Together = TRUE
INVARIANTS ShowsValues Listening
PROPERTY ToldOnce
