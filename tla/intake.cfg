SPECIFICATION Spec
CONSTANTS
  Modes = {"file", "repl"}
  Items = {"(", ")", "[", "]", "{", "}", "x", "1", "!", "~", "#"}
  Spaced = TRUE
  MaxItems = 5
INVARIANTS
  TypeOK
  RunsWhatIsWritten
  ErrorsDeserved
