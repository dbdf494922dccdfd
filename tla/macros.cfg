SPECIFICATION Spec
CONSTANTS
  Characters <- CharactersMC
  MacrosDefined <- MacrosMC
  Arguments <- ArgumentsMC
  Texts <- TextsMC
INVARIANTS
  TypeOK
  AllOrNothing
PROPERTY AssembledAsMeant
