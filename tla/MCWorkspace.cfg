\* Messages about three documents over every workspace of MCWorkspace.
SPECIFICATION Spec

CONSTANTS
  Files <- MCFiles
  Untitled = {"u"}
  DocumentOrder <- MCDocumentOrder
  Texts <- MCTexts
  Disks <- MCDisks
  Names = {"x", "y"}
  NoFile = "none"
  MaxEdits = 4

INVARIANTS
  AnalysesCurrent
  VerdictsExact
  DefinitionsAgree
