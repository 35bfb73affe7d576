SPECIFICATION Spec
CONSTANTS
  Chars <- MCChars
  Second = 4
  Bytes = 7
  Flags <- MCFlags
  Widths <- MCWidths
  Precisions <- MCPrecisions
  Qualifiers <- MCQualifiers
  Conversions <- MCConversions
  Numbers <- MCNumbers
  Texts <- MCTexts
  Word = 4096
  SectorWords = 2
  LoaderSectors = 2
  KernelSectors = 2
  TableWords = 5
  Ranges <- MCRanges
  Unit = 4
  TotalPages = 15
  BasePage = 2
  KernelPages = 10
  ItemsPerPage = 8
  BitsPerByte = 8
  Counts <- MCCounts
  Width = 2
  Height = 2
  Cells = 15
  Blank = " "
  Letters <- MCLetters
INVARIANT OnlyRoomWritten ResultsMatch
INVARIANT FieldsReadBack FieldsFillWidth LengthReturned
INVARIANT ImageIntact FoundMemoryUsable HaltsAreExplained
INVARIANT BitmapMatchesOwners ScanIsFirstFit CountsMatchHeld
INVARIANT TypeOK CursorCoherent InVideoMemory RegistersCurrent
PROPERTY KernelPagesImplement FramesImplement ImplementsTerminal
CHECK_DEADLOCK FALSE
