CONSTANTS
  Engines = {"sqlite", "postgres"}
  Substring <- MCSubstring
  Wild <- MCWild
  NonAscii <- MCNonAscii
  Likes <- MCLikes
  Weight <- MCWeight
  Spelling <- MCSpelling
  Numerals <- MCNumerals
  Stripped <- MCStripped
  Parts <- MCParts
  Tables <- MCTables
  Texts <- MCTexts
  Queries <- MCQueries
  Clauses <- MCClauses
  Depth <- Nesting
SPECIFICATION Spec
INVARIANT CountIsExact
CHECK_DEADLOCK FALSE
