SPECIFICATION MCSpec
CONSTANTS
  MaxNodes = 3
  Lengths = {1, 3}
  MaxSentences = 2
  Elements = {"a1", "a2", "em"}
  Tag <- Tagged
  Formats <- Chains
  Decorative = {"em"}
  Islands = FALSE
  MaxChars = 4
  MaxSegments = 2
  s1 = s1
  s2 = s2
  s3 = s3
  short = short
  Stems = {s1, s2, s3, short}
  Marks = {"-", "a", "u"}
  NoMark = "-"
  Cases <- CasesOf
  Nominative <- Nominatives
  Close <- CloseStems
  Entities = {e1, e2}
  MaxMentions = 3
  Characters <- Letters
  Encode <- Escape
  Lower <- InLower
  Ids <- OldIds
  Valid <- ValidIds
  Fresh <- FreshIds
  Paths <- OldPaths
  Clean <- CleanPaths
  MaxElements = 3
  MaxEntries = 2
SYMMETRY WhoIsWho
INVARIANTS WholeOnce WithinBudget KeepsPlace CasesStand SettledNamesStand IdsAreSound LinksStand
CHECK_DEADLOCK FALSE
