\* Every document of up to five lines; a section may ask for two or three words.
SPECIFICATION Spec
CONSTANTS
  Lines <- MCLines
  MaxLines = 5
  SectionCount = {1, 2}
  TargetWords = {2, 3}
  TotalWords = {2, 3, 4}
CHECK_DEADLOCK FALSE
INVARIANT ReadsAsStated
INVARIANT StatedOnce
