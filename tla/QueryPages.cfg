CONSTANTS
  Filters <- MCFilters
  Lists <- MCLists
  Terms <- MCTerms
  Keys <- MCKeys
  Ins <- MCIns
  BarFilters <- MCBarFilters
  Tops = {2}
  Skips = {1}
  RowCount = 3
  Largest = 3
  Matching <- MCMatching
  Numeral <- MCNumeral
  Symbols <- MCSymbols
  Code <- MCCode
  Services <- MCServices
SPECIFICATION Spec
INVARIANTS
  RequestsArrive
  PagesMeet
