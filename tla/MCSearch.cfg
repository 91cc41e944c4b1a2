CONSTANTS
  Names <- MCNames
  ssoNameMap <- MCNameMap
  TermsOf <- MCTerms
  Times = {73, 76}
  JD0 = 40
  epsilon = 2
  Skies <- MCSkies
  Starts = {3, 24}
  Steps = {6}
  Ratio = 6
  year = 60
  day = 6
  later = 5
  MjdZero = 50
  Never = Never
SPECIFICATION SearchSpec
INVARIANTS SearchTypeOK PositionOfOneTime NextWindowFound DateObservable DateWithinYear
PROPERTIES SearchEnds DateEnds
