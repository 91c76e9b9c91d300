SPECIFICATION Spec
CONSTANTS
  LastYear = 1975
  TimeBits = 27
  MinTime <- MCMinTime
  MaxTime <- MCMaxTime
  Runs <- MCRuns
  Strays <- MCStrays
  Texts <- MCTexts
  Moments <- MCMoments
  Around <- MCAround
  Twins <- MCTwins

INVARIANTS MktimeInverts MktimeCarries ZonesAgree TzsetForgets WeeksCount StrftimeFits
