SPECIFICATION Spec
CONSTANTS
  W = 8
  WordSamples <- MCWordSamples
  Alphabet <- MCAlphabet
  MaxText <- MCMaxText
  Bases = {0, 10, 16}
  WildChars <- MCWildChars
  Matching <- MCMatching
  Unreadable <- MCUnreadable
  Invalid <- MCInvalid
  ShortOpts <- MCShortOpts
  LongOpts <- MCLongOpts
CHECK_DEADLOCK FALSE
INVARIANTS SumsWrap ShiftsScale DivisionTruncates StrtolClamps FnmatchSound ArgumentsSurvive ExtractsFit GetoptReadsAll ModesSurvive
