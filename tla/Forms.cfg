SPECIFICATION FormsSpec
CONSTANTS
  IntBits = 12
  MantissaBits = 4
  MaxWalletQuota = 255
  Fields <- MCFields
  Rank <- MCRank
  Fold <- MCFold
  Yuan <- MCYuan
  Dollars = {1, 2, 3, 5, 7}
  PerUnits <- MCPerUnits
  Values <- MCValues
  Signed <- MCSigned
  Received <- MCReceived
  Numbers = {0, 1, 2, 3, 4, 5, 6, 7, 8, 9, 10, 11, 12, 13, 14, 15, 16, 17, 18, 19, 20, 21, 22, 23, 24, 25, 26, 27, 28, 29, 30, 31, 32}
INVARIANTS
  FormsTypeOK
  FenIsExact
  QuotaIsNearest
  EpayVerifiesTheSigned
  JeepayVerifiesTheSigned
  AnswerIsExact
CHECK_DEADLOCK FALSE
