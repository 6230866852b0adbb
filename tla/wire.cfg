SPECIFICATION WireSpec
CONSTANTS
  ed = ed  ec = ec  ae = ae
  EdKey = {ed, ae}
  EcKey = {ec}
  HonestKey = {ed, ec}
  Forged <- MCForged
  MaxProduced = 1
  MaxSigned = 1
  MaxAssembled = 1
  MaxAccepted = 1
  Maximum <- MCMaximum
  FixedWidth <- MCFixedWidth
  OverrideList <- MCOverrideList
  JsonText <- MCJsonText
  JsonValue <- MCJsonValue
  Base = 2
  ExponentDigits = 3
  IntegerMagnitude = 5
  FloatMagnitude = 6
  LexemeBytes = 10
  Lexeme <- MCLexeme
  ByteBase = 3
  LengthBytes = 2
  Magic <- MCMagic
  HeaderBytes = 2
  AnchorBytes = 2
  RowBytes = 3
  KeyTransitions = 1
  ChainRows = 2
  SegmentBytes = 4
  ArchiveBytes <- MCArchiveBytes
  Archive <- MCArchive
  CompactText <- MCCompactText
  CompactSegments <- MCCompactSegments
  UriBytes = 30
  TargetText <- MCTargetText
  IdentifierBytes = 30
  IdentifierText <- MCIdentifierText
  SignBit = 2
  Width = 3
  N <- MCN
  GROUP_ORDER_LE <- MCOrder
  Deficit = 3
INVARIANTS
  SignerMeantIt
  OneReader
  ProducedIsTaken
  DecoderReads
  TighterAdmitsLess
  CodecsAgree
  MagnitudeExact
  OneReading
  OneText
  OneTarget
  IdentifiersAreUris
  OneSpelling
CHECK_DEADLOCK FALSE
