SPECIFICATION Spec
CONSTANTS
  Kinds = {"buycard", "bill", "list", "beat"}
  MaxPackets = 2
  MaxRows = 99
  Numbers = {1, 2}
  Texts <- MCTexts
  Half = 950
  Exact = 150
  Precision = 100
CHECK_DEADLOCK FALSE
INVARIANTS TypeOK InStepUntilShort EverythingFits NumberTellsWhatFollows TextsAreReadRight
