SPECIFICATION Spec
CONSTANTS
  Window = 2
  BlockSizes <- MCBlockSizes
  DefaultBlock = 2
  ContentSizes <- MCContentSizes
  Choices <- MCChoices
  MaxContent = 8
INVARIANTS
  FlagsAgree
  ContextSound
  NeverTooSmall
PROPERTY WriterSpec
