CONSTANTS
  Alphabet <- MCAlphabet
  StableSuffixes = {1, 2}
  MaxPrompt = 5
SPECIFICATION Spec
INVARIANTS
  RequestValid
  AnsweredCallsNative
PROPERTIES
  CachedPrefixReused
