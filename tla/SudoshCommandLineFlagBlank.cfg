CONSTANTS
    None = None
    Malformed = Malformed
    Absent = Absent
    ExeValues = {"sudosh", None}
    UserValues = {"root", None}
    FlagValues <- MCFlagValuesBlank
    PassValues = {None, "pw"}
    EnvValues = {}
    Letters <- MCLetters
    ArgValues = {"release 2"}
    Commands = {"ls"}
    MaxBuilds = 1
    WordsOf <- MCWordsOf
SPECIFICATION Spec
CONSTRAINT MCBuiltFromCurrent
INVARIANTS
    ArgvPreserved
