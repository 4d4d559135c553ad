CONSTANTS
    None = None
    Malformed = Malformed
    Absent = Absent
    ExeValues = {"sudosh", None}
    UserValues = {"root", None}
    FlagValues <- MCFlagValues
    PassValues = {None, "pw"}
    EnvValues = {"/srv/my plays"}
    Letters <- MCLetters
    ArgValues = {"ops"}
    Commands = {"ls"}
    MaxBuilds = 1
    WordsOf <- MCWordsOf
SPECIFICATION Spec
CONSTRAINT MCBuiltFromCurrent
INVARIANTS
    ArgvPreserved
