CONSTANTS
    None = None
    Malformed = Malformed
    Absent = Absent
    ExeValues = {"sudosh", None}
    UserValues = {"root"}
    FlagValues <- MCFlagValuesRepeated
    PassValues = {None, "pw"}
    EnvValues = {}
    Letters <- MCLetters
    ArgValues = {}
    Commands = {"", "ls"}
    MaxBuilds = 2
SPECIFICATION Spec
INVARIANT
    PasswordStripMatchesSpec
