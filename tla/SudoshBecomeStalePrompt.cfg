CONSTANTS
    None = None
    Malformed = Malformed
    Absent = Absent
    ExeValues = {"sudosh", None}
    UserValues = {"root"}
    FlagValues <- MCFlagValues
    PassValues = {None, "pw"}
    EnvValues = {}
    Letters <- MCLetters
    ArgValues = {}
    Commands = {"", "ls"}
    MaxBuilds = 2
SPECIFICATION Spec
INVARIANT
    PromptModeOfThisBuild
