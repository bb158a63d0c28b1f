SPECIFICATION AdapterSpec
CONSTANTS
    Models = {m1, m2}
    Tools <- MCTools
    Numbers <- MCNumbers
    Answers <- MCAnswers
    MaxFragment = 2
    MaxPreamble = 5
    Sizes <- MCSizes
    BatchLimit = 3
INVARIANTS
    ProseIsShown
    CallsComeBack
    ScoresBelong
