\* The start of the tools, an editor of servers, one of policies, two of
\* providers; files that fail.
CONSTANTS
    Starters = {t1}
    ServerEditors = {s1}
    PolicyEditors = {p1}
    ProviderEditors = {v1, v2}
    NoEditor = NoEditor
    NoGuard = NoGuard
    InitialFile = 1
    MaxFile = 3
    MaxProviders = 2
    MayFail = TRUE
SPECIFICATION ConfigSpec
SYMMETRY Symmetry
PROPERTY
    EditsApply
