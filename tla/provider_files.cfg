\* Three processes, two of one project, one with two editors; a preset and a custom id.
CONSTANTS
    p1 = p1
    p2 = p2
    p3 = p3
    e1 = e1
    e2 = e2
    e3 = e3
    e4 = e4
    r1 = r1
    r2 = r2
    preset = preset
    custom = custom
    key1 = key1
    key2 = key2
    Providers = {preset, custom}
    Presets = {preset}
    Entries <- TwoEntries
    NoEntry = NoEntry
    PresetEntry <- BuiltIn
    Secrets = {key1, key2}
    NoKey = NoKey
    Env <- OwnKeyOfFirst
    EnvJev <- NoJevSet
    NoJev = NoJev
    Nobody = Nobody
    Torn = Torn
    Projects = {r1, r2}
    Processes = {p1, p2, p3}
    Editors = {e1, e2, e3, e4}
    ProjectOf <- FirstOf
    HomeOf <- FirstTwo
    MaxEdits = 3
    MaxCrashes = 1
    AfterClash = FALSE
SPECIFICATION Spec
CHECK_DEADLOCK FALSE
INVARIANT
    KeysAreSound
PROPERTIES
    EditsKeepTheRest
    ConfirmedEditsApply
