\* A form with a field of each kind, two states of the lists, tables of up to three rows.
SPECIFICATION Spec
CONSTANTS
    Line <- MCLine
    Ignored = {"#"}
    Lower <- MCLower
    Covers <- MCCovers
    Malformed = {"["}
    Verbs <- MCVerbs
    Fields <- MCFields
    DefaultForm <- MCDefaultForm
    OptionsOf <- MCOptionsOf
    Texts <- MCTexts
    Needs <- MCNeeds
    PatternsOf <- MCPatternsOf
    Durations = {""}
    TopMatch <- MCTopMatch
    SettingFields <- MCSettingFields
    DefaultQueries <- MCDefaultQueries
    TaskQuery <- MCTaskQuery
    TaskHits <- MCTaskHits
    Lists <- MCLists
    SavedSettings <- MCSavedSettings
    OsOf <- MCOsOf
    MaxEdited = 1
    Cell <- MCCell
    EmptyCell = ""
    DashCell = "-"
    Number <- MCNumber
    Text <- MCText
    Query <- MCQuery
    Blank = ""
    Holds <- MCHolds
    NameCell <- MCNameCell
    Column = {"Size"}
    OutputOf <- MCOutputOf
    Heights <- MCHeights
    MaxFolds = 1
INVARIANTS
    CursorInView
    LinesFaithful
    KeysGoWhereShown
    PreviewIsHit
PROPERTIES
    ToggleAnchors
    CommandIsKept
