CONSTANTS
    m1 = m1
    m2 = m2
    Msg = {m1, m2}
    NoMsg = NoMsg
    Script <- MCScript
    Hold = 2
    MaxBreaks = 1
    MaxCuts = 2
    CallId = {50}
    Name = {"a"}
    MaxWire = 3
    MaxAnswers = 1
    Word = {"a", "b"}
    Show <- MCShow
    Page <- MCPage
    Backed = {"d"}
    Hit <- MCHit
    Odd = "odd"
    MaxEmits = 4
    MaxTalk = 1
    Widget = {"a", "b"}
    Doc <- MCDoc
    Data <- MCData
    Upload <- MCUpload
    Generic = {"pdf"}
    MaxRequests = 2
    None = None
    Key = {"a", "b"}
    MaxRepeats = 1
    ModelLimit = 4
    ToolLimit = 5
    MaxCalls = 2
SPECIFICATION MCSpec
INVARIANT PagesHaveChips
CHECK_DEADLOCK FALSE
