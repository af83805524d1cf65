\* Five settings, a first .env file of at most two lines.
SPECIFICATION Spec
CONSTANTS
    Prompts <- MCPrompts
    Required = {"EITAA_TOKEN", "SOURCE_CHANNELS"}
    Answers <- MCAnswers
    Default <- MCDefault
    Numbers = {"FETCH_INTERVAL_SECONDS"}
    Malformed = {"soon", ""}
    Sources = "SOURCE_CHANNELS"
    Provider = "AI_PROVIDER"
    ApiKey = "AI_API_KEY"
    Others = {"YASIN_STATUS_DIR"}
    Text = "text"
    Blank = ""
    Unset = "unset"
    FileLength = 2
    MaxExported = 1
INVARIANTS
    SavedSettingsSurvive
    RunningIsConfigured
