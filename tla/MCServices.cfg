SPECIFICATION MCSpec
CONSTANTS
  Earlier <- MCEarlier
  Terms = {"p", "q"}
  MaxMessages = 4
  KeepRecent = 2
  TrimAbove = 7
  TrimTo = 3
  Models = 2
  Iterations = 2
  Failures = 2
  Notes = 1
  Given = 2
  HookFiles = {"h1", "h2"}
  HooksIn <- MCHooksIn
  SettingHooks <- MCSettings
  Malformed = Malformed
  Caches = {"router", "gov"}
  Readers = {"r1", "r2"}
  Edits = 5
  HookEdits = 4
  Saves = 4
  Turns = 2
  ModelCalls = 2
  Providers <- MCProviders
  Names = {"m", "n"}
  Bundled <- MCBundled
  Projects <- MCProjects
  EnvFiles <- MCEnvFiles
  Chains <- MCChains
  Formats = {"anthropic", "openai", "json", "claude", "codex"}
  CallIds <- MCCallIds
  Parts = 2
  Editors = {"e1", "e2"}
  Texts = {"x", "}"}
  Wordy = {"a", "x", "new"}
  Digest <- MCDigest
  Drafts <- MCDrafts
  Ops = {"replace", "insert_after", "insert_before", "delete"}
  MaxEdits = 2
  EditTurns = 2
  Procs = {"p1", "p2"}
  BoxNames = {"dev"}
  MaxBoxes = 2
  Commands = 2
  PathNames = {"w", "s", "v", "f", "out", ".env", "todos.json"}
  Workspace <- MCWorkspace
  Paths <- MCPaths
  Links <- MCLinks
  Directories <- MCDirectories
  SensitiveAs <- MCSensitive
  GuardCalls = 2
INVARIANTS HistoryIsSound HooksMatchFiles NeverOlder
INVARIANTS PathIsCallable AnswerIsSound SuccessRanAtHome GuardHolds
PROPERTIES HistoryLossIsExplained EditsLand
\* The bounds on commands, turns and writes end every behaviour.
CHECK_DEADLOCK FALSE
