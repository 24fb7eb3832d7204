CONSTANTS
    NoDirectory = NoDirectory
    NoVersion = NoVersion
    NoTool = NoTool
    PluginPath <- MCPluginPath
    Here = "."
    Layouts <- MCLayouts
    Commands <- MCCommands
    Loaded = {"util", "cli", "plugins", "eda_tool"}
SPECIFICATION Spec
INVARIANTS TypeOK FirstCopyServes SuccessIsOfThisRun
