SPECIFICATION AgSpec
CONSTANTS
    ChatMsgs = {"a", "b", "c", "d"}
    ChatText <- ChatTexts
    ChatLimit = 2
    ChatReplies = 1
    WcMsgs = {"m"}
    WcEnters = {"e"}
    WcOthers = {}
    WcUpdates = 2
    WcLinks = 2
    WxCount = 2
    WxBatch = 2
    WxStarts = 2
    PlConfigs <- Planners
    PlResults <- ToolResults
    PlCalls = 1
    PlAsks = 2
    WbScenes <- Scenes
    AlScenes <- Agents
    SvScenes <- Teams
INVARIANTS
    HistoryIsTrue
    
    
    ScreenIsTrue
    
    ResultIsEarned

    
    
CHECK_DEADLOCK FALSE
