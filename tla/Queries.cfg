SPECIFICATION QuerySpec
CONSTANTS
    targetNode = targetNode
    serviceNode = serviceNode
    techNode = techNode
    episodeNode = episodeNode
    NodeRank <- NodeRankTable
    EdgeRank <- EdgeRankTable
    Label <- LabelTable
    LabelRank <- LabelRankTable
    Kind <- KindTable
    Attribute <- AttributeTable
    Seen <- SeenTable
    Day <- DayTable
    DefaultLimit = 3
    Vocabularies <- VocabularySet
    MaxTokens = 6
    Names = {"a", "b"}
    Expressions <- ExpressionSet
    StoredGraphs <- GraphSet
    NoGraph = NoGraph
INVARIANTS ParserFollowsGrammar AnswersAreTrue
PROPERTY RunsFailForCause
CHECK_DEADLOCK FALSE
