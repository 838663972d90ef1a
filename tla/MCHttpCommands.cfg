\* One handler; the smallest sizes at which every limit is met and exceeded.
CONSTANTS
    Trim <- MCTrim
    Upper <- MCUpper
    Numeral <- MCNumeral
    Scores = {"1", "2"}
    StreamIds = {"1-1"}
    IntMax = 15
    MAX_MULTI_ITEMS = 2
    MAX_COLLECTION_PAGE = 3
    MAX_STRING_RANGE = 2
    MAX_DATABASE = 15
    MAX_COMMAND_LENGTH = 20
    MAX_ARGUMENTS = 10
    MAX_RESP_BULK_LENGTH = 8
    MAX_RESP_ARRAY_LENGTH = 3
    MAX_RESP_DEPTH = 2
    MAX_RESPONSE_NODES = 5
    MAX_RESPONSE_ELEMENTS = 4
    MAX_RESPONSE_BYTES = 40
    BASE64_ENVELOPE = 31
    Values <- MCValues
    PAGE_LIMIT = 1
    STRING_PREVIEW_BYTES = 2
    MaxSize = 3
    MaxValues = 3
    Lines <- MCLines
    API_ENVELOPE = 24
    MAX_JSON_VALUE_BYTES = 41
    MAX_RESPONSE_BODY_BYTES = 65
SPECIFICATION HttpCommandsSpec
INVARIANTS
    ArgumentsQuotable
    WindowedDemandBounded
    OneReplyRead
    ReplyWithinBudget
    ConvertedValueFits
    DetailFromSeenValues
