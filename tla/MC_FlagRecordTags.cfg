\* Round trip when add_tag is given strings valid_name would reject.
CONSTANTS
    Messages = {"clamav not installed"}
    SourceFiles = {"flags.cpp"}
    Functions = {"load_flags"}
    Lines = {1109}
    Priorities <- MCPriorities
    TagInputs <- MCOtherTags
    NoFlag = NoFlag
SPECIFICATION Spec
INVARIANT RoundTrip
