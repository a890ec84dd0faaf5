\* Round trip of the fields of a flag whose tags are valid names.
CONSTANTS
    Messages = {"clamav not installed"}
    SourceFiles = {"flags.cpp"}
    Functions = {"load_flags"}
    Lines = {1109}
    Priorities <- MCPriorities
    TagInputs <- MCValidTags
    NoFlag = NoFlag
SPECIFICATION Spec
INVARIANT RoundTrip
