---------------------------- MODULE MC_FlagRecord ----------------------------
EXTENDS FlagRecord

\* set_priority below, inside and above 0..100 (the values of spec 8)
MCPriorities == {-5, 42, 250}

\* tags that are valid names (spec 4.1): what callers of add_tag pass
MCValidTags == {<<"f", "l", "a", "g">>, <<"t", "o", "o", "-", "m", "a", "n", "y">>}

\* tags add_tag accepts although valid_name would reject them
MCOtherTags == {<<"a", ",", "b">>, <<" ", "a">>}

=============================================================================
