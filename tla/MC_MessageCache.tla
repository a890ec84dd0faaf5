-------------------------- MODULE MC_MessageCache --------------------------
EXTENDS MessageCache, TLC

CONSTANTS m1, m2, m3

MCMsgs == {m1, m2, m3}

TtlToken(v)  == [name |-> "ttl", int |-> TRUE, value |-> v]
TtlText      == [name |-> "ttl", int |-> FALSE, value |-> 0]   \* "ttl=soon" or a bare "ttl"
NoNameToken  == [name |-> "", int |-> TRUE, value |-> 30]      \* "=30"
OtherToken   == [name |-> "other", int |-> FALSE, value |-> 0] \* "reply"

\* no cache parameter, "no", the default, an invalid TTL, a TTL below the
\* range, one above it, one in range after an unrelated token, and a
\* later ttl overriding an earlier one
Value(tokens) == [no |-> FALSE, tokens |-> tokens]

MCCacheValues ==
    { Value(<<>>), [no |-> TRUE, tokens |-> <<>>], Value(<<TtlText>>),
      Value(<<NoNameToken>>), Value(<<TtlToken(5)>>),
      Value(<<TtlToken(100000)>>), Value(<<OtherToken, TtlToken(20)>>),
      Value(<<TtlToken(20), TtlToken(5)>>) }

\* for the TTL range: the values above, and the largest TTL convert_string
\* accepts, which added to the clock passes the largest time_t
MCTTLValues == MCCacheValues \cup { Value(<<TtlToken(IntMax)>>) }

=============================================================================
