---------------------------- MODULE MessageCache ----------------------------
(***************************************************************************)
(* The cache of messages whose destination is not known yet (cache.cpp,    *)
(* class scd::cache): cache_message, remove_old_messages and               *)
(* process_messages.  The daemon calls them from its single event loop, so *)
(* each is one atomic step.  A message is a model value; of its            *)
(* parameters only "cache" is modelled: whether it is the string "no",    *)
(* else the list of tokens tokenize_string splits it into on ";" (empty    *)
(* tokens dropped; an absent parameter is the empty list).                 *)
(***************************************************************************)
EXTENDS Integers, Sequences, SequencesExt

CONSTANTS
    Msgs,         \* the messages handed to cache_message
    CacheValues,  \* values of their "cache" parameter
    TickSteps,    \* how far time(nullptr) moves between two handlers
    Epoch,        \* time(nullptr) when the daemon starts
    MaxTime,      \* how long the clock runs after Epoch
    IntMax        \* largest std::int64_t / time_t (a smaller width in TLC)

\* A token of the cache parameter: "<name>=<value>" or a bare "<name>"
\* (value "true"); int tells whether convert_string accepts the value.
Token == [name : {"ttl", "other", ""}, int : BOOLEAN, value : Int]

CacheValue == [no : BOOLEAN, tokens : Seq(Token)]

ASSUME CacheValues \subseteq CacheValue
\* convert_string fails on text outside std::int64_t
ASSUME \A v \in CacheValues : \A i \in 1..Len(v.tokens) :
          v.tokens[i].int => v.tokens[i].value \in -IntMax-1..IntMax
ASSUME Epoch + MaxTime <= IntMax

Entry == [msg : Msgs, cachedAt : Int, timeout : Int]

VARIABLES
    now,        \* time(nullptr)
    cache,      \* f_message_cache, in push_back order
    handled,    \* messages already given to cache_message
    delivered   \* messages the callback of process_messages accepted

vars == <<now, cache, handled, delivered>>

TypeOK ==
    /\ now \in Epoch..(Epoch + MaxTime)
    /\ cache \in Seq(Entry)
    /\ handled \subseteq Msgs
    /\ delivered \subseteq handled

NoTTL == [name |-> "ttl", int |-> FALSE, value |-> 0]

\* Lines 1215-1242: the tokens are put in a map, a later "ttl" replacing
\* an earlier one, and tokens with an empty name ("=v") are skipped.
TtlParameter(tokens) ==
    LET ttls == SelectSeq(tokens, LAMBDA k : k.name = "ttl") IN
    IF ttls = <<>> THEN NoTTL ELSE Last(ttls)

\* Lines 1241-1266: the TTL, 60 by default.  The range test reads ttl,
\* which still holds the default, instead of the converted value.
CacheTTL(param) ==
    LET ttl == 60 IN
    CASE param = NoTTL -> ttl
      [] ~param.int -> ttl
      [] ttl < 10 \/ ttl > 86400 -> ttl
      [] OTHER -> param.value

\* time(nullptr) + ttl in std::int64_t: the signed overflow is undefined;
\* the build wraps around (two's complement).
WrapInt(x) == ((x + IntMax + 1) % (2 * (IntMax + 1))) - (IntMax + 1)

\* A cached entry is dropped once time(nullptr) is past its timeout.
IsExpired(e, t) == t > e.timeout

(***************************************************************************)
(* cache::cache_message (lines 1200-1287).                                 *)
(***************************************************************************)
CacheMessage(m, value) ==
    /\ m \notin handled
    /\ handled' = handled \cup {m}
    /\ IF value.no
       THEN UNCHANGED cache
       ELSE cache' = Append(cache,
                       [msg |-> m, cachedAt |-> now,
                        timeout |-> WrapInt(now + CacheTTL(TtlParameter(value.tokens)))])
    /\ UNCHANGED <<now, delivered>>

(***************************************************************************)
(* cache::remove_old_messages (lines 1290-1305).                           *)
(***************************************************************************)
RemoveOldMessages ==
    /\ \E i \in 1..Len(cache) : IsExpired(cache[i], now)
    /\ cache' = SelectSeq(cache, LAMBDA e : ~IsExpired(e, now))
    /\ UNCHANGED <<now, handled, delivered>>

(***************************************************************************)
(* cache::process_messages (lines 1308-1324): the callback is called on    *)
(* every entry, expired or not, in order; it returns true for the          *)
(* messages it could forward (accepted).  An entry goes when the callback  *)
(* accepted it or when it is expired.                                      *)
(***************************************************************************)
ProcessMessages ==
    /\ cache # <<>>
    /\ \E accepted \in SUBSET {cache[i].msg : i \in 1..Len(cache)} :
        /\ cache' = SelectSeq(cache,
                        LAMBDA e : ~(e.msg \in accepted \/ IsExpired(e, now)))
        /\ delivered' = delivered \cup accepted
    /\ UNCHANGED <<now, handled>>

Tick ==
    \E d \in TickSteps :
        /\ now + d <= Epoch + MaxTime
        /\ now' = now + d
        /\ UNCHANGED <<cache, handled, delivered>>

Init ==
    /\ now = Epoch
    /\ cache = <<>>
    /\ handled = {}
    /\ delivered = {}

Next ==
    \/ \E m \in Msgs, v \in CacheValues : CacheMessage(m, v)
    \/ RemoveOldMessages
    \/ ProcessMessages
    \/ Tick

Spec == Init /\ [][Next]_vars

(***************************************************************************)
(* Properties                                                              *)
(***************************************************************************)

\* The TTL cache_message gives a message is the default of 60 seconds or
\* a value between 10 and 86400, as the log message of line 1259 says
\* (so time(nullptr) + ttl never overflows either).
TTLWithinRange ==
    \A i \in 1..Len(cache) :
        cache[i].timeout - cache[i].cachedAt \in 10..86400

=============================================================================
