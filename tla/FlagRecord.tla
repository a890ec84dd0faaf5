----------------------------- MODULE FlagRecord -----------------------------
(***************************************************************************)
(* The descriptive fields of a flag object, their setters, and their trip  *)
(* through the record file: flag::save writes each one as a key=value      *)
(* text field (lines 929-945), the flag(filename) constructor parses them  *)
(* back (lines 282-371).                                                   *)
(*                                                                         *)
(* Tags and the numbers written as text are sequences of one-character   *)
(* strings; the message, source file and function are written and read    *)
(* back as they are, so each is one string value.                          *)
(* Identity (unit, section, name) and the merged date/modified/count are   *)
(* the concern of modules FlagName and FlagStore.                          *)
(***************************************************************************)
EXTENDS Integers, Sequences, SequencesExt

CONSTANTS
    Messages,     \* messages given to set_message
    SourceFiles,  \* strings given to set_source_file
    Functions,    \* strings given to set_function
    Lines,        \* ints given to set_line
    Priorities,   \* ints given to set_priority
    TagInputs,    \* strings given to add_tag
    NoFlag        \* model value: no flag loaded / no record on disk

Blanks == {" "}   \* the trim set " \n\r\t" of tokenize_string, as one class

DigitChar == <<"0", "1", "2", "3", "4", "5", "6", "7", "8", "9">>

(***************************************************************************)
(* std::to_string and std::stol on the non-negative values of line and     *)
(* priority (__LINE__, and priority after set_priority's clamp).            *)
(***************************************************************************)
RECURSIVE ToDecimal(_)
ToDecimal(n) ==
    IF n < 10 THEN <<DigitChar[n + 1]>>
    ELSE ToDecimal(n \div 10) \o <<DigitChar[(n % 10) + 1]>>

DigitValue(c) == CHOOSE d \in 0..9 : DigitChar[d + 1] = c

Stol(s) == FoldLeft(LAMBDA acc, c : 10 * acc + DigitValue(c), 0, s)

(***************************************************************************)
(* snapdev::join_strings(f_tags, ",") and                                  *)
(* snapdev::tokenize_string(list, tags, ",", true, " \n\r\t"): split at    *)
(* every comma, trim the blanks at both ends of each piece, drop the       *)
(* empty pieces.  f_tags is a std::set, so the order of the join does not  *)
(* change the pieces.                                                      *)
(***************************************************************************)
JoinStrings(S) ==
    LET seq == SetToSeq(S) IN
    IF seq = <<>> THEN <<>>
    ELSE FoldLeft(LAMBDA acc, s : acc \o <<",">> \o s, Head(seq), Tail(seq))

RECURSIVE SplitAtComma(_)
SplitAtComma(s) ==
    IF \A i \in 1..Len(s) : s[i] # ","
    THEN <<s>>
    ELSE LET i == CHOOSE i \in 1..Len(s) :
                     s[i] = "," /\ \A j \in 1..(i - 1) : s[j] # ","
         IN <<SubSeq(s, 1, i - 1)>> \o SplitAtComma(SubSeq(s, i + 1, Len(s)))

RECURSIVE TrimFront(_)
TrimFront(s) == IF s # <<>> /\ Head(s) \in Blanks THEN TrimFront(Tail(s)) ELSE s

Trim(s) == Reverse(TrimFront(Reverse(TrimFront(s))))

TokenizeString(s) ==
    {Trim(p) : p \in ToSet(SplitAtComma(s))} \ {<<>>}

(***************************************************************************)
(* The object: provenance, message, priority, manual_down, tags.  A new   *)
(* flag has the defaults of flags.h (spec 4.2): line 0, priority 5, not    *)
(* manual, no tags, and empty strings.                                     *)
(***************************************************************************)
NewObject == [source_file |-> "", function |-> "", line |-> 0, message |-> "",
              priority |-> 5, manual_down |-> FALSE, tags |-> {}]

\* flag::set_priority (lines 486-501): clamp to 0..100.
SetPriorityValue(p) ==
    IF p < 0 THEN 0 ELSE IF p > 100 THEN 100 ELSE p

\* flag::add_tag (lines 547-552): the tag goes into the set as given.
AddTagTo(tags, tag) == tags \cup {tag}

\* Variant of Serialise writing manual_down with the words of a bool.
SerialiseTrueFalse(o) ==
    [source_file |-> o.source_file,
     function    |-> o.function,
     line        |-> ToDecimal(o.line),
     message     |-> o.message,
     priority    |-> ToDecimal(o.priority),
     manual_down |-> IF o.manual_down THEN "true" ELSE "false",
     tags        |-> JoinStrings(o.tags)]

\* The fields flag::save sets before save_configuration (lines 929-945).
Serialise(o) ==
    [source_file |-> o.source_file,
     function    |-> o.function,
     line        |-> ToDecimal(o.line),
     message     |-> o.message,
     priority    |-> ToDecimal(o.priority),
     manual_down |-> IF o.manual_down THEN "yes" ELSE "no",
     tags        |-> JoinStrings(o.tags)]

\* flag::flag(filename) on a record save wrote (lines 282-371).
Parse(r) ==
    [source_file |-> r.source_file,
     function    |-> r.function,
     line        |-> Stol(r.line),
     message     |-> r.message,
     priority    |-> Stol(r.priority),
     manual_down |-> r.manual_down = "yes",
     tags        |-> TokenizeString(r.tags)]

VARIABLES
    object,   \* the flag object of the caller
    saved,    \* the object as it was at its last save, or NoFlag
    record,   \* the record file that save wrote, or NoFlag
    loaded    \* the flag flag(filename) built from it since, or NoFlag

vars == <<object, saved, record, loaded>>

Init ==
    /\ object = NewObject
    /\ saved = NoFlag
    /\ record = NoFlag
    /\ loaded = NoFlag

SetSourceFile(f) ==
    /\ object' = [object EXCEPT !.source_file = f]
    /\ UNCHANGED <<saved, record, loaded>>

SetFunction(f) ==
    /\ object' = [object EXCEPT !.function = f]
    /\ UNCHANGED <<saved, record, loaded>>

SetLine(l) ==
    /\ object' = [object EXCEPT !.line = l]
    /\ UNCHANGED <<saved, record, loaded>>

SetMessage(m) ==
    /\ object' = [object EXCEPT !.message = m]
    /\ UNCHANGED <<saved, record, loaded>>

SetPriority(p) ==
    /\ object' = [object EXCEPT !.priority = SetPriorityValue(p)]
    /\ UNCHANGED <<saved, record, loaded>>

SetManualDown(b) ==
    /\ object' = [object EXCEPT !.manual_down = b]
    /\ UNCHANGED <<saved, record, loaded>>

AddTag(tag) ==
    /\ tag \notin object.tags
    /\ object' = [object EXCEPT !.tags = AddTagTo(@, tag)]
    /\ UNCHANGED <<saved, record, loaded>>

\* A successful UP save: the record now holds the object's fields.
Save ==
    /\ record' = Serialise(object)
    /\ saved' = object
    /\ loaded' = NoFlag
    /\ UNCHANGED object

\* flag(filename) of the record.
Load ==
    /\ record # NoFlag
    /\ loaded' = Parse(record)
    /\ UNCHANGED <<object, saved, record>>

Next ==
    \/ \E f \in SourceFiles : SetSourceFile(f)
    \/ \E f \in Functions : SetFunction(f)
    \/ \E l \in Lines : SetLine(l)
    \/ \E m \in Messages : SetMessage(m)
    \/ \E p \in Priorities : SetPriority(p)
    \/ \E b \in BOOLEAN : SetManualDown(b)
    \/ \E tag \in TagInputs : AddTag(tag)
    \/ Save
    \/ Load

Spec == Init /\ [][Next]_vars

(***************************************************************************)
(* Properties                                                              *)
(***************************************************************************)

\* Spec 8, round trip: a flag loaded from the record of a save has the
\* provenance, message, priority, manual_down and tags of the object that
\* was saved (set_priority clamping, to_string/stol, yes/no, join_strings
\* and tokenize_string all agree with each other).
RoundTrip == loaded # NoFlag => loaded = saved

=============================================================================
