------------------------------ MODULE FlagName ------------------------------
(***************************************************************************)
(* The name grammar of communicatord flags (flags.cpp, flag::valid_name)   *)
(* and the filename built from a validated (unit, section, name) triple    *)
(* (flag::get_filename).                                                   *)
(*                                                                         *)
(* A string is a sequence of one-character strings.  The characters are   *)
(* representatives of the classes valid_name tells apart: lowercase        *)
(* letters, uppercase letters (folded with c |= 0x20), digits, the dash,   *)
(* and any other byte (the underscore stands for them, and it is also the  *)
(* separator get_filename puts between the three names).                   *)
(***************************************************************************)
EXTENDS Naturals, Sequences

Lowercase == {"a", "z"}
Uppercase == {"A", "Z"}
Digits    == {"0", "9"}
Dash      == "-"
Separator == "_"
Chars     == Lowercase \cup Uppercase \cup Digits \cup {Dash, Separator}

\* c |= 0x20 on an uppercase ASCII letter
ToLower == [c \in Uppercase |-> IF c = "A" THEN "a" ELSE "z"]

\* The outcome of valid_name: a thrown invalid_name, or the name as
\* normalised in place.  last is the loop's last_char when the loop ends.
Invalid == [ok |-> FALSE, name |-> <<>>, last |-> ""]

\* Variant of FoldCaseAt that folds c but never stores it back in name.
FoldCaseAtNoStore(name, idx, c) == name

\* The default: branch of the switch: an uppercase letter is folded and
\* written back into the string (name[idx] = c).
FoldCaseAt(name, idx, c) == [name EXCEPT ![idx] = ToLower[c]]

\* Variant of IsLowercase that lets the underscore through.
IsLowercaseOrUnderscore(c) == c \in Lowercase \cup {Separator}

\* The test of the default: branch that rejects any other byte.
IsLowercase(c) == c \in Lowercase

\* The for loop of valid_name from position idx on, with the loop
\* variables first and last_char.  Each branch is one case of the switch.
RECURSIVE ScanName(_, _, _, _)
ScanName(name, idx, first, last) ==
    IF idx > Len(name)
    THEN [ok |-> TRUE, name |-> name, last |-> last]
    ELSE LET c == name[idx] IN
         CASE c = Dash ->
                IF first \/ last = Dash THEN Invalid
                ELSE ScanName(name, idx + 1, FALSE, c)
           [] c \in Digits ->
                IF first THEN Invalid
                ELSE ScanName(name, idx + 1, FALSE, c)
           [] c \in Uppercase ->
                ScanName(FoldCaseAt(name, idx, c), idx + 1, FALSE, ToLower[c])
           [] IsLowercase(c) ->
                ScanName(name, idx + 1, FALSE, c)
           [] OTHER -> Invalid

\* Variant of ValidName without the test after the loop.
ValidNameNoTrailingTest(name) ==
    IF name = <<>> THEN Invalid ELSE ScanName(name, 1, TRUE, "")

\* flag::valid_name: the empty check, the loop, and the trailing dash check
ValidName(name) ==
    IF name = <<>> THEN Invalid
    ELSE LET r == ScanName(name, 1, TRUE, "") IN
         IF r.ok /\ r.last = Dash THEN Invalid ELSE r

\* flag::flag(unit, section, name): the three names validated in turn; the
\* object exists only when none of them throws.
NewFlag(unit, section, name) ==
    LET u == ValidName(unit)
        s == ValidName(section)
        n == ValidName(name)
    IN [ok |-> u.ok /\ s.ok /\ n.ok,
        unit |-> u.name, section |-> s.name, name |-> n.name]

\* The part of flag::get_filename appended to the flags directory:
\* <unit> "_" <section> "_" <name> ".flag"
FlagFileName(unit, section, name) ==
    unit \o <<Separator>> \o section \o <<Separator>> \o name \o <<".flag">>

=============================================================================
