---------------------------- MODULE MC_FlagName ----------------------------
(***************************************************************************)
(* Checks the name validator and the record filename of module FlagName.  *)
(* Each step is one call of the library, unrelated to the step before it:  *)
(*   Validate     valid_name on a string of at most MaxLen characters      *)
(*                over Alphabet (the constructor, or add_tag);             *)
(*   Construct    flag::flag(unit, section, name) on three strings of at   *)
(*                most IdMaxLen characters over IdAlphabet;                *)
(*   GetFileName  the first get_filename on the flag just constructed.     *)
(* A behaviour is one call, then (for Construct) its get_filename: the     *)
(* two checks do not multiply each other's states.                         *)
(***************************************************************************)
EXTENDS FlagName, TLC

CONSTANTS Alphabet, MaxLen, IdAlphabet, IdMaxLen

StringsOver(A, n) == UNION {[1..k -> A] : k \in 0..n}

Strings   == StringsOver(Alphabet, MaxLen)
IdStrings == StringsOver(IdAlphabet, IdMaxLen)

VARIABLES
    input,     \* the string handed to valid_name
    result,    \* what valid_name made of it
    args,      \* the (unit, section, name) handed to the constructor
    flag,      \* the object it built
    filename   \* what get_filename returned, or NoFileName

vars == <<input, result, args, flag, filename>>

NoFileName == <<>>

NoArgs == <<<<>>, <<>>, <<>>>>

TypeOK ==
    /\ input \in Strings
    /\ result.ok \in BOOLEAN
    /\ result.name \in UNION {[1..k -> Chars] : k \in 0..MaxLen}
    /\ args \in IdStrings \X IdStrings \X IdStrings
    /\ flag.ok \in BOOLEAN
    /\ filename \in Seq(Chars \cup {".flag"})

Init ==
    /\ input = <<>>
    /\ result = ValidName(<<>>)
    /\ args = NoArgs
    /\ flag = NewFlag(<<>>, <<>>, <<>>)
    /\ filename = NoFileName

\* No call made yet.
Idle == input = <<>> /\ args = NoArgs

Validate ==
    /\ Idle
    /\ \E s \in Strings :
        /\ input' = s
        /\ result' = ValidName(s)
    /\ UNCHANGED <<args, flag, filename>>

Construct ==
    /\ Idle
    /\ \E u, s, n \in IdStrings :
        /\ args' = <<u, s, n>>
        /\ flag' = NewFlag(u, s, n)
    /\ UNCHANGED <<input, result, filename>>

\* The directory prefix, the same for every flag, is left out.
GetFileName ==
    /\ flag.ok
    /\ filename = NoFileName
    /\ filename' = FlagFileName(flag.unit, flag.section, flag.name)
    /\ UNCHANGED <<input, result, args, flag>>

Next == Validate \/ Construct \/ GetFileName

Spec == Init /\ [][Next]_vars

(***************************************************************************)
(* Reference grammar, written from the spec, not from the code.            *)
(***************************************************************************)
Letters == Lowercase \cup Uppercase

\* The rules of section 4.1: non-empty, only letters, digits and dashes,
\* first a letter, no "--", no trailing dash.
RuleAccepts(s) ==
    /\ Len(s) >= 1
    /\ \A i \in 1..Len(s) : s[i] \in Letters \cup Digits \cup {Dash}
    /\ s[1] \in Letters
    /\ \A i \in 1..Len(s) : s[i] = Dash => i < Len(s) /\ s[i + 1] # Dash

\* ^[a-z][a-z0-9]*(-[a-z0-9]+)*$ from section 8
InLowerGrammar(s) ==
    /\ RuleAccepts(s)
    /\ \A i \in 1..Len(s) : s[i] \notin Uppercase

Lowered(s) == [i \in 1..Len(s) |-> IF s[i] \in Uppercase THEN ToLower[s[i]] ELSE s[i]]

\* Every flag object the constructor can produce from the strings.
Constructed ==
    {f \in {NewFlag(u, s, n) : u, s, n \in IdStrings} : f.ok}

(***************************************************************************)
(* Properties                                                              *)
(***************************************************************************)

\* valid_name throws invalid_name exactly on the strings the rules of
\* section 4.1 reject (empty, bad byte, leading digit or dash, "--",
\* trailing dash).
AcceptsExactlyGrammar == result.ok <=> RuleAccepts(input)

\* When valid_name returns, the string it normalised in place is the
\* input with its uppercase letters folded, and it matches the lowercase
\* grammar of section 8.
NormalisedToLowerGrammar ==
    result.ok => /\ result.name = Lowered(input)
                 /\ InLowerGrammar(result.name)

\* The record file of a constructed flag is not the record file of any
\* other constructed flag: the underscore get_filename puts between the
\* names can never come from a name, because valid_name rejects it.
FileNameInjective ==
    filename # NoFileName =>
        \A g \in Constructed :
            FlagFileName(g.unit, g.section, g.name) = filename
            => /\ g.unit = flag.unit
               /\ g.section = flag.section
               /\ g.name = flag.name

=============================================================================
