----------------------------- MODULE JsonString -----------------------------
(***************************************************************************)
(* The strings of the JSON codec (service/src/json.rs): what the parser    *)
(* reads between two quotes, and what the serializer writes there.  Keys   *)
(* and values of every line, answer and document go through them.          *)
(*                                                                         *)
(* A text is a sequence of symbols.  A symbol is a character of the        *)
(* grammar, a digit, or a word that stands for a run of other characters   *)
(* ("true", a key, the four digits of an escape); a position counts        *)
(* symbols instead of bytes.  "end" is no symbol.  A string value is a     *)
(* text too.                                                               *)
(***************************************************************************)
EXTENDS JsonValue, Integers, Sequences, SequencesExt

At(s, i) == IF i \in DOMAIN s THEN s[i] ELSE "end"

-----------------------------------------------------------------------------
(* The parser.                                                             *)

Replacement == "fffd"

Escape ==
    [c \in {Quote, Slash, "/", "b", "f", "n", "r", "t"} |->
        CASE c = "b" -> "bs" [] c = "f" -> "ff" [] c = "n" -> "\n" [] c = "r" -> "\r"
          [] c = "t" -> "\t" [] OTHER -> c]

\* The escapes \uXXXX of the instances: control characters, a letter, and the two
\* halves of a pair.
High == "d83d"
Low == "de00"
Unit ==
    [u \in {"0008", "000c", "000a", "0041", Low, High} |->
        CASE u = "0008" -> "bs" [] u = "000c" -> "ff" [] u = "000a" -> "\n" [] u = "0041" -> "A"
          [] OTHER -> Replacement]
Pair == "d83dde00"

\* What follows a backslash at i: the character and the position after it.
escape(s, i) ==
    IF At(s, i) \in DOMAIN Escape THEN Ok(Escape[At(s, i)], i + 1)
    ELSE IF At(s, i) # "u" \/ At(s, i + 1) \notin DOMAIN Unit THEN Err
    ELSE IF At(s, i + 1) # High \/ At(s, i + 2) # Slash \/ At(s, i + 3) # "u"
         THEN Ok(Unit[At(s, i + 1)], i + 2)
    ELSE IF At(s, i + 4) \notin DOMAIN Unit THEN Err
    ELSE IF At(s, i + 4) = Low THEN Ok(Pair, i + 5)
    ELSE Ok(Replacement, i + 2)

\* One character of a string, and the position after it.
character(s, i) ==
    IF At(s, i) = "end" THEN Err
    ELSE IF At(s, i) = Slash THEN escape(s, i + 1)
    ELSE Ok(s[i], i + 1)

\* The loop of parse_string: what it still reads, from each position on.
string_rest(s) ==
    LET rest[i \in 1..Len(s) + 1] ==
            LET c == character(s, i)
            IN  IF At(s, i) = Quote THEN Ok(<< >>, i + 1)
                ELSE IF ~c.ok \/ ~rest[c.next].ok THEN Err
                ELSE Ok(<<c.value>> \o rest[c.next].value, rest[c.next].next)
    IN  rest

parse_string(s, i) == IF At(s, i) = Quote THEN string_rest(s)[i + 1] ELSE Err

-----------------------------------------------------------------------------
(* The serializer.                                                         *)

Control == [c \in {"bs", "ff"} |-> IF c = "bs" THEN "0008" ELSE "000c"]

\* Mutant: only what ends a string is escaped.
escaped_quotes(c) == IF c \in {Quote, Slash} THEN <<Slash, c>> ELSE <<c>>

escaped(c) ==
    CASE c \in {Quote, Slash} -> <<Slash, c>>
      [] c = "\n" -> <<Slash, "n">>
      [] c = "\r" -> <<Slash, "r">>
      [] c = "\t" -> <<Slash, "t">>
      [] c \in DOMAIN Control -> <<Slash, "u", Control[c]>>
      [] OTHER -> <<c>>

write_escaped(text) == <<Quote>> \o FlattenSeq([i \in DOMAIN text |-> escaped(text[i])]) \o <<Quote>>

=============================================================================
