------------------------------ MODULE JsonText ------------------------------
(***************************************************************************)
(* The JSON codec of the service (service/src/json.rs): a recursive        *)
(* descent parser that is lenient about numbers, and a serializer.  Every  *)
(* device answer, pushed line, configuration and spool line goes through   *)
(* it.  Texts and strings are JsonString's, the values are JsonValue's.    *)
(***************************************************************************)
EXTENDS JsonString, FiniteSetsExt, TLC

CONSTANT MaxInt  \* i64::MAX

ASSUME JsonAssumption == MaxInt \in Nat

Digit == [d \in {"0", "1", "2", "3", "4", "5", "6", "7", "8", "9"} |->
            CHOOSE n \in 0..9 : ToString(n) = d]
FloatMark == {".", "e", "E", "+", "-"}

-----------------------------------------------------------------------------
(* The parser.                                                             *)

\* The first position from i on whose symbol is none of these.
Past(s, i, symbols) == Min({j \in i..Len(s) + 1 : At(s, j) \notin symbols})

skip_ws(s, i) == Past(s, i, Space)

\* Rust's str::parse::<i64> of a run of digits.
Decimal(digits) == FoldLeft(LAMBDA n, d : 10 * n + Digit[d], 0, digits)

\* str::parse::<f64>, over the texts of the instances: a sign, digits and at
\* most one decimal, or an exponent that is too large.
parse_f64(text) ==
    LET minus == text # << >> /\ Head(text) = "-"
        body == IF text # << >> /\ Head(text) \in {"-", "+"} THEN Tail(text) ELSE text
        point == Past(body, 1, DOMAIN Digit)
        whole == SubSeq(body, 1, point - 1)
        rest == SubSeq(body, point + 1, Len(body))
        sign == IF minus THEN -1 ELSE 1
    IN  IF whole = << >> THEN Err
        ELSE IF At(body, point) = "end" THEN Ok(Float(sign * 10 * Decimal(whole)), 0)
        ELSE IF ~(Range(rest) \subseteq DOMAIN Digit) \/ Len(rest) # 1 THEN Err
        ELSE IF At(body, point) = "." THEN Ok(Float(sign * (10 * Decimal(whole) + Decimal(rest))), 0)
        ELSE IF At(body, point) \in {"e", "E"} THEN Ok(Inf, 0)
        ELSE Err

\* Leading zeros and a leading plus are accepted; an integer beyond i64
\* becomes a float.
parse_number(s, i) ==
    LET first == IF At(s, i) = "-" THEN i + 1 ELSE i
        next == Past(s, first, DOMAIN Digit \cup FloatMark)
        digits == SubSeq(s, first, next - 1)
        most == IF first > i THEN MaxInt + 1 ELSE MaxInt
        n == Decimal(digits)
        float == parse_f64(SubSeq(s, i, next - 1))
    IN  IF digits = << >> THEN Err
        ELSE IF Range(digits) \cap FloatMark = {} /\ n <= most
             THEN Ok(Integer(IF first > i THEN -n ELSE n), next)
        ELSE IF float.ok THEN Ok(float.value, next)
        ELSE Err

Literal == "true" :> Bool(TRUE) @@ "false" :> Bool(FALSE) @@ "null" :> Null

RECURSIVE parse_value(_, _), array_rest(_, _, _), object_rest(_, _, _)

parse_array(s, i) ==
    LET next == skip_ws(s, i + 1)
    IN  IF At(s, next) = "]" THEN Ok(Arr(<< >>), next + 1) ELSE array_rest(s, next, << >>)

parse_object(s, i) ==
    LET next == skip_ws(s, i + 1)
    IN  IF At(s, next) = "}" THEN Ok(Obj(<< >>), next + 1) ELSE object_rest(s, next, << >>)

parse_value(s, i) ==
    LET next == skip_ws(s, i)
        str == parse_string(s, next)
    IN  CASE At(s, next) = "end" -> Err
          [] At(s, next) = "{" -> parse_object(s, next)
          [] At(s, next) = "[" -> parse_array(s, next)
          [] At(s, next) = Quote -> IF str.ok THEN Ok(Str(str.value), str.next) ELSE Err
          [] At(s, next) \in DOMAIN Literal -> Ok(Literal[At(s, next)], next + 1)
          [] OTHER -> parse_number(s, next)

\* The loop of parse_array: the items so far are known.
array_rest(s, i, items) ==
    LET item == parse_value(s, i)
        all == Append(items, item.value)
        next == skip_ws(s, item.next)
    IN  IF ~item.ok THEN Err
        ELSE CASE At(s, next) = "," -> array_rest(s, next + 1, all)
               [] At(s, next) = "]" -> Ok(Arr(all), next + 1)
               [] OTHER -> Err

\* The loop of parse_object: of equal keys the last one counts.
object_rest(s, i, map) ==
    LET key == parse_string(s, skip_ws(s, i))
        colon == skip_ws(s, key.next)
        value == parse_value(s, colon + 1)
        all == (key.value :> value.value) @@ map
        next == skip_ws(s, value.next)
    IN  IF ~key.ok \/ At(s, colon) # ":" \/ ~value.ok THEN Err
        ELSE CASE At(s, next) = "," -> object_rest(s, next + 1, all)
               [] At(s, next) = "}" -> Ok(Obj(all), next + 1)
               [] OTHER -> Err

\* The value of a whole text, or nothing.
parse(s) ==
    LET v == parse_value(s, 1)
    IN  IF v.ok /\ skip_ws(s, v.next) = Len(s) + 1 THEN {v.value} ELSE {}

-----------------------------------------------------------------------------
(* The serializer.                                                         *)

RECURSIVE digits_of(_)
digits_of(n) ==
    IF n < 0 THEN <<"-">> \o digits_of(-n)
    ELSE IF n < 10 THEN <<ToString(n)>>
    ELSE Append(digits_of(n \div 10), ToString(n % 10))

\* Rust prints a float without decimals when it has none, and never with an
\* exponent.
write_float(tenths) ==
    LET size == IF tenths < 0 THEN -tenths ELSE tenths
    IN  (IF tenths < 0 THEN <<"-">> ELSE << >>) \o digits_of(size \div 10)
        \o (IF size % 10 = 0 THEN << >> ELSE <<".", ToString(size % 10)>>)

\* Texts separated by commas.
Commas(texts) ==
    FoldLeft(LAMBDA all, t : IF all = << >> THEN t ELSE all \o <<",">> \o t, << >>, texts)

\* Json::to_string.  The order of the keys of an object is some order.
RECURSIVE to_string(_)
to_string(v) ==
    CASE v.tag = "null" -> <<"null">>
      [] v.tag = "bool" -> IF v.is THEN <<"true">> ELSE <<"false">>
      [] v.tag = "int" -> digits_of(v.n)
      [] v.tag = "float" -> write_float(v.tenths)
      [] v.tag = "inf" -> <<"null">>
      [] v.tag = "str" -> write_escaped(v.text)
      [] v.tag = "arr" ->
            <<"[">> \o Commas([i \in DOMAIN v.items |-> to_string(v.items[i])]) \o <<"]">>
      [] v.tag = "obj" ->
            LET keys == SetToSeq(DOMAIN v.map)
                member(key) == write_escaped(key) \o <<":">> \o to_string(v.map[key])
            IN  <<"{">> \o Commas([i \in DOMAIN keys |-> member(keys[i])]) \o <<"}">>

=============================================================================
