---------------------------- MODULE MCReadingPath ----------------------------
(* Two plugs, one of the account, a sensor and a pusher, and what they say.  *)
EXTENDS ReadingPath

CONSTANTS mine, theirs

\* A key and its colon, a string, an object of members.
K(key) == <<Quote, key, Quote, ":">>
S(text) == <<Quote>> \o text \o <<Quote>>
O(members) == <<"{">> \o Commas(members) \o <<"}">>

\* Laid out over lines, so that a block ends in newlines; a float without
\* decimals; an escaped newline and a pair of escapes in a string.
Pretty ==
    [text |-> <<"{", "\n", "\n", "\n">> \o K("error_code") \o <<"0", ",">> \o K("result")
              \o O(<<K("current_power") \o <<"1", "5", ".", "0">>,
                     <<"\n", "\n">> \o K("x") \o S(<<Slash, "n", Slash, "u", High, Slash, "u", Low>>)>>)
              \o <<"}", "\n">>,
     values |-> Obj(Field("current_power", Float(150)) @@ Field("x", Str(<<"\n", Pair>>))),
     good |-> TRUE]

\* No result object, a number beyond i64, one beyond f64, and a key twice.
Bare ==
    [text |-> O(<<K("voltage_mv") \o <<"3">>, K("voltage_mv") \o <<"9", "9", "9">>,
                  K("x") \o <<"1", "e", "9">>, K("y") \o <<"[", "-", "2", ",", "true", "]">>>>),
     values |-> Obj(Field("voltage_mv", Float(9990)) @@ Field("x", Inf)
                    @@ Field("y", Arr(<<Integer(-2), Bool(TRUE)>>))),
     good |-> TRUE]

Useless(text) == [text |-> text, values |-> Null, good |-> FALSE]

MCEnergyDocs ==
    {Pretty, Bare,
     Useless(O(<<K("error_code") \o <<"-", "1">>>>)),
     Useless(O(<<K("result") \o O(<<K("x") \o <<"1">>>>)>>)),
     Useless(O(<<K("current_power") \o <<"1">>>>) \o <<"1">>)}

\* "A", a newline, a quote: one, two and three bytes.
MCNicknames == {<<65>>, <<65, 10>>, <<34, 65, 10>>}

MCNameTexts == {NicknameText(bytes) : bytes \in MCNicknames}

MCReplies ==
    {[text |-> O(<<K("deviceId") \o S(<<"s1">>), K("m5_tags") \o <<"[">>
                   \o Commas(<<S(<<"room", "=", "lab">>), S(<<"bad">>), O(<<K("floor") \o S(<<"2">>)>>)>>)
                   \o <<"]">>>>),
      block |-> Field("ip", Str(<<Ip>>)) @@ Field("name", Str(<<"s1">>)) @@ Field("deviceId", Str(<<"s1">>))
                @@ Field("tags", Obj(Field("room", Str(<<"lab">>)) @@ Field("floor", Str(<<"2">>))))],
     [text |-> O(<<K("deviceId") \o S(<< >>)>>), block |-> << >>]}

Sensed(members, values, stamp) ==
    [text |-> O(members), values |-> Obj(Field("humidity", Float(455)) @@ values), stamp |-> stamp]

\* With the age of the sample, the device's clock, or neither; the age may be
\* negative, or too large to subtract.
MCSensorDocs ==
    LET humidity == K("humidity") \o <<"4", "5", ".", "5">>
    IN  {Sensed(<<humidity, K("sample_age_ms") \o <<"2", ".", "5">>, K("timestamp_ms") \o <<"7">>>>,
                Field("sample_age_ms", Float(25)) @@ Field("timestamp_ms", Integer(7)), Now - 5),
         Sensed(<<humidity, K("sample_age_ms") \o <<"1", "e", "9">>>>,
                Field("sample_age_ms", Inf), Now - MaxInt),
         Sensed(<<K("timestamp_ms") \o <<"7">>, humidity>>, Field("timestamp_ms", Integer(7)), 14),
         Sensed(<<humidity, K("timestamp_ms") \o S(<<"7">>)>>, Field("timestamp_ms", Str(<<"7">>)), Now)}

MCPushes ==
    LET values == K("values") \o O(<<K("x") \o <<"1">>>>)
        block == K("device") \o O(<<K("ip") \o S(<<"a">>)>>)
        pushed(members, map, stamp) ==
            [text |-> O(members), block |-> map, values |-> Obj(Field("x", Integer(1))), stamp |-> stamp]
    IN  {pushed(<<K("module") \o S(<<"radio">>), values, block>>, Field("ip", Str(<<"a">>)), Now),
         pushed(<<K("module") \o S(<<"radio">>), values, K("timestampNs") \o <<"5">>>>, << >>, 5),
         pushed(<<K("module") \o S(<<"radio">>), values, K("timestampNs") \o <<"5", ".", "0">>>>, << >>, 5),
         pushed(<<K("module") \o S(<<"..", "radio">>), values>>, << >>, Now),
         pushed(<<values>>, << >>, Now)}
=============================================================================
