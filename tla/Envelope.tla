------------------------------ MODULE Envelope ------------------------------
(***************************************************************************)
(* What becomes of an answer or a pushed line on its way to the spool: the *)
(* envelope (service/src/envelope.rs), and the readings the two pollers    *)
(* build (kasa.rs, sensors.rs).  An optional result is a set with at most  *)
(* one member.                                                             *)
(***************************************************************************)
EXTENDS JsonText, HttpAnswer

CONSTANTS
    MaxPushedBytes, \* in symbols
    Million         \* nanoseconds per millisecond, in the numbers of the instances

ASSUME EnvelopeAssumption == {MaxPushedBytes, Million} \subseteq Nat \ {0}

\* A text as the body of an answer, and String::from_utf8 of a body.
Chars(text) == [i \in DOMAIN text |-> <<"char", text[i]>>]
utf8(body) ==
    IF \A i \in DOMAIN body : body[i][1] = "char" THEN {[i \in DOMAIN body |-> body[i][2]]} ELSE {}

-----------------------------------------------------------------------------
(* Envelopes.                                                              *)

Field(key, value) == <<key>> :> value

IsObject(v) == v.tag = "obj" /\ v.map # << >>

\* Reading with values; a device is the map of its identity block.
reading(module, device, timestamp, values) ==
    IF ~IsObject(values) THEN {}
    ELSE {to_string(Obj(Field("module", Str(module)) @@ Field("device", Obj(device))
                        @@ Field("timestampNs", Integer(timestamp)) @@ Field("values", values)))}

\* envelope::device: ip always, the rest as discovered.
device_block(ip, name, model, id, tags) ==
    LET optional(key, text) == IF text = {} THEN << >> ELSE Field(key, Str(CHOOSE t \in text : TRUE))
        kept == {tag \in tags : tag[1] # << >> /\ tag[2] # << >>}
        map == [key \in {tag[1] : tag \in kept} |->
                    Str((CHOOSE tag \in kept : tag[1] = key)[2])]
    IN  Field("ip", Str(<<ip>>)) @@ optional("name", name) @@ optional("model", model)
        @@ optional("deviceId", id)
        @@ (IF kept = {} THEN << >> ELSE Field("tags", Obj(map)))

ModuleSymbols == {"envSensors", "kasa", "radio"}

valid_module(name) == name # << >> /\ Len(name) <= 32 /\ Range(name) \subseteq ModuleSymbols

\* A pushed line: the module it is for and its normalized form, or nothing.
normalize_pushed(line, now) ==
    LET stamped(v) == Field("timestampNs", Integer(now))
        module(v) == get(v, <<"module">>)
        stamp(v) == <<"timestampNs">> \in DOMAIN v.map
        valid(v) ==
            /\ v.tag = "obj"
            /\ module(v).tag = "str" /\ valid_module(module(v).text)
            /\ IsObject(get(v, <<"values">>))
            /\ stamp(v) => get(v, <<"timestampNs">>).tag = "int"
    IN  IF Len(line) > MaxPushedBytes THEN {}
        ELSE {[module |-> module(v).text, text |-> to_string(Obj(v.map @@ stamped(v)))] :
                 v \in {w \in parse(line) : valid(w)}}

-----------------------------------------------------------------------------
(* The pollers' readings.                                                  *)

\* A member that is a string, if there is one.
text_of(v, key) == IF get(v, key).tag = "str" THEN {get(v, key).text} ELSE {}

\* The string values of a map, as tags.
string_members(v) == {<<key, v.map[key].text>> : key \in {k \in DOMAIN v.map : v.map[k].tag = "str"}}

\* A string "k=v", split at the first "=".
split_tag(text) ==
    LET sign == Past(text, 1, Range(text) \ {"="})
        tag == <<SubSeq(text, 1, sign - 1), SubSeq(text, sign + 1, Len(text))>>
    IN  IF << >> \in {tag[1], tag[2]} THEN {} ELSE {tag}

\* Tags are a map, or a list of maps and of strings; anything else is dropped.
parse_device_tags(node) ==
    CASE node.tag = "obj" -> string_members(node)
      [] node.tag = "arr" ->
            UNION {CASE item.tag = "str" -> split_tag(item.text)
                     [] item.tag = "obj" -> string_members(item)
                     [] OTHER -> {} : item \in Range(node.items)}
      [] OTHER -> {}

\* The identity block of a sensor, from its discovery reply.
parse_discovery_reply(payload, ip) ==
    {device_block(ip, text_of(doc, <<"deviceId">>), text_of(doc, <<"model">>),
                  text_of(doc, <<"deviceId">>), parse_device_tags(get(doc, <<"m5_tags">>))) :
        doc \in {d \in parse(payload) : text_of(d, <<"deviceId">>) \notin {{}, {<< >>}}}}

READING_KEYS == {"temperature", "humidity", "pressure"}
ENERGY_KEYS == {"current_power", "voltage_mv"}

\* The arithmetic of i64: casting a float saturates, subtracting wraps.
Saturate(n) == Max({-MaxInt - 1, Min({MaxInt, n})})
Wrap(n) == ((n + MaxInt + 1) % (2 * (MaxInt + 1))) - MaxInt - 1

\* (v * 1e6) as i64.
nanos(v) ==
    CASE v.tag = "int" -> Saturate(v.n * Million)
      [] v.tag = "float" ->
            LET scaled == v.tenths * Million
            IN  Saturate(IF scaled < 0 THEN -(-scaled \div 10) ELSE scaled \div 10)
      [] v.tag = "inf" -> MaxInt

\* By the age of the sample, else by the device's clock, else the server's.
corrected(doc, now) ==
    IF IsNumber(get(doc, <<"sample_age_ms">>)) THEN Wrap(now - nanos(get(doc, <<"sample_age_ms">>)))
    ELSE IF IsNumber(get(doc, <<"timestamp_ms">>)) THEN nanos(get(doc, <<"timestamp_ms">>)) ELSE now

build_environment_reading(body, device, now) ==
    UNION {reading(<<"envSensors">>, device, corrected(doc, now), doc) :
              doc \in {d \in parse(body) :
                          \E key \in READING_KEYS : IsNumber(get(d, <<key>>))}}

\* The result object of get_energy_usage, or the whole answer without one.
result_of(doc) ==
    IF doc.tag = "obj" /\ <<"result">> \in DOMAIN doc.map THEN get(doc, <<"result">>) ELSE doc

\* An answer without an error code, or with code zero.
no_error(doc) == get(doc, <<"error_code">>).tag # "int" \/ get(doc, <<"error_code">>).n = 0

\* The values a decrypted answer to get_energy_usage measures, if it does.
power_values(text) ==
    {result_of(doc) :
        doc \in {d \in parse(text) :
                    no_error(d) /\ \E key \in ENERGY_KEYS : IsNumber(get(result_of(d), <<key>>))}}

build_power_reading(values, device, now) == reading(<<"kasa">>, device, now, values)

\* fetch_sensors and poll: a status other than 200 is no reading.
poll_sensor(received, device, now) ==
    UNION {build_environment_reading(text, device, now) :
              text \in UNION {utf8(r.body) : r \in {a \in request(received) : a.status = 200}}}

=============================================================================
