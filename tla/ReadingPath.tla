----------------------------- MODULE ReadingPath -----------------------------
(***************************************************************************)
(* The path of a reading from the device to the line that goes into the    *)
(* spool.  A behaviour follows one source: the plug at one address, whose  *)
(* readings take a KLAP session (KlapSession), an environment sensor, or   *)
(* pushed lines; they share nothing.  What a device means is given beside  *)
(* the text it sends, so that the line can be compared with it.            *)
(***************************************************************************)
EXTENDS KlapSession, Envelope

CONSTANTS
    Nicknames,   \* names a plug may have: sequences of bytes
    SensorDocs,  \* answers to GET /sensors: [text, values, stamp]
    Replies,     \* discovery replies of a sensor: [text, block]
    Pushes,      \* pushed lines: [text, block, values, stamp]
    Now          \* the server clock

VARIABLES
    source,  \* what this behaviour follows
    device,  \* the sensor's discovery reply, when it is one
    said     \* the line built of a sensor's answer or a push, with what it should say

vars == <<sessionVars, source, device, said>>

Ip == "ip"

\* A nickname goes out in base64, inside an object ...
NicknameText(bytes) ==
    <<"{", Quote, "result", Quote, ":", "{", Quote, "nickname", Quote, ":", Quote>>
    \o base64_encode(bytes) \o <<Quote, "}", "}">>

\* ... and is base64 of UTF-8; an empty one is none.
decode_nickname(info) ==
    {[i \in DOMAIN bytes |-> Ascii[bytes[i]]] :
        bytes \in {b \in UNION {base64_decode(t) : t \in text_of(result_of(info), <<"nickname">>)} :
                      b # << >> /\ Range(b) \subseteq DOMAIN Ascii}}

nicknames(text) == UNION {decode_nickname(doc) : doc \in {d \in parse(text) : no_error(d)}}

\* Enough seeds for those that are in use, and what the parameters of the
\* session say of a text.
ASSUME PathAssumption ==
    /\ Cardinality(Seeds) > 2 * Cardinality(Holders) + 1
    /\ Now \in 0..MaxInt
    /\ NameTexts = {NicknameText(bytes) : bytes \in Nicknames}
    /\ \A text \in NameTexts \cup {doc.text : doc \in EnergyDocs} :
          named(text) = nicknames(text) /\ measured(text) = power_values(text)

\* A line for the spool, with what it should say.
Line(text, module, block, values, stamp) ==
    [text |-> text, module |-> module, device |-> block, values |-> values, stamp |-> stamp]

Init ==
    /\ SessionInit
    /\ source \in {"plug", "sensor", "push"}
    /\ device = << >>
    /\ said = {}

-----------------------------------------------------------------------------
(* Readings.                                                               *)

\* A tick of the plug's poller, or what happens to the plug.
Plug ==
    /\ source = "plug"
    /\ SessionNext
    /\ UNCHANGED <<source, device, said>>

\* discover of sensors.rs: a reply with a deviceId makes an identity.
DiscoverSensor ==
    /\ source = "sensor" /\ said = {}
    /\ \E reply \in Replies :
          device' = IF parse_discovery_reply(reply.text, Ip) = {} THEN << >> ELSE reply
    /\ UNCHANGED <<sessionVars, source, said>>

\* poll of sensors.rs: one request, one answer, one line at most.
PollSensor ==
    /\ source = "sensor" /\ device # << >> /\ said = {}
    /\ \E doc \in SensorDocs, status \in {200, 401}, declared \in BOOLEAN :
          LET answer == Answer(status, << >>, Chars(doc.text), declared)
              block == CHOOSE b \in parse_discovery_reply(device.text, Ip) : TRUE
          IN  \E received \in {answer} \cup Cuts(answer) :
                said' = {Line(text, <<"envSensors">>, device.block, doc.values, doc.stamp) :
                           text \in poll_sensor(received, block, Now)}
    /\ UNCHANGED <<sessionVars, source, device>>

\* One line of a body of POST /ingest.
Push ==
    /\ source = "push" /\ said = {}
    /\ \E p \in Pushes :
          said' = {Line(r.text, r.module, p.block, p.values, p.stamp) :
                     r \in normalize_pushed(p.text, Now)}
    /\ UNCHANGED <<sessionVars, source, device>>

\* The line of a sensor or of a push goes to the spool.
AppendSaid ==
    /\ said # {}
    /\ said' = {}
    /\ UNCHANGED <<sessionVars, source, device>>

Next == Plug \/ DiscoverSensor \/ PollSensor \/ Push \/ AppendSaid

Spec == Init /\ [][Next]_vars

\* Every request has a timeout, and the thread goes on: fairness of Tick, which
\* is always enabled for a plug, and whose steps are all but Takeover's.
Goes == takeovers' = takeovers

FairSpec == Spec /\ (source = "plug" => []<><<Goes>>_vars)

-----------------------------------------------------------------------------
(* Properties.                                                             *)

\* What is left of a value when it was printed: a float without decimals is an
\* integer, and what is too large for a float is nothing.
RECURSIVE Printed(_)
Printed(v) ==
    CASE v.tag = "float" /\ v.tenths % 10 = 0 /\ v.tenths \div 10 \in -MaxInt..MaxInt ->
            Integer(v.tenths \div 10)
      [] v.tag = "inf" -> Null
      [] v.tag = "arr" -> Arr([i \in DOMAIN v.items |-> Printed(v.items[i])])
      [] v.tag = "obj" -> Obj([key \in DOMAIN v.map |-> Printed(v.map[key])])
      [] OTHER -> v

\* The line that is built of what the plug measured.
power_line(l) ==
    LET block == device_block(Ip, l.name, {}, {}, {})
    IN  {Line(text, <<"kasa">>, block, l.meant, Now) :
            text \in build_power_reading(l.values, block, Now)}

\* "device identity, timestampNs, and values carrying the device's payload
\* verbatim", "one JSON object per line" (envelope.rs): a line is never built of
\* a part of an answer, is one line, and says to its reader what the device
\* meant, numbers as they are printed.
LinesAreTrue ==
    \A l \in said \cup UNION {power_line(measurement) : measurement \in line} :
        /\ Newline \notin Range(l.text)
        /\ \E v \in parse(l.text) :
              /\ get(v, <<"module">>) = Str(l.module)
              /\ get(v, <<"values">>) = Printed(l.values)
              /\ get(v, <<"device">>) = (IF l.device = << >> THEN Null ELSE Obj(l.device))
              /\ get(v, <<"timestampNs">>) = Integer(l.stamp)

\* A name that was learned is one the plug has, whatever was cut on the way.
NamesAreTrue == name \subseteq {[i \in DOMAIN bytes |-> Ascii[bytes[i]]] : bytes \in Nicknames}

\* What holds of whatever is built out of an answer, and of the session it came
\* by; a measurement always makes a line.
ReadingInv ==
    /\ SessionInv
    /\ source # "plug" => stage = "sleep"
    /\ device \in {<< >>} \cup Replies
    /\ \A measurement \in line : power_line(measurement) # {}
    /\ LinesAreTrue
    /\ NamesAreTrue

\* A plug of the account that keeps the address is read again and again, however
\* its sessions end and whatever numbers it accepts.
KeepsReading ==
    (source = "plug" /\ <>[](holder \in Ours)) => []<>(stage = "append")

=============================================================================
