--------------------------- MODULE Configuration ---------------------------
(***************************************************************************)
(* What a start of the service makes of its files                          *)
(* (service/src/config.rs): the configuration document that Nix renders,   *)
(* and the credentials file the operator uploads, which is empty until     *)
(* then.  Both are JSON (JsonValue); a file is its text's value, or says   *)
(* that the text is empty or does not parse.                               *)
(***************************************************************************)
EXTENDS JsonValue, Integers, Sequences, FiniteSetsExt

CONSTANTS
    Ipv4,     \* texts that are an IPv4 address
    Ipv4Cidr, \* texts that Ipv4Cidr::parse takes
    MaxPort   \* u16::MAX

Empty == [kind |-> "empty"]
Garbage == [kind |-> "garbage"]
Document(v) == [kind |-> "document", value |-> v]

\* req: a value of a section, or of the document itself.
req(doc, section, key) == get(IF section = "" THEN doc ELSE get(doc, <<section>>), <<key>>)

\* req_str, req_ip, req_port, req_u64, req_bool and Ipv4Cidr::parse.
Is(kind, v) ==
    CASE kind = "str" -> v.tag = "str"
      [] kind = "ip" -> v.tag = "str" /\ v.text \in Ipv4
      [] kind = "cidr" -> v.tag = "str" /\ v.text \in Ipv4Cidr
      [] kind = "port" -> v.tag = "int" /\ v.n \in 0..MaxPort
      [] kind = "u64" -> v.tag = "int" /\ v.n \in Nat
      [] kind = "bool" -> v.tag = "bool"

PollerFields(section) ==
    {<<section, "enable", "bool">>, <<section, "discoveryPort", "port">>,
     <<section, "discoveryBindPort", "port">>, <<section, "devicePort", "port">>,
     <<section, "pollIntervalSeconds", "u64">>, <<section, "discoveryIntervalHours", "u64">>}

Fields ==
    {<<"", "bindAddress", "ip">>, <<"", "homeCidr", "cidr">>,
     <<"", "homeBroadcast", "ip">>, <<"", "apiPort", "port">>,
     <<"wiim", "enable", "bool">>, <<"wiim", "ssdpPort", "port">>,
     <<"wiim", "discoveryBindPort", "port">>, <<"wiim", "responseWindowSeconds", "u64">>,
     <<"wiim", "discoveryIntervalSeconds", "u64">>, <<"wiim", "stateFile", "str">>,
     <<"wiim", "mediaServerIp", "ip">>, <<"wiim", "mediaServerPort", "port">>,
     <<"spool", "dir", "str">>, <<"spool", "maxBytes", "u64">>,
     <<"spool", "segmentBytes", "u64">>}
    \cup PollerFields("envSensors") \cup PollerFields("kasa")

\* staticDevices may be missing; what is there must be a list of addresses.
StaticDevices(doc, section) ==
    IF <<"staticDevices">> \in DOMAIN get(doc, <<section>>).map
    THEN req(doc, section, "staticDevices") ELSE Arr(<< >>)

AreAddresses(v) == v.tag = "arr" /\ \A i \in DOMAIN v.items : Is("ip", v.items[i])

\* What the pollers get: no interval is zero, however small the document's.
poller(doc, section) ==
    [enable |-> req(doc, section, "enable").is,
     poll_interval_seconds |-> Max({1, req(doc, section, "pollIntervalSeconds").n}),
     discovery_interval_hours |-> Max({1, req(doc, section, "discoveryIntervalHours").n}),
     static_devices |-> Len(StaticDevices(doc, section).items)]

wiim(doc) ==
    [enable |-> req(doc, "wiim", "enable").is,
     response_window_seconds |-> Max({1, Min({10, req(doc, "wiim", "responseWindowSeconds").n})}),
     discovery_interval_seconds |-> Max({5, req(doc, "wiim", "discoveryIntervalSeconds").n})]

\* Config::from_json: every field is there and of its kind, or nothing runs.
config_from_json(file) ==
    IF /\ file.kind = "document"
       /\ \A f \in Fields : Is(f[3], req(file.value, f[1], f[2]))
       /\ \A s \in {"envSensors", "kasa"} : AreAddresses(StaticDevices(file.value, s))
    THEN Ok([env |-> poller(file.value, "envSensors"), kasa |-> poller(file.value, "kasa"),
             wiim |-> wiim(file.value)], 0)
    ELSE Err

\* One section of the credentials: absent, whole, or an error.
Absent(doc, section) == get(doc, <<section>>) = Null

Given(doc, section) ==
    \A key \in {"username", "password"} :
        req(doc, section, key).tag = "str" /\ req(doc, section, key).text # << >>

\* Mutant: a file that is still empty is an error.
credentials_required(file) ==
    IF /\ file.kind = "document"
       /\ \A s \in {"envSensors", "kasa"} : Absent(file.value, s) \/ Given(file.value, s)
    THEN Ok({s \in {"envSensors", "kasa"} : ~Absent(file.value, s)}, 0) ELSE Err

\* Credentials::from_json: the sections that have credentials.
credentials_from_json(file) ==
    IF file.kind = "empty" THEN Ok({}, 0)
    ELSE IF /\ file.kind = "document"
            /\ \A s \in {"envSensors", "kasa"} : Absent(file.value, s) \/ Given(file.value, s)
    THEN Ok({s \in {"envSensors", "kasa"} : ~Absent(file.value, s)}, 0) ELSE Err
=============================================================================
