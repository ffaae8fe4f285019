---------------------------- MODULE MCApiServer ----------------------------
(* One body with lines of both modules; a configuration that asks for a   *)
(* poll every zero seconds, and one that has no kasa; a push, one with    *)
(* the token of another route, and a request of anyone.                    *)
EXTENDS ApiServer, TLC

CONSTANTS h1, h2, mixed, single

MCGroups == [b \in Body |-> IF b = mixed THEN Module ELSE {Max(Module)}]

Number(n) == Integer(n)
Address == Str(<<"192.168.65.3">>)
MCIpv4 == {<<"192.168.65.3">>}
MCCidr == {<<"192.168.65.0/24">>}

MCPoller(interval) ==
    [k \in {<<"enable">>, <<"discoveryPort">>, <<"discoveryBindPort">>, <<"devicePort">>,
            <<"pollIntervalSeconds">>, <<"discoveryIntervalHours">>} |->
        CASE k = <<"enable">> -> Bool(interval < 4)
          [] k = <<"pollIntervalSeconds">> -> Number(interval)
          [] OTHER -> Number(4)]

MCWiimSection ==
    [k \in {<<"enable">>, <<"ssdpPort">>, <<"discoveryBindPort">>, <<"responseWindowSeconds">>,
            <<"discoveryIntervalSeconds">>, <<"stateFile">>, <<"mediaServerIp">>,
            <<"mediaServerPort">>} |->
        CASE k = <<"enable">> -> Bool(TRUE)
          [] k = <<"stateFile">> -> Str(<<"/var/lib">>)
          [] k = <<"mediaServerIp">> -> Address
          [] OTHER -> Number(4)]

MCSpoolSection == [k \in {<<"dir">>, <<"maxBytes">>, <<"segmentBytes">>} |->
                     IF k = <<"dir">> THEN Str(<<"/var/lib">>) ELSE Number(4)]

MCDocument(env, kasa) ==
    Document(Obj([k \in {<<"bindAddress">>, <<"homeCidr">>, <<"homeBroadcast">>, <<"apiPort">>,
                         <<"wiim">>, <<"envSensors">>, <<"kasa">>, <<"spool">>} |->
        CASE k = <<"homeCidr">> -> Str(<<"192.168.65.0/24">>)
          [] k = <<"apiPort">> -> Number(4)
          [] k = <<"wiim">> -> Obj(MCWiimSection)
          [] k = <<"envSensors">> -> Obj(env)
          [] k = <<"kasa">> -> Obj(kasa)
          [] k = <<"spool">> -> Obj(MCSpoolSection)
          [] OTHER -> Address]))

MCConfigs == [good |-> MCDocument(MCPoller(0), MCPoller(4)),
              broken |-> MCDocument(MCPoller(2), [k \in {} |-> k])]

MCLogin == Obj(<<"username">> :> Str(<<"admin">>) @@ <<"password">> :> Str(<<"s3cret">>))

MCUploads == [none |-> Empty, torn |-> Garbage,
              sensors |-> Document(Obj(<<"envSensors">> :> MCLogin))]

MCPollerOf == [m \in Pollable |-> "env"]

MCRequest ==
    {[method |-> "POST", route |-> "ingest", auth |-> "basic", body |-> {b}] : b \in Body}
    \cup {[method |-> "GET", route |-> "health", auth |-> "none", body |-> {}],
          [method |-> "POST", route |-> "ingest", auth |-> "sensor", body |-> {}]}
=============================================================================
