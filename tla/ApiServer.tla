----------------------------- MODULE ApiServer -----------------------------
(***************************************************************************)
(* The process around the ingestion of Ingest: how a start reads its files *)
(* (service/src/main.rs; systemd starts it again when it exits), the       *)
(* accept loop with a thread per connection (api.rs, run), the reading of  *)
(* a request that may arrive in part (http.rs, read_request), routing and  *)
(* authorization (api.rs, handle), and the answer.  The API tokens are     *)
(* generated by units of their own on the first boot                       *)
(* (hosts/collector/collector.nix).                                        *)
(*                                                                         *)
(* A request is its method, its path, the token it carries and, for a      *)
(* push, its body; it is sent in the parts "line", "auth", "length" and    *)
(* "body".  Handlers of other routes are other modules: here they answer.  *)
(***************************************************************************)
EXTENDS Ingest, Configuration, Functions

CONSTANTS
    Configs,      \* the configuration documents of the releases, by name
    Uploads,      \* the contents of the credentials file over time, by name
    PollerOf,     \* [Pollable -> the section of the configuration]
    Request,      \* requests clients send
    MaxConnects   \* bound: connections

ASSUME ServerAssumption ==
    /\ PollerOf \in [Pollable -> {"env", "kasa"}]
    /\ \A r \in Request : r.body \subseteq Body /\ \A b, c \in r.body : b = c
    /\ MaxConnects \in Nat

VARIABLES
    configFile, credentialsFile, \* the names of the documents
    token,    \* per token unit: "none", "writing", "cut" or "whole"
    config,   \* the document this process runs with
    creds,    \* the sections it has credentials for
    conn,     \* per handler: the connection it serves
    connects

startup == <<configFile, credentialsFile, token, config, creds>>
avars == <<vars, startup, conn, connects>>

Parsed == [name \in DOMAIN Configs |-> config_from_json(Configs[name])]

Credentials == [name \in DOMAIN Uploads |-> credentials_from_json(Uploads[name])]

Units == {"api-token", "airwave-token"}

NoConn == [at |-> "none", request |-> {}, parts |-> {}, end |-> "none", status |-> 0]

AInit ==
    /\ Init
    /\ configFile \in DOMAIN Configs
    /\ credentialsFile \in {name \in DOMAIN Uploads : Uploads[name] = Empty}
    /\ token = [u \in Units |-> "none"]
    /\ config = {} /\ creds = {}
    /\ conn = [h \in Handler |-> NoConn]
    /\ connects = 0

-----------------------------------------------------------------------------
(* Start-up.                                                               *)

\* First boot: no token file is there, the script of its unit creates one ...
TokenBegin(u) ==
    /\ token[u] = "none"
    /\ token' = [token EXCEPT ![u] = "writing"]
    /\ UNCHANGED <<vars, configFile, credentialsFile, config, creds, conn, connects>>

\* ... and fills it ...
TokenEnd(u) ==
    /\ token[u] = "writing"
    /\ token' = [token EXCEPT ![u] = "whole"]
    /\ UNCHANGED <<vars, configFile, credentialsFile, config, creds, conn, connects>>

\* ... unless it is stopped before.  The unit never runs again: its
\* ConditionPathExists finds the file.
TokenCut(u) ==
    /\ token[u] = "writing"
    /\ crashes < MaxCrashes
    /\ crashes' = crashes + 1
    /\ token' = [token EXCEPT ![u] = "cut"]
    /\ UNCHANGED <<polled, up, dirs, spools, opened, appended, lock, thread, attempts, ok, errors>>
    /\ UNCHANGED <<configFile, credentialsFile, config, creds, conn, connects>>

\* The operator uploads device credentials.
Upload ==
    /\ credentialsFile' \in DOMAIN Uploads \ {credentialsFile}
    /\ Uploads[credentialsFile'] # Empty
    /\ UNCHANGED <<vars, configFile, token, config, creds, conn, connects>>

FilesGood ==
    /\ Parsed[configFile].ok
    /\ Credentials[credentialsFile].ok
    /\ \A u \in Units : token[u] = "whole"

\* main: the files are read in turn, each unusable one ends the process; the
\* modules the document enables get a spool.
Start ==
    /\ FilesGood
    /\ Open
    /\ config' = {configFile}
    /\ creds' = Credentials[credentialsFile].value
    /\ polled' = {m \in Pollable : Parsed[configFile].value[PollerOf[m]].enable}
    /\ UNCHANGED <<configFile, credentialsFile, token, conn, connects>>

\* ... which starts again; a failing spool directory ends it as well.
StartFails == OpenFails /\ UNCHANGED <<startup, conn, connects>>

StartOn ==
    /\ (\E m \in Module : StartPoller(m)) \/ Serve
    /\ UNCHANGED <<startup, conn, connects>>

\* The process dies, or is stopped for another release.
Stop ==
    /\ Crash
    /\ configFile' \in DOMAIN Configs
    /\ config' = {} /\ creds' = {}
    /\ conn' = [h \in Handler |-> NoConn]
    /\ UNCHANGED <<credentialsFile, token, connects>>

-----------------------------------------------------------------------------
(* Connections.                                                            *)

\* The parts of a request in the order they are sent.
Parts(r) == IF r.body = {} THEN <<"line", "auth">> ELSE <<"line", "auth", "length", "body">>

All(r) == Range(Parts(r))

\* A client connects.  It sends the whole request, or a part and then closes
\* the connection or falls silent, and reads no answer either.
Connect(h, r) ==
    /\ up = "serving"
    /\ connects < MaxConnects
    /\ connects' = connects + 1
    /\ conn[h] = NoConn
    /\ \E n \in 0..Len(Parts(r)) : \E end \in {"reads", "closes", "silent"} :
          /\ end = "reads" => n = Len(Parts(r))
          /\ conn' = [conn EXCEPT ![h] = [at |-> "backlog", request |-> {r}, end |-> end,
                                          parts |-> Range(SubSeq(Parts(r), 1, n)), status |-> 0]]
    /\ UNCHANGED <<vars, startup>>

\* Mutant: connections are served one after the other.
MayAcceptNext(h) == \A g \in Handler : conn[g].at \in {"none", "backlog"}

\* Every connection is served by a thread of its own.
MayAccept(h) == TRUE

Accept(h) ==
    /\ conn[h].at = "backlog"
    /\ MayAccept(h)
    /\ conn' = [conn EXCEPT ![h].at = "read"]
    /\ UNCHANGED <<vars, startup, connects>>

Reply(h, status) == [conn EXCEPT ![h].at = "write", ![h].status = status]

\* Mutant: what has arrived of a body is taken for all of it.
ReadableInPart(parts) == "line" \in parts

\* read_request: an end of the stream ends the headers too, but a declared
\* body must arrive whole.
Readable(parts) == "line" \in parts /\ ("length" \in parts => "body" \in parts)

\* The whole request is there, or the client has closed.
Read(h) ==
    /\ conn[h].at = "read"
    /\ \E r \in conn[h].request : conn[h].parts = All(r) \/ conn[h].end = "closes"
    /\ conn' = IF Readable(conn[h].parts) THEN [conn EXCEPT ![h].at = "handle"] ELSE Reply(h, 400)
    /\ UNCHANGED <<vars, startup, connects>>

\* Nothing comes for fifteen seconds.
ReadTimeout(h) ==
    /\ conn[h].at = "read"
    /\ conn[h].end = "silent" /\ \A r \in conn[h].request : conn[h].parts # All(r)
    /\ conn' = Reply(h, 400)
    /\ UNCHANGED <<vars, startup, connects>>

\* handle and wiim_route: who may use a route.
Routes ==
    [health |-> "anyone", metrics |-> "sensor", devices |-> "sensor", next |-> "sensor",
     ack |-> "sensor", ingest |-> "basic", wiim_devices |-> "airwave", probe |-> "airwave",
     media_server |-> "airwave", upnp |-> "airwave", linkplay |-> "airwave"]

\* authorized_bearer and authorized_basic: no Basic password is right before
\* credentials for the sensors are there.
Authorized(h, gate) ==
    \/ gate = "anyone"
    \/ /\ "auth" \in conn[h].parts
       /\ \E r \in conn[h].request : r.auth = gate
       /\ gate = "basic" => "envSensors" \in creds

\* The answer to a request no handler is run for: no such route, or 401.
Refuse(h) ==
    /\ conn[h].at = "handle"
    /\ \E r \in conn[h].request :
          IF r.route \notin DOMAIN Routes
          THEN conn' = Reply(h, IF r.method \in {"GET", "POST", "PUT"} THEN 404 ELSE 405)
          ELSE ~Authorized(h, Routes[r.route]) /\ conn' = Reply(h, 401)
    /\ UNCHANGED <<vars, startup, connects>>

\* The handler of another route, which runs to its end.
Run(h) ==
    /\ conn[h].at = "handle"
    /\ \E r \in conn[h].request :
          /\ r.route \in DOMAIN Routes \ {"ingest"}
          /\ Authorized(h, Routes[r.route])
    /\ conn' = Reply(h, 200)
    /\ UNCHANGED <<vars, startup, connects>>

\* A push, with its body or, cut before its length, with none: an empty push,
\* which is answered 200 and stores nothing ...
Push(h) ==
    /\ conn[h].at = "handle"
    /\ \E r \in conn[h].request :
          /\ r.route = "ingest"
          /\ Authorized(h, "basic")
          /\ IF "body" \in conn[h].parts
             THEN /\ \E b \in r.body : Begin(h, b)
                  /\ conn' = [conn EXCEPT ![h].at = "ingest"]
             ELSE /\ conn' = Reply(h, 200)
                  /\ UNCHANGED vars
    /\ UNCHANGED <<startup, connects>>

\* ... whose lines are stored, module by module ...
PushOn(h) == Loop(h) /\ UNCHANGED <<startup, conn, connects>>

\* ... and answered.
PushEnd(h) ==
    /\ conn[h].at = "ingest"
    /\ (Answer(h) /\ conn' = Reply(h, 200)) \/ (Error(h) /\ conn' = Reply(h, 500))
    /\ UNCHANGED <<startup, connects>>

\* write_response: a client that is gone makes it fail, one that is silent
\* may hold the thread for good.
Write(h) ==
    /\ conn[h].at = "write"
    /\ conn[h].end # "silent"
    /\ conn' = [conn EXCEPT ![h] = NoConn]
    /\ UNCHANGED <<vars, startup, connects>>

Startup ==
    \/ (\E u \in Units : TokenBegin(u) \/ TokenEnd(u))
    \/ Start \/ StartOn

Serving(h) ==
    \/ Accept(h) \/ Read(h) \/ ReadTimeout(h)
    \/ Refuse(h) \/ Run(h) \/ Push(h) \/ PushOn(h) \/ PushEnd(h) \/ Write(h)

ANext ==
    \/ Startup \/ StartFails \/ Stop \/ Upload \/ (\E u \in Units : TokenCut(u))
    \/ \E h \in Handler : Serving(h) \/ \E r \in Request : Connect(h, r)

ASpec == AInit /\ [][ANext]_avars

\* systemd starts the units and restarts the service; every thread runs, and
\* reads have a timeout.  Nothing makes a silent client read its answer.
AFairSpec == ASpec /\ WF_avars(Startup) /\ \A h \in Handler : WF_avars(Serving(h))

-----------------------------------------------------------------------------
(* Properties.                                                             *)

\* What this process runs with, and where a connection stands: it serves one
\* request, one that could be read when it is handled or answered 200, has a
\* body under way while it ingests one, and only then, and ends with the process.
ConnectionsAreSound ==
    /\ configFile \in DOMAIN Configs /\ config \subseteq DOMAIN Configs
    /\ \A name \in config : Parsed[name].ok
    /\ conn \in [Handler -> [at : {"none", "backlog", "read", "handle", "ingest", "write"},
                             request : SUBSET Request,
                             parts : SUBSET {"line", "auth", "length", "body"},
                             end : {"none", "reads", "closes", "silent"},
                             status : {0, 200, 400, 401, 404, 405, 500}]]
    /\ connects \in 0..MaxConnects
    /\ \A h \in Handler :
          /\ thread[h].at # "free" <=> conn[h].at = "ingest"
          /\ conn[h].at \in {"handle", "ingest"} \/ conn[h].status = 200 => Readable(conn[h].parts)
          /\ conn[h].at # "none" => \E r \in Request : conn[h].request = {r}
          /\ up # "serving" => conn[h] = NoConn

\* What has arrived of a request carries the token its route asks for.
Entitled(c, r) ==
    /\ r.route \in DOMAIN Routes
    /\ Routes[r.route] = "anyone" \/ ("auth" \in c.parts /\ r.auth = Routes[r.route])

\* The lines a handler stores are the whole body of a push with the right
\* password, in a process that has read that password.
PushIsWhole(h) ==
    thread[h].at # "free" =>
        /\ "body" \in conn[h].parts /\ "envSensors" \in creds
        /\ \E r \in conn[h].request :
              r.route = "ingest" /\ Entitled(conn[h], r) /\ thread[h].body = r.body

\* A 200 is an answer to a request of a route there is, with the token of that
\* route; a push it answers is stored in every module, or arrived without body.
AnswerIsEarned(h) ==
    conn[h].status = 200 =>
        \E r \in conn[h].request :
            /\ Entitled(conn[h], r)
            /\ r.route = "ingest" =>
                  /\ "envSensors" \in creds
                  /\ IF "body" \in conn[h].parts THEN r.body \subseteq ok
                     ELSE "length" \notin conn[h].parts

\* However a request arrives, in part or whole, with or without its token:
\* only the whole body of an authorized push is stored (PushIsWhole), and only
\* what was authorized and, if it is a push with a body, stored is answered 200
\* (AnswerIsEarned).  A push whose stream ends before its length is an empty
\* one to read_request (http.rs): it stores nothing and is answered 200.  A
\* poller never waits zero seconds.  The last part makes it inductive.
WholePushes ==
    /\ \A h \in Handler : PushIsWhole(h) /\ AnswerIsEarned(h)
    /\ \A name \in config : \A m \in polled :
          Parsed[name].value[PollerOf[m]].poll_interval_seconds >= 1
    /\ ConnectionsAreSound

\* "one thread per connection" (api.rs, run): a client that waits for its
\* answer gets one, or the process ends, whatever silent clients do with the
\* other connections and whoever holds the mutex of the spools.
RequestsAnswered ==
    \A h \in Handler : conn[h].end = "reads" ~> conn[h] = NoConn

\* "Empty or {} mean no credentials yet" and "malformed values fail startup"
\* (config.rs): the service is up before credentials are uploaded, and once
\* what the operator uploads and what is deployed can be read for good, it is
\* up for good.  A token unit that is stopped in the middle of the first boot
\* is the exception: its piece of a token is never replaced.
ServesOnceFilesAreGood ==
    <>[](/\ Parsed[configFile].ok
         /\ Uploads[credentialsFile].kind # "garbage"
         /\ \A u \in Units : token[u] # "cut")
        => <>[](up = "serving")

=============================================================================
