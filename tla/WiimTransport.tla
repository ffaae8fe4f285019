--------------------------- MODULE WiimTransport ---------------------------
(***************************************************************************)
(* Where the inventory of WiimInventory comes from and what it is used for *)
(* (service/src/wiim.rs): the discovery thread collects the LOCATIONs that *)
(* renderers answer its search with and fetches each description; a probe  *)
(* tries candidate ports of one address; and the proxy of Airwave's UPnP   *)
(* and LinkPlay commands (WiimTransport) sends each to the address and the *)
(* path the registry holds for the id it is for.  Renderers get other      *)
(* addresses meanwhile, and the file may be from a site with another CIDR. *)
(*                                                                         *)
(* An address is a number of AddressBits bits.  A description is what the  *)
(* decisions look at: where it is served, what type it declares, and its   *)
(* control URLs, relative or absolute.  Any host of the IoT LAN may answer *)
(* a search, and with any LOCATION: its own, another's, an old one or one  *)
(* outside the CIDR.                                                       *)
(***************************************************************************)
EXTENDS WiimInventory, FiniteSetsExt

CONSTANTS
    AddressBits, Network, Prefix, \* the IoT CIDR: Network/Prefix
    Home,        \* [Device -> addresses it may have]
    Description, \* [Device -> what it serves]
    Claims,      \* LOCATIONs replies may carry that are not the sender's own
    ProbePorts,  \* PROBE_PORTS
    MaxBody,     \* MAX_BODY
    MaxMoves     \* bound: renderers that get another address

VARIABLES
    home,      \* where each renderer is
    locations, \* LOCATIONs the scan under way has still to fetch
    found,     \* what it has fetched
    call,      \* per handler: ports to try, or the proxied request and its answer
    moved,     \* history: renderers an entry may be out of date for
    moves

network == <<home, moved, moves>>
tvars == <<vars, locations, found, call, network>>

\* Ipv4Cidr: only the leading bits count.
contains(ip) == ip \div 2^(AddressBits - Prefix) = Network \div 2^(AddressBits - Prefix)

Url(scheme, ip, port, path) == [scheme |-> scheme, ip |-> ip, port |-> port, path |-> path]

None == Url("none", 0, 0, "none")

\* A control URL that is only a path.
Relative(path) == Url("none", 0, 0, path)

\* validated_location.
valid_location(url) == url.scheme = "http" /\ contains(url.ip)

\* Url::join: a path is one on the location's endpoint, an absolute URL stays
\* what it is.
joined(location, control) ==
    IF control.scheme = "none"
    THEN Url(location.scheme, location.ip, location.port, control.path)
    ELSE Url(control.scheme, control.ip, control.port, control.path)

\* Mutant: only the port is compared.
valid_control_port(location, control) == joined(location, control).port = location.port

\* validated_control_path: the control URL, joined to the location, stays on
\* its scheme, host and port.
valid_control(location, control) ==
    LET resolved == joined(location, control) IN
    /\ resolved.scheme = "http"
    /\ resolved.ip = location.ip
    /\ resolved.port = location.port

services(description) ==
    [s \in DOMAIN description.controls |-> description.controls[s].path]

\* parse_description: the facts, or nothing.
parse_description(d, location) ==
    LET description == Description[d] IN
    IF /\ description.type = "MediaRenderer"
       /\ \A s \in DOMAIN description.controls :
             valid_control(location, description.controls[s])
       /\ DOMAIN description.controls \cap {"AVTransport", "RenderingControl"} # {}
    THEN [id \in {d} |-> [ip |-> location.ip, port |-> location.port,
                          services |-> services(description)]]
    ELSE Nothing

\* What a renderer answers a search with, at the address it has.
Location(d) == Url(Description[d].scheme, home[d], Description[d].port, Description[d].path)

\* The renderers that serve their description at a URL.
At(url) == {d \in Device :
    Url("http", home[d], Description[d].port, Description[d].path) = url}

\* fetch_description: no request can leave the CIDR, some get no answer.
fetch_description(url) ==
    {Nothing} \cup {parse_description(d, url) : d \in IF valid_location(url) THEN At(url) ELSE {}}

\* What a renderer advertises at an address.
Advertised(d, ip) ==
    [ip |-> ip, port |-> Description[d].port, services |-> services(Description[d])]

\* The control URL a renderer means by its description at an address.
ControlUrl(d, ip, s) ==
    joined(Url("http", ip, Description[d].port, Description[d].path), Description[d].controls[s])

\* Its control URLs are all on the endpoint of its description.
FitsTogether(d, ip) ==
    \A s \in DOMAIN Description[d].controls :
        ControlUrl(d, ip, s) = Url("http", ip, Description[d].port, Description[d].controls[s].path)

\* What is on file was saved from descriptions, somewhere.
ASSUME TransportAssumption ==
    /\ MaxBody \in Nat /\ MaxMoves \in Nat
    /\ \A d \in Device : \A ip \in Home[d] : Advertised(d, ip) \in Facts
    /\ \A list \in OnFile : \A d \in DOMAIN list :
          list[d] = Advertised(d, list[d].ip) /\ FitsTogether(d, list[d].ip)

NoCall == [ports |-> {}, id |-> {}, service |-> "none", url |-> None, body |-> 0, reply |-> 0]

TInit ==
    /\ Init
    /\ home \in {where \in [Device -> UNION {Home[d] : d \in Device}] :
                   /\ \A d \in Device : where[d] \in Home[d]
                   /\ \A d, e \in Device : d # e => where[d] # where[e]}
    /\ locations = {}
    /\ found = Nothing
    /\ call = [h \in Handler |-> NoCall]
    /\ moved = {d \in DOMAIN file.list : file.list[d].ip # home[d]}
    /\ moves = 0

\* DHCP gives a renderer another address.
Move(d) ==
    /\ moves < MaxMoves
    /\ \E ip \in Home[d] \ {home[e] : e \in Device} : home' = [home EXCEPT ![d] = ip]
    /\ moved' = moved \cup {d}
    /\ moves' = moves + 1
    /\ UNCHANGED <<vars, locations, found, call>>

-----------------------------------------------------------------------------
(* discover().                                                             *)

\* renderer_location of every reply that arrives from inside the CIDR while
\* the window is open: a renderer's own, or whatever else a host there says.
Collect ==
    /\ scan = "scan" /\ locations = {} /\ found = Nothing
    /\ \E said \in SUBSET ({Location(d) : d \in {d \in Device : contains(home[d])}} \cup Claims) :
          locations' = {url \in said : valid_location(url)}
    /\ UNCHANGED <<vars, found, call, network>>

\* The locations are fetched in the order of a HashSet; an id that comes
\* twice keeps the description that came last.
FetchLocation(url) ==
    /\ scan = "scan" /\ url \in locations
    /\ locations' = locations \ {url}
    /\ \E list \in fetch_description(url) :
          found' = [d \in DOMAIN found \cup DOMAIN list |->
                       IF d \in DOMAIN list THEN list[d] ELSE found[d]]
    /\ UNCHANGED <<vars, call, network>>

Discover ==
    /\ locations = {}
    /\ ScanMerge(found)
    /\ found' = Nothing
    /\ UNCHANGED <<locations, call, network>>

\* The rest of the thread, which keeps nothing of this.
ScanOn ==
    /\ Load \/ Publish \/ ScanError \/ ScanStore \/ ScanWrite \/ ScanRename \/ ScanSaveFails
    /\ UNCHANGED <<locations, found, call, network>>

-----------------------------------------------------------------------------
(* POST /wiim/probe.                                                       *)

ProbeUrl(h) == Url("http", call[h].url.ip, Min(call[h].ports), "description.xml")

\* Ports that the registry holds for the address, and the usual ones.
ProbeStart(h, ip) ==
    /\ contains(ip)
    /\ lock = "free"
    /\ call[h] = NoCall
    /\ ProbeBegin(h)
    /\ call' = [call EXCEPT
          ![h].ports = ProbePorts \cup {registry[d].facts.port :
                            d \in {d \in DOMAIN registry : registry[d].facts.ip = ip}},
          ![h].url.ip = ip]
    /\ UNCHANGED <<locations, found, network>>

ProbeHit(h) ==
    /\ probe[h].at = "fetch"
    /\ \E list \in fetch_description(ProbeUrl(h)) \ {Nothing} : ProbeFound(h, list)
    /\ call' = [call EXCEPT ![h] = NoCall]
    /\ UNCHANGED <<locations, found, network>>

\* The candidates are tried in order, and after the last one: 502.
ProbeMiss(h) ==
    /\ probe[h].at = "fetch"
    /\ IF Cardinality(call[h].ports) > 1
       THEN /\ call' = [call EXCEPT ![h].ports = @ \ {Min(@)}]
            /\ UNCHANGED vars
       ELSE /\ call' = [call EXCEPT ![h] = NoCall]
            /\ ProbeFailed(h)
    /\ UNCHANGED <<locations, found, network>>

ProbeOn(h) ==
    /\ ProbeMerge(h) \/ ProbeWrite(h) \/ ProbeRename(h) \/ ProbeSaveFails(h)
    /\ UNCHANGED <<locations, found, call, network>>

-----------------------------------------------------------------------------
(* The proxy.                                                              *)

\* WiimTransport::device: the facts held for an id, if they are in the CIDR.
device(id) == {registry[d].facts : d \in {d \in DOMAIN registry \cap {id} :
                                            contains(registry[d].facts.ip)}}

\* proxy_upnp and proxy_linkplay up to the request they send; an unknown id,
\* a service the renderer does not have or an empty query ends in 502.
ProxyStart(h, id, service) ==
    /\ lock = "free"
    /\ call[h] = NoCall /\ probe[h] = Idle
    /\ \E facts \in device(id) :
          /\ service \in DOMAIN facts.services \cup {"LinkPlay"}
          /\ call' = [call EXCEPT
                ![h].id = {id}, ![h].service = service,
                ![h].url = IF service = "LinkPlay"
                           THEN Url("https", facts.ip, 443, "httpapi.asp")
                           ELSE Url("http", facts.ip, facts.port, facts.services[service])]
    /\ UNCHANGED <<vars, locations, found, network>>

\* collect_response: the size relayed; -1 is an error, which the API answers
\* with 502.  A body without a length is read up to one byte past the limit.
collect_response(size) == IF size > MaxBody THEN -1 ELSE size

\* The renderer's answer, or none within the timeout.
ProxyAnswer(h) ==
    /\ call[h].id # {} /\ call[h].body = 0
    /\ \E size \in 1..(MaxBody + 1) :
          call' = [call EXCEPT ![h].body = size, ![h].reply = collect_response(size)]
    /\ UNCHANGED <<vars, locations, found, network>>

ProxyEnd(h) ==
    /\ call[h].id # {}
    /\ call' = [call EXCEPT ![h] = NoCall]
    /\ UNCHANGED <<vars, locations, found, network>>

Restart ==
    /\ Crash
    /\ locations' = {}
    /\ found' = Nothing
    /\ call' = [h \in Handler |-> NoCall]
    /\ UNCHANGED network

Addresses == 0..(2^AddressBits - 1)

Services == {"AVTransport", "RenderingControl", "PlayQueue", "LinkPlay"}

TNext ==
    \/ Collect \/ (\E url \in locations : FetchLocation(url)) \/ Discover \/ ScanOn
    \/ \E h \in Handler :
          \/ (\E ip \in Addresses : ProbeStart(h, ip))
          \/ ProbeHit(h) \/ ProbeMiss(h) \/ ProbeOn(h)
          \/ (\E id \in Device : \E s \in Services : ProxyStart(h, id, s))
          \/ ProxyAnswer(h) \/ ProxyEnd(h)
    \/ Restart
    \/ \E d \in Device : Move(d)

TSpec == TInit /\ [][TNext]_tvars

-----------------------------------------------------------------------------
(* Properties.                                                             *)

\* "Every outbound request resolves a collector-owned device ID and a service
\* path learned from that device's description document" (wiim.rs): whatever
\* a file of another site or a reply says, no request of the scan, of a probe
\* or of the proxy leaves the IoT CIDR, and no scan finds a renderer outside ...
StaysInCidr ==
    /\ \A url \in locations : contains(url.ip)
    /\ \A d \in DOMAIN found : contains(found[d].ip)
    /\ \A h \in Handler : call[h] # NoCall => contains(call[h].url.ip)

\* ... a command goes to the very control URL that the renderer it is for
\* means by its description, unless that renderer has moved ...
ReachesRenderer ==
    \A h \in Handler : \A d \in call[h].id \ moved :
        IF call[h].service = "LinkPlay" THEN call[h].url.ip = home[d]
        ELSE call[h].url = ControlUrl(d, home[d], call[h].service)

\* ... and its answer comes back whole, or is an error.
RelayedWhole ==
    \A h \in Handler : call[h].body # 0 =>
        call[h].reply = IF call[h].body > MaxBody THEN -1 ELSE call[h].body

\* All this rests on every copy of the inventory: the entry of a renderer that
\* has not moved is what it advertises, whichever way it got there ...
Sound(list, where, gone) ==
    \A d \in DOMAIN list \ gone : list[d] = Advertised(d, where[d]) /\ FitsTogether(d, where[d])

CopiesAreSound ==
    /\ \A d \in Device : home[d] \in Home[d]
    /\ found \in Listings
    /\ \A list \in {file.list, tmp.list, found, Listed(registry), Listed(devices)} :
          Sound(list, home, moved)
    /\ \A h \in Handler :
          Sound(Listed(probe[h].found), home, moved) /\ Sound(Listed(probe[h].merged), home, moved)

\* ... and on a handler serving one request at a time.
ProbesAreApart ==
    \A h \in Handler : probe[h].at = "fetch" => contains(call[h].url.ip) /\ call[h].id = {}

\* What holds of the requests that are under way, whatever the scan, probes,
\* failed saves, crashes and moves have made of the registry meanwhile: with
\* WiimInv, the inductive invariant of WiimProofs.
OutboundInv ==
    /\ StaysInCidr /\ ReachesRenderer /\ RelayedWhole
    /\ CopiesAreSound /\ ProbesAreApart

=============================================================================
