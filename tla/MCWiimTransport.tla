-------------------------- MODULE MCWiimTransport --------------------------
(* Two renderers on a /1 of three-bit addresses, 4..7: one moves and is    *)
(* found by probes as well, the other is found at its own LOCATION only. A *)
(* third device, which only probes can find, has an absolute control URL   *)
(* on an endpoint the first has at times, and must never be listed.        *)
(* Replies carry, besides the LOCATIONs of the three, one outside the CIDR *)
(* and one that the first renderer has at times. The file may name an      *)
(* address that is now outside the CIDR.                                   *)
EXTENDS WiimTransport

CONSTANTS amp, mini, other, h1

MCDescription ==
    [d \in Device |->
        CASE d = amp -> [scheme |-> "http", port |-> 2, path |-> "description.xml",
                         type |-> "MediaRenderer",
                         controls |-> [AVTransport |-> Relative("av")]]
          [] d = mini -> [scheme |-> "http", port |-> 3, path |-> "mini.xml",
                          type |-> "MediaRenderer",
                          controls |-> [RenderingControl |-> Relative("rc")]]
          [] d = other -> [scheme |-> "https", port |-> 2, path |-> "description.xml",
                           type |-> "MediaRenderer",
                           controls |-> [AVTransport |-> Url("http", 5, 2, "av")]]]

MCHome == [d \in Device |-> IF d = amp THEN {5, 7} ELSE IF d = mini THEN {6} ELSE {4}]

FactsAt(d, ip) ==
    [ip |-> ip, port |-> MCDescription[d].port,
     services |-> [s \in DOMAIN MCDescription[d].controls |-> MCDescription[d].controls[s].path]]

MCClaims == {Url("http", 2, 2, "description.xml"), Url("http", 7, 2, "description.xml")}

MCFacts == {FactsAt(d, ip) : d \in Device, ip \in {1, 4, 5, 6, 7}}

MCOnFile == {Nothing, [d \in {amp, mini} |-> FactsAt(d, IF d = amp THEN 1 ELSE 6)]}
=============================================================================
