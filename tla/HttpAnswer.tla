----------------------------- MODULE HttpAnswer -----------------------------
(***************************************************************************)
(* What the HTTP client (service/src/http.rs) makes of an answer.          *)
(*                                                                         *)
(* An answer is a sequence of items: the status line, header lines, the    *)
(* blank line, and the items of the body.  A peer that goes away leaves a  *)
(* beginning of it, the last item perhaps in part; when the connection is  *)
(* closed and not only silent, the client cannot tell that from an end.    *)
(* An optional result is a set with at most one member.                    *)
(***************************************************************************)
EXTENDS Integers, Sequences, FiniteSetsExt, Functions

CONSTANT MaxBody  \* MAX_BODY, in items

ASSUME HttpAssumption == MaxBody \in Nat \ {0}

Status(n) == <<"status", n>>
Length(n) == <<"length", n>>
Blank == <<"blank">>
Piece == <<"piece">>

\* An answer, with a content-length or ended by the end of the connection.
Answer(status, headers, body, declared) ==
    <<Status(status)>> \o headers \o (IF declared THEN <<Length(Len(body))>> ELSE << >>)
    \o <<Blank>> \o body

\* What can be read of an item that was cut: fewer digits, another header, or
\* a piece of the body.
Pieces(item) ==
    CASE item[1] = "status" -> {Status(item[2] \div 10)}
      [] item[1] = "length" -> {Length(item[2] \div 10), <<"other">>}
      [] item[1] = "cookie" -> {<<"other">>}
      [] item[1] = "blank" -> {}
      [] OTHER -> {Piece}

\* The beginnings of an answer.
Cuts(answer) ==
    UNION {{SubSeq(answer, 1, k - 1) \o last :
               last \in {<< >>} \cup {<<p>> : p \in Pieces(answer[k])}} : k \in DOMAIN answer}

\* The body after the headers: as long as they declare, or to the end.
body_of(rest, length) ==
    IF length = {} THEN {body \in {rest} : Len(body) <= MaxBody}
    ELSE {SubSeq(rest, 1, n) : n \in {m \in length :
             m <= MaxBody /\ m <= Len(rest) /\ \A i \in 1..m : rest[i] # Piece}}

\* The blank line; an end within the headers is taken for their end.
header_end(received) ==
    Min({i \in 2..Len(received) : received[i] = Blank} \cup {Len(received) + 1})

headers_of(received) == Range(SubSeq(received, 2, header_end(received) - 1))

\* The length the headers declare: of several the last one counts.
declared_length(received) ==
    LET declaring == {i \in 2..header_end(received) - 1 : received[i][1] = "length"}
    IN  {received[i][2] : i \in {i \in declaring : \A j \in declaring : j <= i}}

\* http::request after the request was sent.  A silent peer is an error, which
\* no beginning gives.
request(received) ==
    IF received = << >> \/ <<"chunked">> \in headers_of(received) THEN {}
    ELSE {[status |-> received[1][2], headers |-> headers_of(received), body |-> body] :
             body \in body_of(SubSeq(received, header_end(received) + 1, Len(received)),
                             declared_length(received))}
=============================================================================
