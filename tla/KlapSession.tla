---------------------------- MODULE KlapSession ----------------------------
(***************************************************************************)
(* The KLAP session with the plug at one address (KlapSession in           *)
(* service/src/kasa.rs) and what a tick of the poller does with it: the    *)
(* handshake, the name on first contact, and the energy readings, each     *)
(* request with a sequence number of its own.                              *)
(*                                                                         *)
(* The plug's half of the protocol is external: it knows its newest        *)
(* session, ends it after MaxRequests, and accepts either the next         *)
(* sequence number only or any.  A request may not arrive, and an answer   *)
(* may be cut anywhere.  What a decrypted text says is a parameter here:   *)
(* ReadingPath gives it in terms of the JSON parser.                       *)
(***************************************************************************)
EXTENDS Klap

CONSTANTS
    Holders,      \* plugs that may hold the address
    Ours,         \* those that belong to the account
    Seeds,        \* numbers that stand for the random seeds of a handshake
    MaxRequests,  \* requests after which a plug ends a session
    NameTexts,    \* answers to get_device_info
    EnergyDocs,   \* answers to get_energy_usage: [text, values, good]
    named(_),     \* the names a decrypted text gives, one at most
    measured(_),  \* the values a decrypted text measures, one at most
    MaxLosses,    \* bound: requests and answers lost or cut, useless answers
    MaxTakeovers  \* bound: times the address changes hands

\* What a plug sends is a text that fits an answer; a good answer is one a
\* reading can be built of.
ASSUME SessionAssumption ==
    /\ Ours \subseteq Holders
    /\ Seeds \subseteq Nat \ {0}
    /\ MaxRequests \in 1..Words - 1
    /\ {MaxLosses, MaxTakeovers} \subseteq Nat
    /\ \A doc \in EnergyDocs :
          /\ doc.text \in Seq(Range(doc.text)) /\ Len(doc.text) \div BlockSize + 2 <= MaxBody
          /\ doc.good \in BOOLEAN /\ (doc.good => measured(doc.text) # {})

VARIABLES
    strict,    \* whether plugs want every sequence number
    holder,    \* the plug at the address
    plug,      \* per plug: a handshake begun, its session, the last number, requests
    stage,     \* where the poll stands
    session,   \* of the collector: seed and sequence number
    name,      \* the device's name, when it was learned
    sent,      \* history: sequence number and text of the session's requests
    lost,      \* history: a request of the session did not arrive
    line,      \* what was measured and is not yet appended, with what was meant
    losses, takeovers

sessionVars ==
    <<strict, holder, plug, stage, session, name, sent, lost, line, losses, takeovers>>

NoSession == [seed |-> 0, seq |-> 0]
Unused == [begun |-> NoSession, seed |-> 0, last |-> 0, served |-> 0]

Account(p) == IF p \in Ours THEN "ours" ELSE "other"
Auth == auth_hash("ours")

SessionInit ==
    /\ strict \in BOOLEAN
    /\ holder \in Holders
    /\ plug = [p \in Holders |-> Unused]
    /\ stage = "sleep"
    /\ session = NoSession
    /\ name = {} /\ sent = {} /\ lost = FALSE
    /\ line = {}
    /\ losses = 0 /\ takeovers = 0

Lose == losses < MaxLosses /\ losses' = losses + 1

\* What the collector reads of an answer: all of it, or a beginning.
Receive(received, answer) ==
    \/ received = answer /\ UNCHANGED losses
    \/ received \in Cuts(answer) /\ Lose

-----------------------------------------------------------------------------
(* The plug (external).                                                    *)

\* It answers 403 to whatever it does not know.
Forbidden == Answer(403, << >>, << >>, TRUE)

Handshake1Answer(p, seed, declared) ==
    Answer(200, <<<<"cookie">>>>, <<<<"seed", seed>>, plug_proof(seed, auth_hash(Account(p)))>>, declared)

\* How many requests have gone from number n to number seq.
Since(n, seq) == IF n <= seq THEN seq - n ELSE seq - n + Words

\* Whether the plug takes a request of this session with this number.
Accepts(p, s) ==
    /\ plug[p].seed = s.seed
    /\ plug[p].served < MaxRequests
    /\ strict => Since(plug[p].last, s.seq) = 1

Served(p, seq) == [plug EXCEPT ![p].last = seq, ![p].served = @ + 1]

-----------------------------------------------------------------------------
(* KlapSession::establish.                                                 *)

\* Seeds that no session has: a random one is one of these.
FreshSeeds == Seeds \ ({session.seed} \cup UNION {{plug[p].seed, plug[p].begun.seed} : p \in Holders})

\* The answer to handshake1: seed and proof, and a cookie.
proven(r, seed) ==
    /\ r.status = 200
    /\ Len(r.body) >= 2 /\ r.body[2] = plug_proof(seed, Auth)
    /\ <<"cookie">> \in r.headers

\* The first request of a tick without a session.  Which of the seeds is taken
\* makes no difference.
Handshake1 ==
    /\ stage = "sleep" /\ session = NoSession
    /\ \E seed \in FreshSeeds, seq \in 0..Words - 1, declared \in BOOLEAN :
          LET opened == [seed |-> seed, seq |-> seq]
              answer == Handshake1Answer(holder, seed, declared)
          IN  /\ \A other \in FreshSeeds : seed <= other
              /\ plug' = [plug EXCEPT ![holder].begun = opened]
              /\ \E received \in {answer} \cup Cuts(answer) :
                    /\ Receive(received, answer)
                    /\ IF \E r \in request(received) : proven(r, seed)
                       THEN session' = opened /\ stage' = "handshake2"
                       ELSE session' = NoSession /\ stage' = "sleep"
    /\ sent' = {} /\ lost' = FALSE
    /\ UNCHANGED <<strict, holder, name, line, takeovers>>

\* Handshake2: our proof; the plug opens the session.
Handshake2 ==
    /\ stage = "handshake2"
    /\ LET proof == our_proof(session.seed, Auth)
           knows == /\ plug[holder].begun = session
                    /\ proof = our_proof(session.seed, auth_hash(Account(holder)))
           answer == IF knows THEN Answer(200, << >>, << >>, TRUE) ELSE Forbidden
       IN  \E received \in {answer} \cup Cuts(answer) :
              /\ plug' = IF ~knows THEN plug
                         ELSE [plug EXCEPT ![holder] = [begun |-> NoSession, seed |-> session.seed,
                                                        last |-> session.seq, served |-> 0]]
              /\ Receive(received, answer)
              /\ IF \E r \in request(received) : r.status = 200
                 THEN session' = session /\ stage' = IF name = {} THEN "name" ELSE "energy"
                 ELSE session' = NoSession /\ stage' = "sleep"
    /\ UNCHANGED <<strict, holder, name, sent, lost, line, takeovers>>

-----------------------------------------------------------------------------
(* KlapSession::execute.                                                   *)

\* The decrypted text of what was received.
execute(received, s) ==
    UNION {decrypt_payload(derive_keys(s.seed, Auth), s.seq, r.body) :
              r \in {a \in request(received) : a.status = 200}}

\* The plug answers a request with an encrypted text.
Encrypted(s, text, declared) ==
    Answer(200, << >>, encrypt_payload(derive_keys(s.seed, Auth), s.seq, text), declared)

\* What the plug at the address answers.
Answered(s, text, declared) ==
    IF Accepts(holder, s) THEN Encrypted(s, text, declared) ELSE Forbidden

\* Mutant: the number is not kept in the session.
sequenced_not(s) == s

\* Every request counts, whether it is answered or not.
sequenced(s) == [s EXCEPT !.seq = wrapping_add(@)]

\* A request that does not arrive.
Unheard ==
    /\ stage \in {"handshake2", "name", "energy"}
    /\ Lose
    /\ lost' = TRUE
    /\ IF stage = "name"
       THEN /\ session' = sequenced(session) /\ stage' = "energy"
            /\ sent' = sent \cup {<<session'.seq, stage>>}
       ELSE session' = NoSession /\ stage' = "sleep" /\ sent' = {}
    /\ UNCHANGED <<strict, holder, plug, name, line, takeovers>>

\* get_device_info: a failure is ignored, and the session kept.
AskName ==
    /\ stage = "name"
    /\ LET s == sequenced(session)
       IN  \E text \in NameTexts, declared \in BOOLEAN :
              \E received \in {Answered(s, text, declared)} \cup Cuts(Answered(s, text, declared)) :
                 /\ plug' = IF Accepts(holder, s) THEN Served(holder, s.seq) ELSE plug
                 /\ Receive(received, Answered(s, text, declared))
                 /\ name' = UNION {named(t) : t \in execute(received, s)}
                 /\ session' = s
                 /\ sent' = sent \cup {<<s.seq, stage>>}
    /\ stage' = "energy"
    /\ UNCHANGED <<strict, holder, lost, line, takeovers>>

\* Mutant: the session is kept.
after_failure_kept == sequenced(session)

\* "A dead session re-handshakes next tick".
after_failure == NoSession

\* get_energy_usage: the values for a line, or the session is given up.  A
\* useless answer counts as a loss.
AskEnergy ==
    /\ stage = "energy"
    /\ LET s == sequenced(session)
       IN  \E doc \in EnergyDocs, declared \in BOOLEAN :
              LET answer == Answered(s, doc.text, declared)
              IN  \E received \in {answer} \cup (IF doc.good THEN Cuts(answer) ELSE {}) :
                    /\ plug' = IF Accepts(holder, s) THEN Served(holder, s.seq) ELSE plug
                    /\ IF doc.good THEN Receive(received, answer) ELSE Lose
                    /\ line' = {[values |-> v, name |-> name, meant |-> doc.values] :
                                   v \in UNION {measured(t) : t \in execute(received, s)}}
                    /\ session' = IF line' = {} THEN after_failure ELSE s
                    /\ sent' = IF line' = {} THEN {} ELSE sent \cup {<<s.seq, stage>>}
    /\ stage' = IF line' # {} THEN "append" ELSE IF session' = NoSession THEN "sleep" ELSE "energy"
    /\ UNCHANGED <<strict, holder, name, lost, takeovers>>

\* The line goes to the spool; the next tick finds the session.
AppendLine ==
    /\ stage = "append"
    /\ line' = {}
    /\ stage' = "energy"
    /\ UNCHANGED <<strict, holder, plug, session, name, sent, lost, losses, takeovers>>

\* Another plug gets the address, or the plug loses its session.
Takeover ==
    /\ takeovers < MaxTakeovers
    /\ takeovers' = takeovers + 1
    /\ holder' \in Holders
    /\ plug' = [plug EXCEPT ![holder] = Unused]
    /\ UNCHANGED <<strict, stage, session, name, sent, lost, line, losses>>

Tick == Handshake1 \/ Handshake2 \/ AskName \/ AskEnergy \/ Unheard \/ AppendLine

SessionNext == Tick \/ Takeover

SessionSpec == SessionInit /\ [][SessionNext]_sessionVars

-----------------------------------------------------------------------------
(* Properties.                                                             *)

\* Every variable keeps its type; there is a session from handshake2 on, and a
\* line between the answer and the spool.
SessionTypeOK ==
    /\ strict \in BOOLEAN
    /\ holder \in Holders
    /\ plug \in [Holders -> [begun : [seed : Seeds \cup {0}, seq : 0..Words - 1],
                             seed : Seeds \cup {0}, last : 0..Words - 1, served : 0..MaxRequests]]
    /\ stage \in {"sleep", "handshake2", "name", "energy", "append"}
    /\ session \in [seed : Seeds \cup {0}, seq : 0..Words - 1]
    /\ IF stage = "sleep" THEN session = NoSession ELSE session.seed # 0
    /\ sent \subseteq (0..Words - 1) \X {"name", "energy"}
    /\ lost \in BOOLEAN
    /\ stage = "append" <=> line # {}
    /\ losses \in 0..MaxLosses /\ takeovers \in 0..MaxTakeovers

\* Only the plug at the address knows a session.  If it is the collector's, the
\* plug counted its requests, the one for the name apart; and unless one of them
\* was lost, it knows the number of the last.
PlugsCount ==
    /\ \A p \in Holders \ {holder} : plug[p] = Unused
    /\ stage \in {"handshake2", "name"} => sent = {}
    /\ session # NoSession /\ plug[holder].seed = session.seed =>
          /\ stage # "handshake2"
          /\ stage = "name" => plug[holder].served = 0
          /\ \A a \in sent : Since(a[1], session.seq) <= plug[holder].served
          /\ ~lost => plug[holder].last = session.seq

\* No two requests of a session are encrypted with the same initialisation
\* vector unless they are the same, after a failure and across the wrap of the
\* sequence number too.
OneTextPerIv == \A a, b \in sent : a[1] = b[1] => a = b

\* What holds of a session in every state: the inductive invariant of
\* KasaProofs.
SessionInv == SessionTypeOK /\ PlugsCount /\ OneTextPerIv

\* A session the plug still has does not fail by itself: an energy request fails
\* only when it or its answer is lost or useless, the plug has no such session,
\* or a plug that wants every number missed one.
GoodSessionAnswers ==
    [][(stage = "energy" /\ takeovers' = takeovers /\ stage' # "append") =>
          \/ losses' > losses
          \/ plug[holder].seed # session.seed \/ plug[holder].served = MaxRequests
          \/ strict /\ lost]_sessionVars

=============================================================================
