----------------------------- MODULE MediaLease -----------------------------
(***************************************************************************)
(* Airwave's MediaServer registration and its advertisement (api.rs,       *)
(* media_server_register; ssdp.rs): Airwave keeps a lease alive by         *)
(* PUT requests, each on a thread of its own; the receiver thread answers  *)
(* searches and the advertiser thread announces the server periodically.   *)
(* Both tell control points how long they may remember it.                 *)
(*                                                                         *)
(* Each thread reads the clock before it uses the reading, and time passes *)
(* in between: Delay bounds how much.  The clock the service reads is the  *)
(* system's, which may be set at any moment; Airwave, control points and   *)
(* the sleep of the advertiser go by the time that passes.  An Option is a *)
(* set with at most one element.  The five messages of an announcement,    *)
(* sent to two addresses, say the same and are one.                        *)
(***************************************************************************)
EXTENDS Integers, FiniteSetsExt

CONSTANTS
    Requests,       \* the PUT requests that may be in the service at once
    Uuids,          \* the identities Airwave registers
    LeaseSeconds,   \* what Airwave asks for, -1 being anything that is no number
    MinLease, MaxLease,  \* what it is clamped to
    DefaultLease,   \* what a request without a number gets
    CacheLimit,     \* MEDIA_SERVER_CACHE_SECONDS
    Period,         \* how long the advertiser sleeps
    Delay,          \* bound: time from reading the clock to using it
    RenewMargin,    \* the time Airwave leaves on its lease when it renews in time
    MaxOffset,      \* bound: how far the settings of the system's clock differ
    MaxTime,        \* bound: the time
    MaxFaults       \* bound: announcements that do not arrive, restarts of the service

ASSUME LeaseAssumption ==
    /\ LeaseSeconds \subseteq Int
    /\ {MinLease, MaxLease, DefaultLease, CacheLimit, Period} \subseteq Nat \ {0}
    /\ MinLease <= MaxLease
    /\ {Delay, RenewMargin, MaxOffset, MaxTime, MaxFaults} \subseteq Nat

VARIABLES
    clock,      \* the time that has passed
    lease,      \* registry.media_server
    put,        \* per request, the lease it has made up and not yet stored
    asked,      \* the receiver's clock reading for the search in hand, and its time
    reply,      \* the receiver's reply, not yet sent
    notify,     \* the advertiser's announcement, not yet sent
    due,        \* when the advertiser wakes up
    cached,     \* until when a control point on the LAN remembers each server
    granted,    \* history: the furthest end of a lease stored for each identity,
    late,       \* ... and whether Airwave asked for too little or too late
    faults

receiver == <<asked, reply>>
advertiser == <<notify, due>>
history == <<granted, late>>
vars == <<clock, lease, put, receiver, advertiser, cached, history, faults>>

Init ==
    /\ clock = 0
    /\ lease = {}
    /\ put = [r \in Requests |-> {}]
    /\ asked = {} /\ reply = {}
    /\ notify = {} /\ due = 0
    /\ cached = [u \in Uuids |-> 0]
    /\ granted = [u \in Uuids |-> 0] /\ late = FALSE
    /\ faults = 0

\* What SystemTime::now may be, in seconds: the system's clock is set forward
\* and back, and shows another offset from one reading to the next.
unix_seconds == clock..clock + MaxOffset

Clamp(n, low, high) == Max({low, Min({n, high})})

\* A number below zero is none.
lease_seconds(s) == Clamp(IF s < 0 THEN DefaultLease ELSE s, MinLease, MaxLease)

Active(l, now) == l.expires > now

\* Mutant: control points are always told the full cache time.
cache_limit(l, now) == CacheLimit

cache_seconds(l, now) == Clamp(l.expires - now, 1, CacheLimit)

\* What a search response or an announcement made with a reading says, if
\* anything.
Messages(t) ==
    {[uuid |-> l.uuid, maxAge |-> cache_seconds(l, t.now), at |-> t.at] :
        l \in {k \in lease : Active(k, t.now)}}

-----------------------------------------------------------------------------
(* PUT /wiim/media-server.                                                 *)

\* A lease made up at a reading of the clock.  It is to expire at "expires" of
\* that clock; "until" is when it ends for Airwave, which counts from now.
Lease(u, seconds, expires) ==
    [uuid |-> u, at |-> clock, seconds |-> seconds, until |-> clock + seconds, expires |-> expires]

\* Mutant: the expiry counts from the lease in force.
RegisterExtends(r) ==
    /\ put[r] = {}
    /\ \E u \in Uuids, s \in LeaseSeconds, now \in unix_seconds :
        LET seconds == lease_seconds(s)
        IN  put' = [put EXCEPT ![r] =
                {Lease(u, seconds, Max({now} \cup {l.expires : l \in lease}) + seconds)}]
    /\ UNCHANGED <<clock, lease, receiver, advertiser, cached, history, faults>>

\* The body is valid; the expiry is computed before the lock is taken.
Register(r) ==
    /\ put[r] = {}
    /\ \E u \in Uuids, s \in LeaseSeconds, now \in unix_seconds :
        LET seconds == lease_seconds(s)
        IN  put' = [put EXCEPT ![r] = {Lease(u, seconds, now + seconds)}]
    /\ UNCHANGED <<clock, lease, receiver, advertiser, cached, history, faults>>

\* Under the lock, whatever is there is replaced.
Store(r) ==
    /\ \E l \in put[r] :
        /\ lease' = {[uuid |-> l.uuid, seconds |-> l.seconds, until |-> l.until, expires |-> l.expires]}
        /\ granted' = [granted EXCEPT ![l.uuid] = Max({@, l.until})]
        /\ late' = (late \/ l.until <= clock + RenewMargin)
    /\ put' = [put EXCEPT ![r] = {}]
    /\ UNCHANGED <<clock, receiver, advertiser, cached, faults>>

-----------------------------------------------------------------------------
(* The receiver thread.  What is not a search for a media server from the  *)
(* LAN is counted and dropped, and is no step here.                        *)

Search ==
    /\ asked = {} /\ reply = {}
    /\ \E now \in unix_seconds : asked' = {[at |-> clock, now |-> now]}
    /\ UNCHANGED <<clock, lease, put, reply, advertiser, cached, history, faults>>

\* The lease is read with the clock reading of before the lock.  A search
\* for another target than the lease's gets no answer.
Respond ==
    /\ \E t \in asked : reply' \in {Messages(t), {}}
    /\ asked' = {}
    /\ UNCHANGED <<clock, lease, put, advertiser, cached, history, faults>>

Remember(m) == cached' = [cached EXCEPT ![m.uuid] = clock + m.maxAge]

\* The reply goes to the control point watched here, or is lost or goes to
\* another one.
ReplySend ==
    /\ \E m \in reply : Remember(m) \/ UNCHANGED cached
    /\ reply' = {}
    /\ UNCHANGED <<clock, lease, put, asked, advertiser, history, faults>>

-----------------------------------------------------------------------------
(* The advertiser thread.                                                  *)

\* Mutant: a server that has been heard of is not announced again.
AdvertiseOnce ==
    /\ clock >= due
    /\ notify = {}
    /\ \E now \in unix_seconds :
          notify' = {m \in Messages([at |-> clock, now |-> now]) : cached[m.uuid] = 0}
    /\ due' = IF notify' = {} THEN clock + Period ELSE due
    /\ UNCHANGED <<clock, lease, put, receiver, cached, history, faults>>

\* The clock is read under the lock of the lease.
Advertise ==
    /\ clock >= due
    /\ notify = {}
    /\ \E now \in unix_seconds : notify' = Messages([at |-> clock, now |-> now])
    /\ due' = IF notify' = {} THEN clock + Period ELSE due
    /\ UNCHANGED <<clock, lease, put, receiver, cached, history, faults>>

NotifySend ==
    /\ \E m \in notify :
        \/ Remember(m) /\ UNCHANGED faults
        \/ faults < MaxFaults /\ faults' = faults + 1 /\ UNCHANGED cached
    /\ notify' = {}
    /\ due' = clock + Period
    /\ UNCHANGED <<clock, lease, put, receiver, history>>

-----------------------------------------------------------------------------

\* When the clock readings threads are working with were taken.
Readings ==
    (UNION {{l.at : l \in put[r]} : r \in Requests})
        \cup {t.at : t \in asked \cup reply \cup notify}

\* No reading gets older than Delay, and the advertiser is not woken later.
Tick ==
    /\ clock < MaxTime
    /\ \A t \in Readings \cup {due} : clock < t + Delay
    /\ clock' = clock + 1
    /\ late' = (late \/ \E l \in lease : l.until <= clock + RenewMargin)
    /\ UNCHANGED <<lease, put, receiver, advertiser, cached, granted, faults>>

\* The registration is in memory only.
Restart ==
    /\ faults < MaxFaults
    /\ faults' = faults + 1
    /\ lease' = {}
    /\ put' = [r \in Requests |-> {}]
    /\ asked' = {} /\ reply' = {}
    /\ notify' = {} /\ due' = clock
    /\ UNCHANGED <<clock, cached, history>>

Next ==
    \/ \E r \in Requests : Register(r) \/ Store(r)
    \/ Search \/ Respond \/ ReplySend
    \/ Advertise \/ NotifySend
    \/ Tick \/ Restart

Spec == Init /\ [][Next]_vars

-----------------------------------------------------------------------------
(* Properties.                                                             *)

\* Every variable keeps its type; a lease in force or in the making is within
\* the limits, and so is what control points are told.
TypeOK ==
    /\ clock \in 0..MaxTime
    /\ \A l \in lease :
        /\ l.uuid \in Uuids /\ l.seconds \in MinLease..MaxLease
        /\ l.until \in Nat /\ l.expires \in l.until..l.until + MaxOffset
    /\ DOMAIN put = Requests
    /\ \A r \in Requests : \A l \in put[r] :
        /\ l.uuid \in Uuids /\ l.at \in Nat /\ l.seconds \in MinLease..MaxLease
        /\ l.until = l.at + l.seconds /\ l.expires \in l.until..l.until + MaxOffset
    /\ \A t \in asked : t.at \in Nat /\ t.now \in t.at..t.at + MaxOffset
    /\ \A m \in reply \cup notify : m.uuid \in Uuids /\ m.maxAge \in 1..CacheLimit /\ m.at \in Nat
    /\ due \in 0..clock + Period
    /\ cached \in [Uuids -> Nat] /\ granted \in [Uuids -> Nat]
    /\ late \in BOOLEAN
    /\ faults \in 0..MaxFaults

\* No thread works with a reading from the future, or one older than Delay.
ReadingsAreRecent == \A t \in Readings : t <= clock /\ clock <= t + Delay

\* There is one lease, of a length counted from no later than now, and the
\* history knows it.
LeaseIsGranted ==
    /\ \A l, k \in lease : l = k
    /\ \A l \in lease : l.until <= clock + l.seconds /\ l.until <= granted[l.uuid]

\* What a control point is told ends with the lease, counted from the reading,
\* but for what the clock was set back in between.
MessagesEndWithLease == \A m \in reply \cup notify : m.at + m.maxAge <= granted[m.uuid] + MaxOffset

\* Registrations "expire unless Airwave refreshes them" (ADR 0011): no
\* control point remembers a server longer than a lease it was granted, but
\* for the time a message takes to leave and what the clock was set back,
\* whichever thread told it, however requests, searches and settings of the
\* clock interleave, and across restarts.
CachedNotBeyondLease == \A u \in Uuids : cached[u] <= granted[u] + Delay + MaxOffset

\* What holds at every instant of lease, messages and caches: the inductive
\* invariant of LeaseProofs.
LeaseInv ==
    /\ TypeOK
    /\ ReadingsAreRecent
    /\ LeaseIsGranted
    /\ MessagesEndWithLease
    /\ CachedNotBeyondLease

\* Requests that overtake one another cannot shorten a registration by more
\* than the time they overlap and what the clock was set, unless Airwave asks
\* for less.
RenewalNotUndone ==
    [][\A old \in lease, new \in lease' :
        new.uuid = old.uuid /\ new.seconds >= old.seconds
            => new.expires >= old.expires - Delay - MaxOffset]_vars

\* As long as Airwave renews while more than RenewMargin is left, the service
\* runs and announcements arrive, a control point that has once heard of the
\* registered server never forgets it between two announcements, however the
\* clock is set.
StaysDiscoverable ==
    ~late /\ faults = 0
        => \A l \in lease : cached[l.uuid] # 0 => cached[l.uuid] >= clock

=============================================================================
