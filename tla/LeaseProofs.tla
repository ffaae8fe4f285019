----------------------------- MODULE LeaseProofs -----------------------------
(***************************************************************************)
(* Proofs about MediaLease for any requests, identities, lease lengths and *)
(* limits, any number of ticks, losses and restarts, and any settings of   *)
(* the clock.                                                              *)
(***************************************************************************)
EXTENDS MediaLease, TLAPS

-----------------------------------------------------------------------------
(* Numbers.                                                                *)

\* The larger of two numbers.
LEMMA MaxOfTwo ==
    ASSUME NEW a \in Int, NEW b \in Int
    PROVE  Max({a, b}) \in {a, b} /\ Max({a, b}) >= a /\ Max({a, b}) >= b
  <1>1. \E x \in {a, b} : \A y \in {a, b} : x >= y
    <2>1. CASE a >= b
      BY <2>1
    <2>2. CASE b >= a
      BY <2>2
    <2> QED
      BY <2>1, <2>2
  <1> QED
    BY <1>1 DEF Max

\* The smaller of two numbers.
LEMMA MinOfTwo ==
    ASSUME NEW a \in Int, NEW b \in Int
    PROVE  Min({a, b}) \in {a, b} /\ Min({a, b}) <= a /\ Min({a, b}) <= b
  <1>1. \E x \in {a, b} : \A y \in {a, b} : x <= y
    <2>1. CASE a >= b
      BY <2>1
    <2>2. CASE b >= a
      BY <2>2
    <2> QED
      BY <2>1, <2>2
  <1> QED
    BY <1>1 DEF Min

\* A number brought between two limits is between them, and is no further from
\* what it was than that takes.
LEMMA Clamped ==
    ASSUME NEW n \in Int, NEW low \in Int, NEW high \in Int, low <= high
    PROVE  /\ Clamp(n, low, high) \in low..high
           /\ n >= low => Clamp(n, low, high) <= n
           /\ Clamp(n, low, high) >= n \/ Clamp(n, low, high) = high
  <1> DEFINE m == Min({n, high})
  <1>1. m \in {n, high} /\ m <= n /\ m <= high /\ m \in Int
    BY MinOfTwo
  <1> HIDE DEF m
  <1>2. Max({low, m}) \in {low, m} /\ Max({low, m}) >= low /\ Max({low, m}) >= m
    BY <1>1, MaxOfTwo
  <1>3. Clamp(n, low, high) = Max({low, m})
    BY DEF Clamp, m
  <1> QED
    BY <1>1, <1>2, <1>3

\* A reading of the clock.
IsTime(t) == t.at \in Nat /\ t.now \in t.at..t.at + MaxOffset

\* A message says who, when and how long, and never longer than the lease but
\* for what the clock was set back.
LEMMA MessageSaid ==
    ASSUME TypeOK, NEW t, IsTime(t), NEW m \in Messages(t)
    PROVE  \E l \in lease :
              /\ m.uuid = l.uuid /\ m.at = t.at
              /\ m.maxAge \in 1..CacheLimit
              /\ m.at + m.maxAge <= l.until + MaxOffset
              /\ m.maxAge >= l.until - t.at - MaxOffset \/ m.maxAge = CacheLimit
  <1>1. PICK l \in lease : /\ Active(l, t.now)
                           /\ m = [uuid |-> l.uuid, maxAge |-> cache_seconds(l, t.now), at |-> t.at]
    BY DEF Messages
  <1>2. /\ l.until \in Nat /\ l.expires \in l.until..l.until + MaxOffset
        /\ t.at \in Nat /\ t.now \in t.at..t.at + MaxOffset /\ MaxOffset \in Nat
    BY LeaseAssumption DEF TypeOK, IsTime
  <1>3. l.expires \in Nat /\ t.now \in Nat /\ l.expires - t.now \in Int /\ l.expires - t.now >= 1
    BY <1>1, <1>2 DEF Active
  <1>4. CacheLimit \in Nat /\ 1 <= CacheLimit
    BY LeaseAssumption
  <1>5. /\ cache_seconds(l, t.now) \in 1..CacheLimit
        /\ cache_seconds(l, t.now) <= l.expires - t.now
        /\ cache_seconds(l, t.now) >= l.expires - t.now \/ cache_seconds(l, t.now) = CacheLimit
    <2> DEFINE left == l.expires - t.now
    <2>1. left \in Int /\ 1 \in Int /\ CacheLimit \in Int /\ 1 <= CacheLimit /\ left >= 1
      BY <1>3, <1>4
    <2>2. cache_seconds(l, t.now) = Clamp(left, 1, CacheLimit)
      BY DEF cache_seconds
    <2> HIDE DEF left
    <2>3. /\ Clamp(left, 1, CacheLimit) \in 1..CacheLimit
          /\ Clamp(left, 1, CacheLimit) <= left
          /\ Clamp(left, 1, CacheLimit) >= left \/ Clamp(left, 1, CacheLimit) = CacheLimit
      BY <2>1, Clamped
    <2> QED
      BY <2>2, <2>3 DEF left
  <1>6. m.uuid = l.uuid /\ m.at = t.at /\ m.maxAge = cache_seconds(l, t.now)
    BY <1>1
  <1>7. m.at + m.maxAge <= l.until + MaxOffset
    BY <1>2, <1>3, <1>4, <1>5, <1>6
  <1>8. m.maxAge >= l.until - t.at - MaxOffset \/ m.maxAge = CacheLimit
    BY <1>2, <1>3, <1>4, <1>5, <1>6
  <1> QED
    BY <1>5, <1>6, <1>7, <1>8

\* The clock is read as it is set at that moment.
LEMMA ReadNow ==
    ASSUME LeaseInv, NEW now \in unix_seconds
    PROVE  /\ clock \in Nat /\ now \in clock..clock + MaxOffset
           /\ IsTime([at |-> clock, now |-> now])
  <1>1. clock \in Nat /\ now \in clock..clock + MaxOffset
    BY LeaseAssumption DEF LeaseInv, TypeOK, unix_seconds
  <1> QED
    BY <1>1 DEF IsTime

-----------------------------------------------------------------------------
(* The steps.                                                              *)

\* Some thread works with this reading of the clock.
IsReading(t) ==
    \/ \E r \in Requests : \E l \in put[r] : t = l.at
    \/ \E m \in asked \cup reply \cup notify : t = m.at

\* These are all the readings there are.
LEMMA ReadingsOf == \A t : t \in Readings <=> IsReading(t)
  <1> TAKE t
  <1> DEFINE Puts == UNION {{l.at : l \in put[r]} : r \in Requests}
             Sent == {m.at : m \in asked \cup reply \cup notify}
  <1>1. t \in Puts <=> \E r \in Requests : \E l \in put[r] : t = l.at
    OBVIOUS
  <1>2. t \in Sent <=> \E m \in asked \cup reply \cup notify : t = m.at
    OBVIOUS
  <1>3. Readings = Puts \cup Sent
    BY DEF Readings
  <1> HIDE DEF Puts, Sent
  <1> QED
    BY <1>1, <1>2, <1>3 DEF IsReading

\* After a step as well.
LEMMA ReadingsOfNext == (\A t : t \in Readings <=> IsReading(t))'
  <1> QED
    BY ReadingsOf, PTL

\* A message that leaves is remembered no longer than its lease and Delay.
LEMMA RememberedInTime ==
    ASSUME LeaseInv, NEW m \in reply \cup notify
    PROVE  /\ m.uuid \in Uuids /\ clock + m.maxAge \in Nat
           /\ clock + m.maxAge <= granted[m.uuid] + Delay + MaxOffset
  <1>1. m.uuid \in Uuids /\ m.maxAge \in 1..CacheLimit /\ m.at \in Nat /\ clock \in Nat
    BY LeaseAssumption DEF LeaseInv, TypeOK
  <1>2. clock <= m.at + Delay
    BY ReadingsOf DEF LeaseInv, ReadingsAreRecent, IsReading
  <1>3. m.at + m.maxAge <= granted[m.uuid] + MaxOffset /\ granted[m.uuid] \in Nat
    BY <1>1 DEF LeaseInv, MessagesEndWithLease, TypeOK
  <1>4. m.maxAge \in Nat /\ Delay \in Nat /\ MaxOffset \in Nat
    BY <1>1, LeaseAssumption
  <1> QED
    BY <1>1, <1>2, <1>3, <1>4

\* The new messages of either thread fit the lease they are made from.
LEMMA NewMessages ==
    ASSUME LeaseInv, NEW t, IsTime(t), NEW m \in Messages(t)
    PROVE  /\ m.uuid \in Uuids /\ m.maxAge \in 1..CacheLimit /\ m.at = t.at
           /\ m.at + m.maxAge <= granted[m.uuid] + MaxOffset
  <1>1. PICK l \in lease : /\ m.uuid = l.uuid /\ m.at = t.at
                           /\ m.maxAge \in 1..CacheLimit
                           /\ m.at + m.maxAge <= l.until + MaxOffset
    BY MessageSaid DEF LeaseInv
  <1>2. l.uuid \in Uuids /\ l.until \in Nat /\ l.until <= granted[l.uuid]
    BY DEF LeaseInv, TypeOK, LeaseIsGranted
  <1>3. granted[l.uuid] \in Nat /\ m.maxAge \in Nat /\ MaxOffset \in Nat /\ t.at \in Nat
    BY <1>1, <1>2, LeaseAssumption DEF LeaseInv, TypeOK, IsTime
  <1> QED
    BY <1>1, <1>2, <1>3

\* A registration is made up within the limits, from the clock as it is.
LEMMA RegisterStep ==
    ASSUME LeaseInv, NEW r \in Requests, Register(r)
    PROVE  LeaseInv'
  <1>1. PICK u \in Uuids, s \in LeaseSeconds, now \in unix_seconds :
            put' = [put EXCEPT ![r] = {Lease(u, lease_seconds(s), now + lease_seconds(s))}]
    BY DEF Register
  <1> DEFINE seconds == lease_seconds(s)
             new == Lease(u, seconds, now + seconds)
  <1>2. seconds \in MinLease..MaxLease /\ seconds \in Nat
    <2> DEFINE n == IF s < 0 THEN DefaultLease ELSE s
    <2>1. /\ n \in Int /\ MinLease \in Int /\ MaxLease \in Int /\ MinLease <= MaxLease
          /\ MinLease >= 1
      BY LeaseAssumption
    <2> HIDE DEF n
    <2>3. Clamp(n, MinLease, MaxLease) \in MinLease..MaxLease
      BY <2>1, Clamped
    <2>2. seconds \in MinLease..MaxLease
      BY <2>3 DEF lease_seconds, n
    <2> QED
      BY <2>1, <2>2
  <1>3. clock \in Nat /\ now \in clock..clock + MaxOffset /\ MaxOffset \in Nat
    BY ReadNow, LeaseAssumption
  <1>4. UNCHANGED <<clock, lease, receiver, advertiser, cached, history, faults>>
    BY DEF Register
  <1>5. \A q \in Requests : put'[q] = IF q = r THEN {new} ELSE put[q]
    BY <1>1 DEF LeaseInv, TypeOK
  <1>6. /\ new.uuid \in Uuids /\ new.at = clock /\ new.seconds \in MinLease..MaxLease
        /\ new.until = new.at + new.seconds /\ new.expires \in new.until..new.until + MaxOffset
    <2> HIDE DEF seconds
    <2> QED
      BY <1>2, <1>3 DEF Lease
  <1> HIDE DEF new
  <1>7. TypeOK'
    <2>1. \A q \in Requests : \A l \in put'[q] :
              /\ l.uuid \in Uuids /\ l.at \in Nat /\ l.seconds \in MinLease..MaxLease
              /\ l.until = l.at + l.seconds /\ l.expires \in l.until..l.until + MaxOffset
      BY <1>3, <1>5, <1>6 DEF LeaseInv, TypeOK
    <2>2. DOMAIN put' = Requests
      BY <1>1 DEF LeaseInv, TypeOK
    <2> QED
      BY <2>1, <2>2, <1>4 DEF LeaseInv, TypeOK, receiver, advertiser, history
  <1>8. Readings' \subseteq Readings \cup {clock}
    BY <1>4, <1>5, <1>6, ReadingsOf, ReadingsOfNext DEF IsReading, receiver, advertiser
  <1>9. ReadingsAreRecent'
    BY <1>3, <1>4, <1>8, LeaseAssumption DEF LeaseInv, ReadingsAreRecent
  <1>10. LeaseIsGranted' /\ MessagesEndWithLease' /\ CachedNotBeyondLease'
    BY <1>4 DEF LeaseInv, LeaseIsGranted, MessagesEndWithLease, CachedNotBeyondLease,
                receiver, advertiser, history
  <1> QED
    BY <1>7, <1>9, <1>10 DEF LeaseInv

\* The registration that is stored was made up no earlier than Delay ago.
LEMMA StoredLease ==
    ASSUME LeaseInv, NEW r \in Requests, NEW l \in put[r]
    PROVE  /\ l.uuid \in Uuids /\ l.seconds \in MinLease..MaxLease
           /\ l.seconds \in Nat /\ l.until \in Nat
           /\ l.expires \in l.until..l.until + MaxOffset
           /\ l.until <= clock + l.seconds
           /\ clock + l.seconds <= l.until + Delay
  <1>1. /\ l.uuid \in Uuids /\ l.seconds \in MinLease..MaxLease /\ l.at \in Nat
        /\ l.until = l.at + l.seconds /\ l.expires \in l.until..l.until + MaxOffset
    BY DEF LeaseInv, TypeOK
  <1>2. l.at <= clock /\ clock <= l.at + Delay
    BY ReadingsOf DEF LeaseInv, ReadingsAreRecent, IsReading
  <1>3. l.seconds \in Nat /\ Delay \in Nat /\ clock \in Nat
    BY <1>1, LeaseAssumption DEF LeaseInv, TypeOK
  <1> QED
    BY <1>1, <1>2, <1>3

\* The history of an identity only grows.
LEMMA GrantedGrows ==
    ASSUME LeaseInv, NEW r \in Requests, Store(r)
    PROVE  /\ granted' \in [Uuids -> Nat]
           /\ \A u \in Uuids : granted[u] <= granted'[u]
           /\ \A k \in lease' : k.until <= granted'[k.uuid]
  <1>1. PICK l \in put[r] :
            /\ lease' = {[uuid |-> l.uuid, seconds |-> l.seconds, until |-> l.until, expires |-> l.expires]}
            /\ granted' = [granted EXCEPT ![l.uuid] = Max({@, l.until})]
    BY DEF Store
  <1>2. l.uuid \in Uuids /\ l.until \in Nat
    BY StoredLease
  <1>3. granted \in [Uuids -> Nat]
    BY DEF LeaseInv, TypeOK
  <1> DEFINE most == Max({granted[l.uuid], l.until})
  <1>4. most \in Nat /\ granted[l.uuid] <= most /\ l.until <= most
    <2>1. granted[l.uuid] \in Int /\ l.until \in Int /\ granted[l.uuid] \in Nat
      BY <1>2, <1>3
    <2>2. /\ most \in {granted[l.uuid], l.until}
          /\ most >= granted[l.uuid] /\ most >= l.until
      BY <2>1, MaxOfTwo
    <2> HIDE DEF most
    <2> QED
      BY <1>2, <2>1, <2>2
  <1>5. granted' = [granted EXCEPT ![l.uuid] = most]
    BY <1>1
  <1> HIDE DEF most
  <1> QED
    BY <1>1, <1>2, <1>3, <1>4, <1>5

\* The registration that is stored, from a reading no older than Delay.
LEMMA StoreStep ==
    ASSUME LeaseInv, NEW r \in Requests, Store(r)
    PROVE  LeaseInv'
  <1>1. PICK l \in put[r] :
            lease' = {[uuid |-> l.uuid, seconds |-> l.seconds, until |-> l.until, expires |-> l.expires]}
    BY DEF Store
  <1>2. /\ put' = [put EXCEPT ![r] = {}] /\ late' \in BOOLEAN
        /\ UNCHANGED <<clock, receiver, advertiser, cached, faults>>
    BY DEF Store, LeaseInv, TypeOK
  <1>3. /\ l.uuid \in Uuids /\ l.seconds \in MinLease..MaxLease /\ l.until \in Nat
        /\ l.expires \in l.until..l.until + MaxOffset /\ l.until <= clock + l.seconds
    BY StoredLease
  <1>4. \A q \in Requests : put'[q] = IF q = r THEN {} ELSE put[q]
    BY <1>2 DEF LeaseInv, TypeOK
  <1>5. TypeOK'
    BY <1>1, <1>2, <1>3, <1>4, GrantedGrows
       DEF LeaseInv, TypeOK, receiver, advertiser
  <1>6. ReadingsAreRecent'
    <2>1. Readings' \subseteq Readings
      BY <1>2, <1>4, ReadingsOf, ReadingsOfNext DEF IsReading, receiver, advertiser
    <2> QED
      BY <1>2, <2>1 DEF LeaseInv, ReadingsAreRecent
  <1>7. LeaseIsGranted'
    BY <1>1, <1>2, <1>3, GrantedGrows DEF LeaseIsGranted
  <1>8. MessagesEndWithLease'
    <2> SUFFICES ASSUME NEW m \in reply \cup notify
                 PROVE  m.at + m.maxAge <= granted'[m.uuid] + MaxOffset
      BY <1>2 DEF MessagesEndWithLease, receiver, advertiser
    <2>1. m.uuid \in Uuids /\ m.at + m.maxAge <= granted[m.uuid] + MaxOffset
      BY DEF LeaseInv, TypeOK, MessagesEndWithLease
    <2>2. m.at \in Nat /\ m.maxAge \in 1..CacheLimit
      BY DEF LeaseInv, TypeOK
    <2>3. granted[m.uuid] \in Nat /\ granted'[m.uuid] \in Nat /\ granted[m.uuid] <= granted'[m.uuid]
      BY <2>1, GrantedGrows DEF LeaseInv, TypeOK
    <2> QED
      BY <2>1, <2>2, <2>3, LeaseAssumption
  <1>9. CachedNotBeyondLease'
    <2> SUFFICES ASSUME NEW u \in Uuids
                 PROVE  cached[u] <= granted'[u] + Delay + MaxOffset
      BY <1>2 DEF CachedNotBeyondLease
    <2>1. cached[u] \in Nat /\ granted[u] \in Nat /\ granted'[u] \in Nat /\ granted[u] <= granted'[u]
      BY GrantedGrows DEF LeaseInv, TypeOK
    <2> QED
      BY <2>1, LeaseAssumption DEF LeaseInv, CachedNotBeyondLease
  <1> QED
    BY <1>5, <1>6, <1>7, <1>8, <1>9 DEF LeaseInv

\* A search reply begins with the clock as it is.
LEMMA SearchStep == ASSUME LeaseInv, Search PROVE LeaseInv'
  <1>1. PICK now \in unix_seconds : asked' = {[at |-> clock, now |-> now]}
    BY DEF Search
  <1>2. UNCHANGED <<clock, lease, put, reply, advertiser, cached, history, faults>>
    BY DEF Search
  <1>3. /\ clock \in Nat /\ Delay \in Nat
        /\ \A t \in asked' : t.at = clock /\ IsTime(t)
    BY <1>1, ReadNow, LeaseAssumption
  <1>4. TypeOK'
    BY <1>2, <1>3 DEF LeaseInv, TypeOK, IsTime, advertiser, history
  <1>5. Readings' \subseteq Readings \cup {clock}
    BY <1>2, <1>3, ReadingsOf, ReadingsOfNext DEF IsReading, advertiser
  <1>6. ReadingsAreRecent'
    BY <1>2, <1>3, <1>5 DEF LeaseInv, ReadingsAreRecent
  <1>7. LeaseIsGranted' /\ MessagesEndWithLease' /\ CachedNotBeyondLease'
    BY <1>2 DEF LeaseInv, LeaseIsGranted, MessagesEndWithLease, CachedNotBeyondLease,
                advertiser, history
  <1> QED
    BY <1>4, <1>6, <1>7 DEF LeaseInv

\* The reply is made from the lease as it is now, if that has not ended.
LEMMA RespondStep == ASSUME LeaseInv, Respond PROVE LeaseInv'
  <1>1. PICK t \in asked : reply' \in {Messages(t), {}}
    BY DEF Respond
  <1>2. /\ asked' = {}
        /\ UNCHANGED <<clock, lease, put, advertiser, cached, history, faults>>
    BY DEF Respond
  <1>3. IsTime(t) /\ t.at \in Nat /\ t.at \in Readings
    BY ReadingsOf DEF LeaseInv, TypeOK, IsReading, IsTime
  <1>4. \A m \in reply' : /\ m.uuid \in Uuids /\ m.maxAge \in 1..CacheLimit /\ m.at = t.at
                          /\ m.at + m.maxAge <= granted[m.uuid] + MaxOffset
    BY <1>1, <1>3, NewMessages
  <1>5. TypeOK'
    BY <1>2, <1>3, <1>4 DEF LeaseInv, TypeOK, advertiser, history
  <1>6. Readings' \subseteq Readings
    BY <1>2, <1>3, <1>4, ReadingsOf, ReadingsOfNext DEF IsReading, advertiser
  <1>7. ReadingsAreRecent'
    BY <1>2, <1>6 DEF LeaseInv, ReadingsAreRecent
  <1>8. MessagesEndWithLease'
    BY <1>2, <1>4 DEF LeaseInv, MessagesEndWithLease, advertiser, history
  <1>9. LeaseIsGranted' /\ CachedNotBeyondLease'
    BY <1>2 DEF LeaseInv, LeaseIsGranted, CachedNotBeyondLease, history
  <1> QED
    BY <1>5, <1>7, <1>8, <1>9 DEF LeaseInv

\* A message that goes to the control point changes only what it remembers.
LEMMA RememberStep ==
    ASSUME LeaseInv, NEW m \in reply \cup notify, Remember(m) \/ UNCHANGED cached
    PROVE  /\ cached' \in [Uuids -> Nat]
           /\ \A u \in Uuids : cached'[u] <= granted[u] + Delay + MaxOffset
  <1>1. cached \in [Uuids -> Nat] /\ \A u \in Uuids : cached[u] <= granted[u] + Delay + MaxOffset
    BY DEF LeaseInv, TypeOK, CachedNotBeyondLease
  <1>2. CASE Remember(m)
    BY <1>1, <1>2, RememberedInTime DEF Remember
  <1>3. CASE UNCHANGED cached
    BY <1>1, <1>3
  <1> QED
    BY <1>2, <1>3

\* The reply arrives while its reading is recent.
LEMMA ReplySendStep == ASSUME LeaseInv, ReplySend PROVE LeaseInv'
  <1>1. PICK m \in reply : Remember(m) \/ UNCHANGED cached
    BY DEF ReplySend
  <1>2. /\ reply' = {}
        /\ UNCHANGED <<clock, lease, put, asked, advertiser, history, faults>>
    BY DEF ReplySend
  <1>3. /\ cached' \in [Uuids -> Nat]
        /\ \A u \in Uuids : cached'[u] <= granted[u] + Delay + MaxOffset
    BY <1>1, RememberStep
  <1>4. TypeOK'
    BY <1>2, <1>3 DEF LeaseInv, TypeOK, advertiser, history
  <1>5. Readings' \subseteq Readings
    BY <1>2, ReadingsOf, ReadingsOfNext DEF IsReading, advertiser
  <1>6. ReadingsAreRecent'
    BY <1>2, <1>5 DEF LeaseInv, ReadingsAreRecent
  <1>7. LeaseIsGranted' /\ MessagesEndWithLease' /\ CachedNotBeyondLease'
    BY <1>2, <1>3 DEF LeaseInv, LeaseIsGranted, MessagesEndWithLease, CachedNotBeyondLease,
                      advertiser, history
  <1> QED
    BY <1>4, <1>6, <1>7 DEF LeaseInv

\* An announcement begins with the clock and the lease as they are.
LEMMA AdvertiseStep == ASSUME LeaseInv, Advertise PROVE LeaseInv'
  <1>1. PICK now \in unix_seconds : notify' = Messages([at |-> clock, now |-> now])
    BY DEF Advertise
  <1>2. UNCHANGED <<clock, lease, put, receiver, cached, history, faults>>
    BY DEF Advertise
  <1>3. /\ clock \in Nat /\ Delay \in Nat /\ Period \in Nat /\ due' \in {clock + Period, due}
        /\ IsTime([at |-> clock, now |-> now])
    BY ReadNow, LeaseAssumption DEF Advertise
  <1>4. \A m \in notify' : /\ m.uuid \in Uuids /\ m.maxAge \in 1..CacheLimit /\ m.at = clock
                           /\ m.at + m.maxAge <= granted[m.uuid] + MaxOffset
    BY <1>1, <1>3, NewMessages
  <1>5. TypeOK'
    BY <1>1, <1>2, <1>3, <1>4 DEF LeaseInv, TypeOK, receiver, history
  <1>6. Readings' \subseteq Readings \cup {clock}
    BY <1>2, <1>4, ReadingsOf, ReadingsOfNext DEF IsReading, receiver
  <1>7. ReadingsAreRecent'
    BY <1>2, <1>3, <1>6 DEF LeaseInv, ReadingsAreRecent
  <1>8. MessagesEndWithLease'
    BY <1>2, <1>4 DEF LeaseInv, MessagesEndWithLease, receiver, history
  <1>9. LeaseIsGranted' /\ CachedNotBeyondLease'
    BY <1>2 DEF LeaseInv, LeaseIsGranted, CachedNotBeyondLease, history
  <1> QED
    BY <1>5, <1>7, <1>8, <1>9 DEF LeaseInv

\* The announcement arrives, or is lost.
LEMMA NotifySendStep == ASSUME LeaseInv, NotifySend PROVE LeaseInv'
  <1>1. PICK m \in notify : Remember(m) \/ UNCHANGED cached
    BY DEF NotifySend
  <1>2. /\ notify' = {} /\ due' = clock + Period
        /\ UNCHANGED <<clock, lease, put, receiver, history>>
    BY DEF NotifySend
  <1>3. faults' \in 0..MaxFaults
    BY LeaseAssumption DEF NotifySend, LeaseInv, TypeOK
  <1>4. /\ cached' \in [Uuids -> Nat]
        /\ \A u \in Uuids : cached'[u] <= granted[u] + Delay + MaxOffset
    BY <1>1, RememberStep
  <1>5. clock \in Nat /\ Period \in Nat
    BY LeaseAssumption DEF LeaseInv, TypeOK
  <1>6. TypeOK'
    BY <1>2, <1>3, <1>4, <1>5 DEF LeaseInv, TypeOK, receiver, history
  <1>7. Readings' \subseteq Readings
    BY <1>2, ReadingsOf, ReadingsOfNext DEF IsReading, receiver
  <1>8. ReadingsAreRecent'
    BY <1>2, <1>7 DEF LeaseInv, ReadingsAreRecent
  <1>9. LeaseIsGranted' /\ MessagesEndWithLease' /\ CachedNotBeyondLease'
    BY <1>2, <1>4 DEF LeaseInv, LeaseIsGranted, MessagesEndWithLease, CachedNotBeyondLease,
                      receiver, history
  <1> QED
    BY <1>6, <1>8, <1>9 DEF LeaseInv

\* Time passes only as far as every reading may age.
LEMMA TickStep == ASSUME LeaseInv, Tick PROVE LeaseInv'
  <1>1. /\ clock' = clock + 1 /\ clock < MaxTime /\ late' \in BOOLEAN
        /\ UNCHANGED <<lease, put, receiver, advertiser, cached, granted, faults>>
    BY DEF Tick, LeaseInv, TypeOK
  <1>2. clock \in Nat /\ clock' \in 0..MaxTime /\ Period \in Nat /\ Delay \in Nat
    BY <1>1, LeaseAssumption DEF LeaseInv, TypeOK
  <1>3. TypeOK'
    BY <1>1, <1>2 DEF LeaseInv, TypeOK, receiver, advertiser
  <1>4. ReadingsAreRecent'
    <2> SUFFICES ASSUME NEW t \in Readings
                 PROVE  t <= clock + 1 /\ clock + 1 <= t + Delay
      BY <1>1 DEF ReadingsAreRecent, Readings, receiver, advertiser
    <2>1. t <= clock /\ clock < t + Delay
      BY DEF LeaseInv, ReadingsAreRecent, Tick
    <2>2. t \in Nat
      <3>1. IsReading(t)
        BY ReadingsOf
      <3> QED
        BY <3>1 DEF IsReading, LeaseInv, TypeOK
    <2> QED
      BY <1>2, <2>1, <2>2
  <1>5. LeaseIsGranted'
    <2> SUFFICES ASSUME NEW l \in lease
                 PROVE  l.until <= clock + 1 + l.seconds
      BY <1>1 DEF LeaseInv, LeaseIsGranted
    <2>1. l.until \in Nat /\ l.seconds \in MinLease..MaxLease /\ l.until <= clock + l.seconds
      BY DEF LeaseInv, LeaseIsGranted, TypeOK
    <2> QED
      BY <1>2, <2>1, LeaseAssumption
  <1>6. MessagesEndWithLease' /\ CachedNotBeyondLease'
    BY <1>1 DEF LeaseInv, MessagesEndWithLease, CachedNotBeyondLease, receiver, advertiser
  <1> QED
    BY <1>3, <1>4, <1>5, <1>6 DEF LeaseInv

\* A restart forgets the lease and what was under way, not what was announced.
LEMMA RestartStep == ASSUME LeaseInv, Restart PROVE LeaseInv'
  <1>1. /\ lease' = {} /\ put' = [r \in Requests |-> {}] /\ asked' = {} /\ reply' = {}
        /\ notify' = {} /\ due' = clock
        /\ UNCHANGED <<clock, cached, history>>
    BY DEF Restart
  <1>2. clock \in Nat /\ Period \in Nat /\ faults' \in 0..MaxFaults
    BY LeaseAssumption DEF LeaseInv, TypeOK, Restart
  <1>3. TypeOK'
    BY <1>1, <1>2 DEF LeaseInv, TypeOK, history
  <1>4. ReadingsAreRecent'
    BY <1>1, ReadingsOfNext DEF ReadingsAreRecent, IsReading
  <1>5. LeaseIsGranted' /\ MessagesEndWithLease' /\ CachedNotBeyondLease'
    BY <1>1 DEF LeaseInv, LeaseIsGranted, MessagesEndWithLease, CachedNotBeyondLease, history
  <1> QED
    BY <1>3, <1>4, <1>5 DEF LeaseInv

-----------------------------------------------------------------------------
(* The theorems.                                                           *)

\* At the start nobody was told anything.
LEMMA InitSound == Init => LeaseInv
  <1> SUFFICES ASSUME Init
               PROVE  LeaseInv
    OBVIOUS
  <1>1. TypeOK
    <2>1. clock \in 0..MaxTime /\ due \in 0..clock + Period
      BY LeaseAssumption DEF Init
    <2>2. faults \in 0..MaxFaults
      <3>1. MaxFaults \in Nat
        BY LeaseAssumption
      <3> QED
        BY <3>1 DEF Init
    <2>3. cached \in [Uuids -> Nat] /\ granted \in [Uuids -> Nat]
      BY DEF Init
    <2> QED
      BY <2>1, <2>2, <2>3 DEF Init, TypeOK
  <1>2. ReadingsAreRecent
    BY ReadingsOf DEF Init, ReadingsAreRecent, IsReading
  <1>3. LeaseIsGranted /\ MessagesEndWithLease
    BY DEF Init, LeaseIsGranted, MessagesEndWithLease
  <1>4. CachedNotBeyondLease
    BY LeaseAssumption DEF Init, CachedNotBeyondLease
  <1> QED
    BY <1>1, <1>2, <1>3, <1>4 DEF LeaseInv

\* Every step keeps the invariant.
LEMMA InvStep == LeaseInv /\ [Next]_vars => LeaseInv'
  <1> SUFFICES ASSUME LeaseInv, [Next]_vars
               PROVE  LeaseInv'
    OBVIOUS
  <1>1. CASE UNCHANGED vars
    BY <1>1 DEF LeaseInv, TypeOK, ReadingsAreRecent, Readings, LeaseIsGranted,
                MessagesEndWithLease, CachedNotBeyondLease,
                vars, receiver, advertiser, history
  <1> QED
    BY <1>1, RegisterStep, StoreStep, SearchStep, RespondStep, ReplySendStep, AdvertiseStep,
       NotifySendStep, TickStep, RestartStep DEF Next

\* However requests, searches and announcements interleave, whatever clock
\* readings they use and however the clock is set, no control point remembers a
\* server longer than a lease it was granted, but for Delay and MaxOffset.
THEOREM LeasesSafe == Spec => []LeaseInv
  <1> QED
    BY InitSound, InvStep, PTL DEF Spec

\* A registration that overtook another is replaced by one that ends at most
\* Delay and MaxOffset earlier, unless it asked for less.
THEOREM RenewalStays == Spec => RenewalNotUndone
  <1> DEFINE NotUndone == \A old \in lease, new \in lease' :
                              new.uuid = old.uuid /\ new.seconds >= old.seconds
                                  => new.expires >= old.expires - Delay - MaxOffset
  <1>1. LeaseInv /\ [Next]_vars => [NotUndone]_vars
    <2> SUFFICES ASSUME LeaseInv, Next,
                        NEW old \in lease, NEW new \in lease', new.seconds >= old.seconds
                 PROVE  new.expires >= old.expires - Delay - MaxOffset
      OBVIOUS
    <2>1. /\ old.expires \in Nat /\ old.seconds \in Nat
          /\ old.expires <= clock + old.seconds + MaxOffset
      BY LeaseAssumption DEF LeaseInv, TypeOK, LeaseIsGranted
    <2>2. clock \in Nat /\ Delay \in Nat /\ MaxOffset \in Nat
      BY LeaseAssumption DEF LeaseInv, TypeOK
    <2>3. ASSUME NEW r \in Requests, Store(r)
          PROVE  new.expires >= old.expires - Delay - MaxOffset
      <3>1. PICK l \in put[r] :
                lease' = {[uuid |-> l.uuid, seconds |-> l.seconds, until |-> l.until, expires |-> l.expires]}
        BY <2>3 DEF Store
      <3>2. new.seconds = l.seconds /\ new.expires = l.expires
        BY <3>1
      <3>3. /\ l.seconds \in Nat /\ l.until \in Nat /\ clock + l.seconds <= l.until + Delay
            /\ l.expires \in l.until..l.until + MaxOffset
        BY StoredLease
      <3> QED
        BY <2>1, <2>2, <3>2, <3>3
    <2>4. CASE lease' \subseteq lease
      <3>1. new = old
        BY <2>4 DEF LeaseInv, LeaseIsGranted
      <3> QED
        BY <2>1, <2>2, <3>1
    <2>5. (\E r \in Requests : Store(r)) \/ lease' \subseteq lease
      BY DEF Next, Register, Search, Respond, ReplySend, Advertise, NotifySend, Tick, Restart
    <2> QED
      BY <2>3, <2>4, <2>5
  <1> QED
    BY <1>1, LeasesSafe, PTL DEF Spec, RenewalNotUndone

-----------------------------------------------------------------------------
(* What a control point remembers reaches to the next announcement, with   *)
(* the margins of RenewalsFit.                                             *)

\* Airwave renews early enough for one period, one late reading and the clock
\* being set forward, and the cache time is long enough for the first two; and
\* it registers one identity.
RenewalsFit ==
    /\ RenewMargin >= Period + Delay + MaxOffset /\ CacheLimit >= Period + Delay
    /\ \A u, v \in Uuids : u = v

\* Nothing has gone wrong that StaysDiscoverable excepts.
Calm == ~late /\ faults = 0

\* Why nothing is forgotten: the lease is always renewed with RenewMargin
\* left, so every message, made by whatever clock, is good for a period and a
\* delay, which is the latest its successor comes.
RememberedUntilDue ==
    /\ clock <= due + Delay
    /\ Calm =>
        /\ lease = {} => reply = {} /\ notify = {} /\ \A u \in Uuids : cached[u] = 0
        /\ \A l \in lease : l.until >= clock + RenewMargin
        /\ \A m \in reply \cup notify : m.maxAge >= Period + Delay
        /\ \A l \in lease : cached[l.uuid] # 0 => cached[l.uuid] >= due + Delay

\* The numbers the steps below calculate with.
LEMMA Numbers ==
    ASSUME LeaseInv
    PROVE  /\ {clock, due, Delay, RenewMargin, MaxOffset, Period, CacheLimit} \subseteq Nat
           /\ Period >= 1 /\ due <= clock + Period
           /\ \A u \in Uuids : cached[u] \in Nat
           /\ \A l \in lease : l.until \in Nat /\ l.uuid \in Uuids
           /\ \A m \in reply \cup notify : m.maxAge \in Nat /\ m.uuid \in Uuids
  <1>1. {clock, Delay, RenewMargin, MaxOffset, Period, CacheLimit} \subseteq Nat /\ Period >= 1
    BY LeaseAssumption DEF LeaseInv, TypeOK
  <1>2. due \in Nat /\ due <= clock + Period
    BY <1>1 DEF LeaseInv, TypeOK
  <1>3. \A u \in Uuids : cached[u] \in Nat
    BY DEF LeaseInv, TypeOK
  <1>4. \A l \in lease : l.until \in Nat /\ l.uuid \in Uuids
    BY DEF LeaseInv, TypeOK
  <1>5. \A m \in reply \cup notify : m.maxAge \in Nat /\ m.uuid \in Uuids
    BY <1>1 DEF LeaseInv, TypeOK
  <1> QED
    BY <1>1, <1>2, <1>3, <1>4, <1>5

\* While all is calm, a message made from a lease is good for long enough.
LEMMA MessageLastsLong ==
    ASSUME RenewalsFit, LeaseInv, RememberedUntilDue, Calm,
           NEW t, IsTime(t), t.at <= clock, NEW m \in Messages(t)
    PROVE  m.maxAge >= Period + Delay /\ lease # {}
  <1>1. PICK l \in lease : /\ m.maxAge \in 1..CacheLimit
                           /\ m.maxAge >= l.until - t.at - MaxOffset \/ m.maxAge = CacheLimit
    BY MessageSaid DEF LeaseInv
  <1>2. l.until >= clock + RenewMargin /\ l.until \in Nat
    BY Numbers DEF RememberedUntilDue
  <1>3. CASE m.maxAge >= l.until - t.at - MaxOffset
    BY <1>1, <1>2, <1>3, Numbers DEF RenewalsFit, IsTime
  <1>4. CASE m.maxAge = CacheLimit
    BY <1>4 DEF RenewalsFit
  <1> QED
    BY <1>1, <1>3, <1>4

\* While all is calm, there is something to announce, whatever the clock says.
LEMMA SomethingToAnnounce ==
    ASSUME RenewalsFit, LeaseInv, RememberedUntilDue, Calm, lease # {},
           NEW t, IsTime(t), t.at = clock
    PROVE  Messages(t) # {}
  <1>1. PICK l \in lease : TRUE
    OBVIOUS
  <1>2. l.until >= clock + RenewMargin /\ l.expires \in l.until..l.until + MaxOffset
    BY DEF RememberedUntilDue, LeaseInv, TypeOK
  <1>3. l.expires > t.now
    BY <1>2, Numbers DEF RenewalsFit, IsTime
  <1> QED
    BY <1>3 DEF Messages, Active

\* Nothing that went wrong is forgotten.
LEMMA CalmBefore == LeaseInv /\ [Next]_vars /\ Calm' => Calm
  <1> SUFFICES ASSUME LeaseInv, [Next]_vars, Calm'
               PROVE  Calm
    OBVIOUS
  <1>1. late \in BOOLEAN /\ faults \in Nat
    BY LeaseAssumption DEF LeaseInv, TypeOK
  <1>2. CASE \E r \in Requests : Register(r)
    BY <1>2 DEF Register, history, Calm
  <1>3. CASE \E r \in Requests : Store(r)
    BY <1>3 DEF Store, Calm
  <1>4. CASE Search
    BY <1>4 DEF Search, history, Calm
  <1>5. CASE Respond
    BY <1>5 DEF Respond, history, Calm
  <1>6. CASE ReplySend
    BY <1>6 DEF ReplySend, history, Calm
  <1>7. CASE Advertise
    BY <1>7 DEF Advertise, history, Calm
  <1>8. CASE NotifySend
    BY <1>1, <1>8 DEF NotifySend, history, Calm
  <1>9. CASE Tick
    BY <1>9 DEF Tick, Calm
  <1>10. CASE Restart
    BY <1>1, <1>10 DEF Restart, history, Calm
  <1>11. CASE UNCHANGED vars
    BY <1>11 DEF vars, history, Calm
  <1> QED
    BY <1>2, <1>3, <1>4, <1>5, <1>6, <1>7, <1>8, <1>9, <1>10, <1>11 DEF Next

\* A message that arrives is remembered until the next one is due.
LEMMA RememberedLong ==
    ASSUME RenewalsFit, LeaseInv, RememberedUntilDue, Calm,
           NEW m \in reply \cup notify, Remember(m)
    PROVE  \A u \in Uuids : cached'[u] >= clock + Period + Delay
  <1> SUFFICES ASSUME NEW u \in Uuids
               PROVE  cached'[u] >= clock + Period + Delay
    OBVIOUS
  <1>1. m.uuid = u
    BY Numbers DEF RenewalsFit
  <1>2. cached' = [cached EXCEPT ![m.uuid] = clock + m.maxAge] /\ cached \in [Uuids -> Nat]
    BY DEF Remember, LeaseInv, TypeOK
  <1>3. cached'[u] = clock + m.maxAge
    BY <1>1, <1>2
  <1>4. m.maxAge >= Period + Delay /\ m.maxAge \in Nat
    BY Numbers DEF RememberedUntilDue
  <1> QED
    BY <1>3, <1>4, Numbers

\* While all is calm, who remembers the server does so until the next word.
LEMMA DueStep ==
    ASSUME RenewalsFit, LeaseInv, RememberedUntilDue, [Next]_vars
    PROVE  RememberedUntilDue'
  <1> USE DEF receiver, advertiser, history
  <1>1. CASE \E r \in Requests : Register(r)
    BY <1>1 DEF Register, RememberedUntilDue, Calm
  <1>2. ASSUME NEW r \in Requests, Store(r)
        PROVE  RememberedUntilDue'
    <2>1. PICK l \in put[r] :
              /\ lease' = {[uuid |-> l.uuid, seconds |-> l.seconds, until |-> l.until, expires |-> l.expires]}
              /\ late' = (late \/ l.until <= clock + RenewMargin)
      BY <1>2 DEF Store
    <2>2. UNCHANGED <<clock, receiver, advertiser, cached, faults>>
      BY <1>2 DEF Store
    <2>3. l.uuid \in Uuids /\ l.until \in Nat
      BY StoredLease
    <2>4. ASSUME Calm'
          PROVE  /\ l.until >= clock + RenewMargin
                 /\ cached[l.uuid] # 0 => cached[l.uuid] >= due + Delay
      <3>1. Calm /\ l.until >= clock + RenewMargin
        <4>1. ~late' /\ (late' = (late \/ l.until <= clock + RenewMargin))
          BY <2>1, <2>4 DEF Calm
        <4>2. ~late /\ ~(l.until <= clock + RenewMargin)
          BY <4>1, Zenon
        <4> QED
          BY <2>2, <2>3, <2>4, <4>2, Numbers DEF Calm
      <3>2. CASE lease = {}
        BY <2>3, <3>1, <3>2 DEF RememberedUntilDue
      <3>3. CASE lease # {}
        <4>1. PICK k \in lease : TRUE
          BY <3>3
        <4>2. k.uuid = l.uuid
          BY <2>3, Numbers DEF RenewalsFit
        <4> QED
          BY <3>1, <4>2 DEF RememberedUntilDue
      <3> QED
        BY <3>1, <3>2, <3>3
    <2>5. Calm' => Calm
      BY <1>2, CalmBefore DEF Next
    <2>6. lease' # {} /\ \A k \in lease' : k.uuid = l.uuid /\ k.until = l.until
      BY <2>1
    <2>7. clock' = clock /\ due' = due /\ cached' = cached /\ reply' = reply /\ notify' = notify
      BY <2>2
    <2> QED
      BY <2>4, <2>5, <2>6, <2>7 DEF RememberedUntilDue
  <1>3. CASE Search
    BY <1>3 DEF Search, RememberedUntilDue, Calm
  <1>4. CASE Respond
    <2>1. PICK t \in asked : reply' \in {Messages(t), {}}
      BY <1>4 DEF Respond
    <2>2. UNCHANGED <<clock, lease, advertiser, cached, history, faults>>
      BY <1>4 DEF Respond
    <2>3. IsTime(t) /\ t.at <= clock
      BY ReadingsOf DEF LeaseInv, TypeOK, ReadingsAreRecent, IsReading, IsTime
    <2>4. Calm => \A m \in reply' : m.maxAge >= Period + Delay /\ lease # {}
      BY <2>1, <2>3, MessageLastsLong
    <2> QED
      BY <2>2, <2>4 DEF RememberedUntilDue, Calm
  <1>5. CASE ReplySend
    <2>1. PICK m \in reply : Remember(m) \/ UNCHANGED cached
      BY <1>5 DEF ReplySend
    <2>2. reply' = {} /\ UNCHANGED <<clock, lease, advertiser, history, faults>>
      BY <1>5 DEF ReplySend
    <2>3. CASE Remember(m)
      <3>1. Calm => \A u \in Uuids : cached'[u] >= clock + Period + Delay
        BY <2>3, RememberedLong
      <3>2. \A u \in Uuids : cached'[u] \in Nat
        BY <2>1, RememberStep
      <3>3. Calm => \A u \in Uuids : cached'[u] >= due + Delay
        BY <3>1, <3>2, Numbers
      <3> QED
        BY <2>2, <3>3, Numbers DEF RememberedUntilDue, Calm
    <2>4. CASE UNCHANGED cached
      BY <2>2, <2>4 DEF RememberedUntilDue, Calm
    <2> QED
      BY <2>1, <2>3, <2>4
  <1>6. CASE Advertise
    <2>1. PICK now \in unix_seconds : notify' = Messages([at |-> clock, now |-> now])
      BY <1>6 DEF Advertise
    <2>2. UNCHANGED <<clock, lease, receiver, cached, history, faults>>
      BY <1>6 DEF Advertise
    <2>3. Calm => \A m \in notify' : m.maxAge >= Period + Delay /\ lease # {}
      BY <2>1, Numbers, ReadNow, MessageLastsLong
    <2>4. Calm /\ lease # {} => due' = due
      BY <1>6, <2>1, ReadNow, SomethingToAnnounce DEF Advertise
    <2>5. clock <= due' + Delay
      BY <1>6, Numbers DEF RememberedUntilDue, Advertise
    <2> QED
      BY <2>2, <2>3, <2>4, <2>5 DEF RememberedUntilDue, Calm
  <1>7. CASE NotifySend
    <2>1. PICK m \in notify : \/ Remember(m) /\ UNCHANGED faults
                              \/ faults' = faults + 1
      BY <1>7 DEF NotifySend
    <2>2. notify' = {} /\ due' = clock + Period /\ UNCHANGED <<clock, lease, receiver, history>>
      BY <1>7 DEF NotifySend
    <2>3. clock <= due' + Delay
      BY <2>2, Numbers
    <2>4. CASE Remember(m) /\ UNCHANGED faults
      <3>1. Calm => \A u \in Uuids : cached'[u] >= due' + Delay
        BY <2>2, <2>4, RememberedLong
      <3> QED
        BY <2>2, <2>3, <2>4, <3>1, Numbers DEF RememberedUntilDue, Calm
    <2>5. CASE faults' = faults + 1
      <3>1. faults \in Nat
        BY LeaseAssumption DEF LeaseInv, TypeOK
      <3> QED
        BY <2>2, <2>3, <2>5, <3>1 DEF RememberedUntilDue, Calm
    <2> QED
      BY <2>1, <2>4, <2>5
  <1>8. CASE Tick
    <2>1. /\ clock' = clock + 1 /\ clock < due + Delay
          /\ late' = (late \/ \E l \in lease : l.until <= clock + RenewMargin)
          /\ UNCHANGED <<lease, receiver, advertiser, cached, faults>>
      BY <1>8 DEF Tick
    <2>2. clock' <= due + Delay
      BY <2>1, Numbers
    <2>3. Calm' => \A l \in lease : l.until >= clock' + RenewMargin
      <3> SUFFICES ASSUME Calm', NEW l \in lease
                   PROVE  l.until >= clock' + RenewMargin
        OBVIOUS
      <3>1. ~late' /\ (late' = (late \/ \E k \in lease : k.until <= clock + RenewMargin))
        BY <2>1 DEF Calm
      <3>2. ~(l.until <= clock + RenewMargin)
        BY <3>1, Zenon
      <3> QED
        BY <2>1, <3>2, Numbers
    <2>4. Calm' => Calm
      BY <1>8, CalmBefore DEF Next
    <2> QED
      BY <2>1, <2>2, <2>3, <2>4 DEF RememberedUntilDue
  <1>9. CASE Restart
    <2>1. faults' = faults + 1 /\ due' = clock /\ clock' = clock
      BY <1>9 DEF Restart
    <2>2. faults \in Nat
      BY LeaseAssumption DEF LeaseInv, TypeOK
    <2> QED
      BY <2>1, <2>2, Numbers DEF RememberedUntilDue, Calm
  <1>10. CASE UNCHANGED vars
    BY <1>10 DEF vars, RememberedUntilDue, Calm
  <1> QED
    BY <1>1, <1>2, <1>3, <1>4, <1>5, <1>6, <1>7, <1>8, <1>9, <1>10 DEF Next

\* As long as Airwave renews in time, the service runs and announcements
\* arrive, a control point that has heard of the server never forgets it,
\* however the clock is set.
THEOREM Discoverable == ASSUME RenewalsFit PROVE Spec => []StaysDiscoverable
  <1>1. Init => RememberedUntilDue
    BY LeaseAssumption DEF Init, RememberedUntilDue
  <1>2. LeaseInv /\ RememberedUntilDue /\ [Next]_vars => RememberedUntilDue'
    BY DueStep
  <1>3. LeaseInv /\ RememberedUntilDue => StaysDiscoverable
    <2> SUFFICES ASSUME LeaseInv, RememberedUntilDue, Calm,
                        NEW l \in lease, cached[l.uuid] # 0
                 PROVE  cached[l.uuid] >= clock
      BY DEF StaysDiscoverable, Calm
    <2>1. cached[l.uuid] >= due + Delay /\ clock <= due + Delay
      BY DEF RememberedUntilDue
    <2>2. cached[l.uuid] \in Nat
      BY Numbers
    <2> QED
      BY <2>1, <2>2, Numbers
  <1> QED
    BY <1>1, <1>2, <1>3, LeasesSafe, PTL DEF Spec

=============================================================================
