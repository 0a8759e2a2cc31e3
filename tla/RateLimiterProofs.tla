-------------------------- MODULE RateLimiterProofs --------------------------
(***************************************************************************)
(* Proofs about RateLimiter, for any addresses, limit and window.          *)
(***************************************************************************)
EXTENDS RateLimiter, TLAPS

Entry == [at : Nat, expiration : Nat]

(* The requests let through by time t.  They are in order, a window is no  *)
(* longer than it should be, windows do not overlap, none has more than    *)
(* its quota, and the first request of each is the one that opened it.     *)
InTime(p, t) == \A i \in 1 .. Len(p) :
  /\ p[i].at <= t
  /\ p[i].at <= p[i].expiration
  /\ p[i].expiration <= p[i].at + Window

Disjoint(p) == \A i, j \in 1 .. Len(p) : i < j =>
  \/ p[i].expiration = p[j].expiration
  \/ p[i].expiration + Window < p[j].expiration

WithinQuota(p) == \A i, j \in 1 .. Len(p) :
  j = i + Quota => p[i].expiration # p[j].expiration

Opened(p) == \A i, j \in 1 .. Len(p) :
  /\ i = 1 => p[i].expiration = p[i].at + Window
  /\ j = i + 1 => \/ p[i].expiration = p[j].expiration
                  \/ p[j].expiration = p[j].at + Window

Log(p, t) == InTime(p, t) /\ Disjoint(p) /\ WithinQuota(p) /\ Opened(p)

(* The requests of the window in the map that were let through.            *)
Granted(d) == IF d.count < Quota THEN d.count ELSE Quota

(* How the map's entry d relates to them: without an entry all windows are *)
(* over, with one the last Granted(d) requests are those of its window.    *)
Over(p, t) == \A i \in 1 .. Len(p) : p[i].expiration < t

Current(p, d) ==
  /\ Granted(d) <= Len(p)
  /\ \A i \in 1 .. Len(p) :
       p[i].expiration = d.expiration <=> Len(p) - Granted(d) < i

Match(p, d, t) == IF d = NoData THEN Over(p, t) ELSE Current(p, d)

IInv ==
  /\ TypeOK
  /\ \A a \in Addresses : Log(passed[a], now) /\ Match(passed[a], ips[a], now)

(* What the proofs need to know of the quota.                              *)
LEMMA QuotaFacts ==
  /\ Quota \in Nat /\ Quota >= 1
  /\ MaxRequests > 1 => Quota = MaxRequests
  /\ MaxRequests <= 1 => Quota = 1
BY LimiterAssumption DEF Quota

(* An entry of the map is a record with a positive count.                  *)
LEMMA EntryFacts ==
  ASSUME NEW d \in RateLimitData
  PROVE  /\ d # NoData
         /\ d.count \in Nat /\ d.count >= 1 /\ d.expiration \in Nat
         /\ Granted(d) \in Nat /\ Granted(d) >= 1
BY QuotaFacts, LimiterAssumption DEF RateLimitData, Granted

(* What a log holds.                                                       *)
LEMMA LogFacts ==
  ASSUME NEW p \in Seq(Entry)
  PROVE  /\ Len(p) \in Nat
         /\ \A i \in 1 .. Len(p) : p[i].at \in Nat /\ p[i].expiration \in Nat
<1>1. Len(p) \in Nat /\ \A i \in 1 .. Len(p) : p[i] \in Entry
  OBVIOUS
<1> QED BY <1>1 DEF Entry

(* Appending to a sequence of entries.                                     *)
LEMMA AppendFacts ==
  ASSUME NEW p \in Seq(Entry), NEW e \in Entry
  PROVE  /\ Append(p, e) \in Seq(Entry)
         /\ Len(p) \in Nat
         /\ Len(Append(p, e)) = Len(p) + 1
         /\ \A i \in 1 .. Len(p) : Append(p, e)[i] = p[i]
         /\ Append(p, e)[Len(p) + 1] = e
         /\ \A i \in 1 .. Len(p) : p[i].at \in Nat /\ p[i].expiration \in Nat
BY LogFacts

(* A window that is over for the clock is over for the log.                *)
LEMMA ExpiredIsOver ==
  ASSUME NEW p \in Seq(Entry), NEW d \in RateLimitData, NEW t \in Nat,
         Disjoint(p), Current(p, d), d.expiration < t
  PROVE  Over(p, t)
<1>1. Granted(d) \in Nat /\ Granted(d) >= 1 /\ Granted(d) <= Len(p) /\ d.expiration \in Nat
  BY EntryFacts DEF Current
<1>2. Len(p) \in Nat /\ \A i \in 1 .. Len(p) : p[i].expiration \in Nat
  BY LogFacts
<1>3. Len(p) \in 1 .. Len(p) /\ p[Len(p)].expiration = d.expiration
  BY <1>1, <1>2 DEF Current
<1>4. ASSUME NEW i \in 1 .. Len(p) PROVE p[i].expiration < t
  <2>1. CASE i = Len(p)
    BY <2>1, <1>3
  <2>2. CASE i < Len(p)
    BY <2>2, <1>2, <1>3, LimiterAssumption DEF Disjoint
  <2> QED BY <2>1, <2>2, <1>2
<1> QED BY <1>4 DEF Over

(* A request that opens a window when all others are over.                 *)
LEMMA OpenLog ==
  ASSUME NEW p \in Seq(Entry), NEW t \in Nat, Log(p, t), Over(p, t)
  PROVE  LET q == Append(p, [at |-> t, expiration |-> t + Window])
             d == [count |-> 1, expiration |-> t + Window]
         IN  Log(q, t) /\ Match(q, d, t)
<1> DEFINE e == [at |-> t, expiration |-> t + Window]
           q == Append(p, e)
           d == [count |-> 1, expiration |-> t + Window]
<1>1. e \in Entry /\ e.at = t /\ e.expiration = t + Window
  BY LimiterAssumption DEF Entry
<1>2. d \in RateLimitData /\ d # NoData /\ d.expiration = t + Window /\ Granted(d) = 1
  BY LimiterAssumption, QuotaFacts DEF RateLimitData, Granted
<1>3. /\ Len(p) \in Nat /\ Len(q) = Len(p) + 1 /\ q[Len(p) + 1] = e
      /\ \A i \in 1 .. Len(p) : q[i] = p[i] /\ p[i].at \in Nat /\ p[i].expiration \in Nat
  BY <1>1, AppendFacts
<1> HIDE DEF e, q, d
<1>4. InTime(q, t)
  BY <1>1, <1>3, LimiterAssumption DEF Log, InTime
<1>5. Disjoint(q)
  <2> SUFFICES ASSUME NEW i \in 1 .. Len(q), NEW j \in 1 .. Len(q), i < j
               PROVE  \/ q[i].expiration = q[j].expiration
                      \/ q[i].expiration + Window < q[j].expiration
    BY DEF Disjoint
  <2>1. CASE j = Len(p) + 1
    BY <2>1, <1>1, <1>3, LimiterAssumption DEF Over
  <2>2. CASE j # Len(p) + 1
    <3>1. i \in 1 .. Len(p) /\ j \in 1 .. Len(p)
      <4>1. Len(p) \in Nat /\ Len(q) = Len(p) + 1
        BY <1>3
      <4> QED BY <2>2, <4>1
    <3>2. \/ p[i].expiration = p[j].expiration
          \/ p[i].expiration + Window < p[j].expiration
      BY <3>1 DEF Log, Disjoint
    <3> QED BY <3>1, <3>2, <1>3
  <2> QED BY <2>1, <2>2
<1>6. WithinQuota(q)
  <2> SUFFICES ASSUME NEW i \in 1 .. Len(q), NEW j \in 1 .. Len(q), j = i + Quota
               PROVE  q[i].expiration # q[j].expiration
    BY DEF WithinQuota
  <2>1. i \in 1 .. Len(p)
    BY <1>3, QuotaFacts
  <2>2. CASE j = Len(p) + 1
    <3>1. q[i].expiration < t /\ q[i].expiration \in Nat
      BY <2>1, <1>3 DEF Over
    <3>2. q[j].expiration = t + Window
      BY <2>2, <1>1, <1>3
    <3> QED BY <3>1, <3>2, LimiterAssumption
  <2>3. CASE j # Len(p) + 1
    <3>1. j \in 1 .. Len(p)
      BY <2>3, <1>3
    <3>2. p[i].expiration # p[j].expiration
      BY <2>1, <3>1 DEF Log, WithinQuota
    <3> QED BY <2>1, <3>1, <3>2, <1>3
  <2> QED BY <2>2, <2>3
<1>7. Opened(q)
  <2> SUFFICES ASSUME NEW i \in 1 .. Len(q), NEW j \in 1 .. Len(q)
               PROVE  /\ i = 1 => q[i].expiration = q[i].at + Window
                      /\ j = i + 1 => \/ q[i].expiration = q[j].expiration
                                      \/ q[j].expiration = q[j].at + Window
    BY DEF Opened
  <2>1. i = 1 => q[i].expiration = q[i].at + Window
    <3>1. CASE i = Len(p) + 1
      BY <3>1, <1>1, <1>3
    <3>2. CASE i # Len(p) + 1
      BY <3>2, <1>3 DEF Log, Opened
    <3> QED BY <3>1, <3>2
  <2>2. CASE j = Len(p) + 1
    BY <2>1, <2>2, <1>1, <1>3
  <2>3. CASE j # Len(p) + 1
    BY <2>1, <2>3, <1>3 DEF Log, Opened
  <2> QED BY <2>2, <2>3
<1>8. Match(q, d, t)
  BY <1>1, <1>2, <1>3, LimiterAssumption DEF Over, Match, Current
<1> QED BY <1>4, <1>5, <1>6, <1>7, <1>8 DEF Log, e, q, d

(* A request that is let through in a window that has quota left.          *)
LEMMA GrantLog ==
  ASSUME NEW p \in Seq(Entry), NEW d \in RateLimitData, NEW t \in Nat,
         Log(p, t), Current(p, d), t <= d.expiration, d.expiration <= t + Window,
         d.count < MaxRequests
  PROVE  LET q == Append(p, [at |-> t, expiration |-> d.expiration])
         IN  Log(q, t) /\ Match(q, [d EXCEPT !.count = @ + 1], t)
<1> DEFINE e == [at |-> t, expiration |-> d.expiration]
           q == Append(p, e)
           f == [d EXCEPT !.count = @ + 1]
           n == Len(p)
           g == Granted(d)
<1>1. e \in Entry /\ e.at = t /\ e.expiration = d.expiration
  BY EntryFacts DEF Entry
<1>2. /\ f \in RateLimitData /\ f # NoData /\ f.expiration = d.expiration
      /\ f.count = d.count + 1
  BY EntryFacts, LimiterAssumption DEF RateLimitData
<1>3. /\ n \in Nat /\ Len(q) = n + 1 /\ q[n + 1] = e
      /\ \A i \in 1 .. n : q[i] = p[i] /\ p[i].at \in Nat /\ p[i].expiration \in Nat
  BY <1>1, AppendFacts
<1>4. /\ g \in Nat /\ g >= 1 /\ g <= n /\ g < Quota /\ Granted(f) = g + 1
      /\ d.expiration \in Nat
  BY <1>2, QuotaFacts, EntryFacts, LimiterAssumption DEF Current, Granted
<1>5. \A i \in 1 .. n : p[i].expiration = d.expiration <=> n - g < i
  BY DEF Current
<1> HIDE DEF e, q, f, n, g
<1>6. p[n].expiration = d.expiration /\ n \in 1 .. n
  <2>1. n \in 1 .. n /\ n - g < n
    BY <1>3, <1>4
  <2> QED BY <2>1, <1>5
<1>7. InTime(q, t)
  BY <1>1, <1>3, LimiterAssumption DEF Log, InTime, n
<1>8. \A i \in 1 .. n : \/ p[i].expiration = d.expiration
                        \/ p[i].expiration + Window < d.expiration
  BY <1>3, <1>6 DEF Log, Disjoint, n
<1>9. Disjoint(q)
  <2> SUFFICES ASSUME NEW i \in 1 .. Len(q), NEW j \in 1 .. Len(q), i < j
               PROVE  \/ q[i].expiration = q[j].expiration
                      \/ q[i].expiration + Window < q[j].expiration
    BY DEF Disjoint
  <2>1. CASE j = n + 1
    BY <2>1, <1>1, <1>3, <1>8
  <2>2. CASE j # n + 1
    <3>1. i \in 1 .. n /\ j \in 1 .. n
      BY <2>2, <1>3
    <3>2. \/ p[i].expiration = p[j].expiration
          \/ p[i].expiration + Window < p[j].expiration
      BY <3>1 DEF Log, Disjoint, n
    <3> QED BY <3>1, <3>2, <1>3
  <2> QED BY <2>1, <2>2
<1>10. WithinQuota(q)
  <2> SUFFICES ASSUME NEW i \in 1 .. Len(q), NEW j \in 1 .. Len(q), j = i + Quota
               PROVE  q[i].expiration # q[j].expiration
    BY DEF WithinQuota
  <2>1. CASE j = n + 1
    <3>1. i \in 1 .. n /\ i <= n - g
      BY <2>1, <1>3, <1>4, QuotaFacts
    <3>2. ~(n - g < i)
      BY <3>1, <1>3, <1>4
    <3>3. p[i].expiration # d.expiration
      BY <3>1, <3>2, <1>5
    <3> QED BY <3>1, <3>3, <2>1, <1>1, <1>3
  <2>2. CASE j # n + 1
    <3>1. i \in 1 .. n /\ j \in 1 .. n
      BY <2>2, <1>3, QuotaFacts
    <3> QED BY <3>1, <1>3 DEF Log, WithinQuota, n
  <2> QED BY <2>1, <2>2
<1>11. Opened(q)
  <2> SUFFICES ASSUME NEW i \in 1 .. Len(q), NEW j \in 1 .. Len(q)
               PROVE  /\ i = 1 => q[i].expiration = q[i].at + Window
                      /\ j = i + 1 => \/ q[i].expiration = q[j].expiration
                                      \/ q[j].expiration = q[j].at + Window
    BY DEF Opened
  <2>0. n \in Nat /\ n >= 1 /\ Len(q) = n + 1
    BY <1>3, <1>6
  <2>1. i = 1 => q[i].expiration = q[i].at + Window
    <3>1. 1 \in 1 .. n
      BY <2>0
    <3> QED BY <3>1, <1>3 DEF Log, Opened, n
  <2>2. CASE j = n + 1
    <3>1. j = i + 1 => i = n
      BY <2>2, <2>0
    <3> QED BY <3>1, <2>1, <2>2, <1>1, <1>3, <1>6
  <2>3. CASE j # n + 1
    <3>1. j \in 1 .. n /\ (j = i + 1 => i \in 1 .. n)
      BY <2>3, <2>0
    <3> QED BY <3>1, <2>1, <1>3 DEF Log, Opened, n
  <2> QED BY <2>2, <2>3
<1>12. Match(q, f, t)
  <2>1. Granted(f) = g + 1 /\ g + 1 <= n + 1 /\ Len(q) - Granted(f) = n - g
    BY <1>3, <1>4
  <2>2. ASSUME NEW i \in 1 .. Len(q)
        PROVE  q[i].expiration = d.expiration <=> n - g < i
    <3>1. CASE i = n + 1
      <4>1. q[i].expiration = d.expiration
        BY <3>1, <1>1, <1>3
      <4>2. n - g < i
        BY <3>1, <1>3, <1>4
      <4> QED BY <4>1, <4>2
    <3>2. CASE i # n + 1
      <4>1. i \in 1 .. n
        BY <3>2, <1>3
      <4> QED BY <4>1, <1>3, <1>5
    <3> QED BY <3>1, <3>2
  <2>3. Current(q, f)
    BY <2>1, <2>2, <1>2, <1>3 DEF Current
  <2> QED BY <2>3, <1>2 DEF Match
<1> QED BY <1>7, <1>9, <1>10, <1>11, <1>12 DEF Log, e, q, f

(* A request that is refused changes the count alone.                      *)
LEMMA RefuseLog ==
  ASSUME NEW p \in Seq(Entry), NEW d \in RateLimitData, NEW t \in Nat,
         Current(p, d), d.count + 1 > MaxRequests
  PROVE  Match(p, [d EXCEPT !.count = @ + 1], t)
<1> DEFINE f == [d EXCEPT !.count = @ + 1]
<1>1. /\ f \in RateLimitData /\ f # NoData /\ f.expiration = d.expiration
      /\ f.count = d.count + 1
  BY EntryFacts, LimiterAssumption DEF RateLimitData
<1>2. Granted(f) = Granted(d)
  BY <1>1, EntryFacts, QuotaFacts, LimiterAssumption DEF Granted
<1> QED BY <1>1, <1>2 DEF Match, Current

(* Time passing leaves the log and its relation to the map alone.          *)
LEMMA LaterLog ==
  ASSUME NEW p \in Seq(Entry), NEW d \in RateLimitData \cup {NoData},
         NEW t \in Nat, Log(p, t), Match(p, d, t)
  PROVE  Log(p, t + 1) /\ Match(p, d, t + 1)
<1>1. Len(p) \in Nat /\ \A i \in 1 .. Len(p) : p[i].at \in Nat /\ p[i].expiration \in Nat
  BY LogFacts
<1>2. InTime(p, t + 1)
  BY <1>1 DEF Log, InTime
<1>3. Over(p, t) => Over(p, t + 1)
  BY <1>1 DEF Over
<1> QED BY <1>2, <1>3 DEF Log, Match

-----------------------------------------------------------------------------

(* Nothing has been let through at the start.                              *)
LEMMA InitIInv == Init => IInv
<1> SUFFICES ASSUME Init PROVE IInv
  OBVIOUS
<1>1. passed \in [Addresses -> Seq(Entry)] /\ \A a \in Addresses : passed[a] = <<>>
  BY DEF Init, Entry
<1>2. TypeOK
  BY <1>1 DEF Init, TypeOK, Entry
<1>3. ASSUME NEW a \in Addresses
      PROVE  Log(passed[a], now) /\ Match(passed[a], ips[a], now)
  <2>1. passed[a] = <<>> /\ ips[a] = NoData
    BY <1>1 DEF Init
  <2>2. Len(passed[a]) = 0
    BY <2>1
  <2> QED
    BY <2>1, <2>2 DEF Log, InTime, Disjoint, WithinQuota, Opened, Match, Over
<1> QED BY <1>2, <1>3 DEF IInv

(* What TypeOK says of one address.                                        *)
LEMMA TypeFacts ==
  ASSUME TypeOK, NEW a \in Addresses
  PROVE  /\ now \in Nat
         /\ passed[a] \in Seq(Entry)
         /\ ips[a] \in RateLimitData \cup {NoData}
         /\ ips[a] # NoData => ips[a] \in RateLimitData /\ ips[a].expiration <= now + Window
BY DEF TypeOK, Entry

(* A request that opens a window.                                          *)
LEMMA OpenStep ==
  ASSUME IInv, NEW a \in Addresses, OpenWindow(a)
  PROVE  IInv'
<1> DEFINE e == [at |-> now, expiration |-> now + Window]
           d == [count |-> 1, expiration |-> now + Window]
<1>1. TypeOK /\ now \in Nat /\ now' = now /\ cleaning' = cleaning
  BY DEF IInv, TypeOK, OpenWindow
<1>2. /\ ips' = [ips EXCEPT ![a] = d]
      /\ passed' = [passed EXCEPT ![a] = Append(@, e)]
  BY DEF OpenWindow, Pass
<1>3. d \in RateLimitData /\ e \in Entry /\ d.expiration <= now + Window
  BY <1>1, LimiterAssumption DEF RateLimitData, Entry
<1>4. Append(passed[a], e) \in Seq(Entry)
  BY <1>1, <1>3, TypeFacts, AppendFacts
<1>5. TypeOK'
  BY <1>1, <1>2, <1>3, <1>4 DEF TypeOK, Entry
<1>6. Over(passed[a], now)
  <2>1. CASE ips[a] = NoData
    BY <2>1 DEF IInv, Match
  <2>2. CASE ips[a] # NoData
    <3>1. ips[a] \in RateLimitData /\ ips[a].expiration < now
      BY <2>2, <1>1, TypeFacts, EntryFacts DEF OpenWindow, Open
    <3>2. Disjoint(passed[a]) /\ Current(passed[a], ips[a])
      BY <2>2 DEF IInv, Log, Match
    <3> QED BY <3>1, <3>2, <1>1, TypeFacts, ExpiredIsOver
  <2> QED BY <2>1, <2>2
<1>7. Log(passed'[a], now') /\ Match(passed'[a], ips'[a], now')
  <2>1. passed[a] \in Seq(Entry) /\ Log(passed[a], now)
    BY <1>1, TypeFacts DEF IInv
  <2>2. passed'[a] = Append(passed[a], e) /\ ips'[a] = d
    BY <1>1, <1>2 DEF TypeOK
  <2> HIDE DEF e, d
  <2>3. Log(Append(passed[a], e), now) /\ Match(Append(passed[a], e), d, now)
    BY <1>1, <1>6, <2>1, OpenLog DEF e, d
  <2> QED BY <2>2, <2>3, <1>1
<1>8. ASSUME NEW b \in Addresses, b # a
      PROVE  Log(passed'[b], now') /\ Match(passed'[b], ips'[b], now')
  <2>1. passed'[b] = passed[b] /\ ips'[b] = ips[b]
    BY <1>2, <1>8, <1>1 DEF TypeOK
  <2> QED BY <2>1, <1>1 DEF IInv
<1> QED BY <1>5, <1>7, <1>8 DEF IInv

(* A request that finds its window open.                                   *)
LEMMA CountStep ==
  ASSUME IInv, NEW a \in Addresses, CountRequest(a)
  PROVE  IInv'
<1> DEFINE d == ips[a]
           f == [d EXCEPT !.count = @ + 1]
           e == [at |-> now, expiration |-> d.expiration]
<1>1. TypeOK /\ now \in Nat /\ now' = now /\ cleaning' = cleaning
  BY DEF IInv, TypeOK, CountRequest
<1>2. d # NoData /\ now <= d.expiration
  BY DEF CountRequest, Open
<1>3. d \in RateLimitData /\ d.expiration <= now + Window
  BY <1>1, <1>2, TypeFacts
<1>4. passed[a] \in Seq(Entry) /\ Log(passed[a], now) /\ Current(passed[a], d)
  BY <1>1, <1>2, TypeFacts DEF IInv, Match
<1>5. ips' = [ips EXCEPT ![a] = f] /\ ips'[a] = f
  BY <1>1 DEF CountRequest, TypeOK
<1>6. f \in RateLimitData /\ f.expiration = d.expiration
  BY <1>3, EntryFacts DEF RateLimitData
<1>7. e \in Entry /\ Append(passed[a], e) \in Seq(Entry)
  BY <1>1, <1>3, <1>4, EntryFacts, AppendFacts DEF Entry
<1>8. /\ passed' \in [Addresses -> Seq(Entry)]
      /\ \A b \in Addresses \ {a} : passed'[b] = passed[b] /\ ips'[b] = ips[b]
  BY <1>1, <1>5, <1>7 DEF CountRequest, Pass, TypeOK, Entry
<1>9. TypeOK'
  BY <1>1, <1>3, <1>5, <1>6, <1>8 DEF TypeOK, Entry
<1>10. Log(passed'[a], now') /\ Match(passed'[a], ips'[a], now')
  <2>1. CASE d.count + 1 > MaxRequests
    <3>1. passed'[a] = passed[a]
      BY <2>1 DEF CountRequest
    <3>2. Match(passed[a], f, now)
      BY <2>1, <1>1, <1>3, <1>4, RefuseLog
    <3> QED BY <3>1, <3>2, <1>1, <1>4, <1>5
  <2>2. CASE ~(d.count + 1 > MaxRequests)
    <3>1. passed'[a] = Append(passed[a], e)
      BY <2>2, <1>1 DEF CountRequest, Pass, TypeOK
    <3>2. d.count < MaxRequests
      BY <2>2, <1>3, EntryFacts, LimiterAssumption
    <3> HIDE DEF d
    <3>3. Log(Append(passed[a], e), now) /\ Match(Append(passed[a], e), f, now)
      BY <3>2, <1>1, <1>2, <1>3, <1>4, GrantLog
    <3> QED BY <3>1, <3>3, <1>1, <1>5
  <2> QED BY <2>1, <2>2
<1>11. ASSUME NEW b \in Addresses, b # a
       PROVE  Log(passed'[b], now') /\ Match(passed'[b], ips'[b], now')
  <2>1. passed'[b] = passed[b] /\ ips'[b] = ips[b]
    BY <1>8, <1>11
  <2> QED BY <2>1, <1>1 DEF IInv
<1> QED BY <1>9, <1>10, <1>11 DEF IInv

(* The cleaner removes windows that are over, and no others.               *)
LEMMA CleanStep ==
  ASSUME IInv, RemoveExpired
  PROVE  IInv'
<1>1. TypeOK /\ now \in Nat /\ now' = now /\ passed' = passed /\ cleaning' = cleaning
  BY DEF IInv, TypeOK, RemoveExpired
<1>2. ips' = [a \in Addresses |-> IF Open(a) THEN ips[a] ELSE NoData]
  BY DEF RemoveExpired
<1>3. TypeOK'
  BY <1>1, <1>2 DEF TypeOK
<1>4. ASSUME NEW a \in Addresses
      PROVE  Log(passed'[a], now') /\ Match(passed'[a], ips'[a], now')
  <2>1. Log(passed[a], now) /\ Match(passed[a], ips[a], now)
    BY DEF IInv
  <2>2. CASE Open(a) \/ ips[a] = NoData
    BY <2>1, <2>2, <1>1, <1>2
  <2>3. CASE ~Open(a) /\ ips[a] # NoData
    <3>1. ips[a] \in RateLimitData /\ ips[a].expiration < now
      BY <2>3, <1>1, TypeFacts, EntryFacts DEF Open
    <3>2. Disjoint(passed[a]) /\ Current(passed[a], ips[a])
      BY <2>1, <2>3 DEF Log, Match
    <3>3. Over(passed[a], now)
      BY <3>1, <3>2, <1>1, TypeFacts, ExpiredIsOver
    <3> QED BY <2>1, <2>3, <3>3, <1>1, <1>2 DEF Match
  <2> QED BY <2>2, <2>3
<1> QED BY <1>3, <1>4 DEF IInv

(* The clock goes on.                                                      *)
LEMMA TickStep ==
  ASSUME IInv, Tick
  PROVE  IInv'
<1>1. /\ TypeOK /\ now \in Nat /\ now' = now + 1
      /\ ips' = ips /\ passed' = passed /\ cleaning' = cleaning
  BY DEF IInv, TypeOK, Tick
<1>2. TypeOK'
  <2>1. ASSUME NEW a \in Addresses, ips[a] # NoData
        PROVE  ips[a].expiration <= now' + Window
    <3>1. ips[a].expiration \in Nat /\ ips[a].expiration <= now + Window
      BY <2>1, <1>1, TypeFacts, EntryFacts
    <3> QED BY <3>1, <1>1, LimiterAssumption
  <2> QED BY <1>1, <2>1 DEF TypeOK
<1>3. ASSUME NEW a \in Addresses
      PROVE  Log(passed'[a], now') /\ Match(passed'[a], ips'[a], now')
  <2>1. Log(passed[a], now + 1) /\ Match(passed[a], ips[a], now + 1)
    BY <1>1, TypeFacts, LaterLog DEF IInv
  <2> QED BY <2>1, <1>1
<1> QED BY <1>2, <1>3 DEF IInv

(* The inductive invariant: the log of what was let through consists of    *)
(* disjoint windows of at most Quota requests, and the map's entry is the  *)
(* last of them or all of them are over.                                   *)
THEOREM LimiterInvariant == Spec => []IInv
<1>1. IInv /\ [Next]_vars => IInv'
  <2> SUFFICES ASSUME IInv, [Next]_vars PROVE IInv'
    OBVIOUS
  <2>1. ASSUME NEW a \in Addresses, OpenWindow(a) PROVE IInv'
    BY <2>1, OpenStep
  <2>2. ASSUME NEW a \in Addresses, CountRequest(a) PROVE IInv'
    BY <2>2, CountStep
  <2>3. CASE RemoveExpired
    BY <2>3, CleanStep
  <2>4. CASE Close
    BY <2>4 DEF Close, IInv, TypeOK
  <2>5. CASE Tick
    BY <2>5, TickStep
  <2>6. CASE UNCHANGED vars
    BY <2>6 DEF vars, IInv, TypeOK
  <2> QED BY <2>1, <2>2, <2>3, <2>4, <2>5, <2>6 DEF Next
<1> QED BY InitIInv, <1>1, PTL DEF Spec

(* Counts, windows and the history have their types.                       *)
THEOREM LimiterTypeOK == Spec => []TypeOK
<1>1. IInv => TypeOK
  BY DEF IInv
<1> QED BY <1>1, LimiterInvariant, PTL

(* The distance of two requests, from the distance of their windows.       *)
LEMMA Apart ==
  ASSUME NEW at1 \in Nat, NEW at2 \in Nat, NEW e1 \in Nat, NEW e2 \in Nat,
         e2 <= at2 + Window, at1 + 2 * Window < e2
  PROVE  at2 > at1 + Window
BY LimiterAssumption

(* Two windows further on.                                                 *)
LEMMA TwoWindows ==
  ASSUME NEW at1 \in Nat, NEW e1 \in Nat, NEW e2 \in Nat, NEW e3 \in Nat,
         at1 <= e1, e1 + Window < e2, e2 + Window < e3
  PROVE  at1 + 2 * Window < e3
BY LimiterAssumption

(* A window's length never sees 2 * Quota requests of one address pass.    *)
THEOREM LimiterBurstBound == Spec => []BurstBound
<1>1. IInv => BurstBound
  <2> SUFFICES ASSUME IInv, NEW a \in Addresses,
                      NEW i \in 1 .. Len(passed[a]) - (2 * Quota - 1)
               PROVE  passed[a][i + 2 * Quota - 1].at > passed[a][i].at + Window
    BY DEF BurstBound
  <2> DEFINE p == passed[a]
             j == i + Quota - 1
             k == i + 2 * Quota - 1
  <2>1. /\ p \in Seq(Entry) /\ Len(p) \in Nat
        /\ \A m \in 1 .. Len(p) : p[m].at \in Nat /\ p[m].expiration \in Nat
    BY TypeFacts, LogFacts DEF IInv
  <2>2. InTime(p, now) /\ Disjoint(p) /\ WithinQuota(p) /\ Opened(p)
    BY DEF IInv, Log
  <2> HIDE DEF p
  <2>3. /\ i \in 1 .. Len(p) /\ j \in 1 .. Len(p) /\ k \in 1 .. Len(p)
        /\ i \in Nat /\ j \in Nat /\ k \in Nat /\ k = j + Quota
        /\ i <= j /\ j < k
        /\ i + Quota \in 1 .. Len(p) /\ i + Quota <= k
    BY <2>1, QuotaFacts DEF p
  <2> HIDE DEF j, k
  <2>4. \A m, n \in 1 .. Len(p) : n = m + Quota =>
          p[m].expiration + Window < p[n].expiration
    BY <2>1, <2>2, QuotaFacts DEF Disjoint, WithinQuota
  <2>5. \A m, n \in 1 .. Len(p) : m <= n => p[m].expiration <= p[n].expiration
    BY <2>1, <2>2, LimiterAssumption DEF Disjoint
  <2>6. \A m \in 1 .. Len(p) : p[m].at <= p[m].expiration
                             /\ p[m].expiration <= p[m].at + Window
    BY <2>2 DEF InTime
  <2>7. ASSUME p[i].expiration = p[i].at + Window PROVE p[k].at > p[i].at + Window
    <3>1. p[i].expiration + Window < p[i + Quota].expiration
      BY <2>3, <2>4
    <3>2. p[i + Quota].expiration <= p[k].expiration
      BY <2>3, <2>5
    <3>3. /\ p[i].at \in Nat /\ p[k].at \in Nat /\ p[i].expiration \in Nat
          /\ p[i + Quota].expiration \in Nat /\ p[k].expiration \in Nat
          /\ p[k].expiration <= p[k].at + Window
      BY <2>1, <2>3, <2>6
    <3>4. p[i].at + 2 * Window < p[k].expiration
      BY <3>1, <3>2, <3>3, <2>7, LimiterAssumption
    <3> QED BY <3>3, <3>4, Apart
  <2>8. ASSUME p[i].expiration # p[i].at + Window PROVE p[k].at > p[i].at + Window
    <3> DEFINE h == i - 1
    <3>0. i # 1
      BY <2>2, <2>3, <2>8 DEF Opened
    <3>1. h \in 1 .. Len(p) /\ i = h + 1 /\ j = h + Quota
      BY <3>0, <2>1, <2>3, QuotaFacts DEF j
    <3> HIDE DEF h
    <3>2. p[h].expiration = p[i].expiration
      BY <3>1, <2>2, <2>3, <2>8 DEF Opened
    <3>3. p[i].expiration + Window < p[j].expiration
      BY <3>1, <3>2, <2>3, <2>4
    <3>4. p[j].expiration + Window < p[k].expiration
      BY <2>3, <2>4
    <3>5. /\ p[i].at \in Nat /\ p[k].at \in Nat /\ p[i].expiration \in Nat
          /\ p[j].expiration \in Nat /\ p[k].expiration \in Nat
          /\ p[k].expiration <= p[k].at + Window /\ p[i].at <= p[i].expiration
      BY <2>1, <2>3, <2>6
    <3>6. p[i].at + 2 * Window < p[k].expiration
      BY <3>3, <3>4, <3>5, TwoWindows
    <3> QED BY <3>5, <3>6, Apart
  <2>9. p[k].at > p[i].at + Window
    BY <2>7, <2>8
  <2> QED BY <2>9 DEF p, k
<1> QED BY <1>1, LimiterInvariant, PTL

(* A refused client has had its quota within the last window's length.     *)
THEOREM LimiterRefusalEarned == Spec => []RefusalEarned
<1>1. IInv => RefusalEarned
  <2> SUFFICES ASSUME IInv, NEW a \in Addresses, Limited(a)
               PROVE  /\ Len(passed[a]) >= Quota
                      /\ now <= passed[a][Len(passed[a]) - Quota + 1].at + Window
    BY DEF RefusalEarned
  <2> DEFINE p == passed[a]
             d == ips[a]
             i == Len(p) - Quota + 1
  <2>1. /\ p \in Seq(Entry) /\ Len(p) \in Nat /\ now \in Nat
        /\ \A m \in 1 .. Len(p) : p[m].at \in Nat /\ p[m].expiration \in Nat
    BY TypeFacts, LogFacts DEF IInv
  <2>2. d \in RateLimitData /\ now <= d.expiration /\ d.count >= MaxRequests
    BY TypeFacts DEF IInv, Limited, Open
  <2>3. Opened(p) /\ Current(p, d)
    BY <2>2, EntryFacts DEF IInv, Log, Match
  <2>4. Granted(d) = Quota
    BY <2>2, EntryFacts, QuotaFacts, LimiterAssumption DEF Granted
  <2> HIDE DEF p, d
  <2>5. /\ Len(p) >= Quota /\ i \in 1 .. Len(p) /\ i \in Nat
        /\ Len(p) - Quota < i /\ i - 1 <= Len(p) - Quota
    BY <2>1, <2>3, <2>4, QuotaFacts DEF Current
  <2> HIDE DEF i
  <2>6. p[i].expiration = d.expiration
    BY <2>3, <2>4, <2>5 DEF Current
  <2>7. p[i].expiration = p[i].at + Window
    <3>1. CASE i = 1
      BY <3>1, <2>3, <2>5 DEF Opened
    <3>2. CASE i # 1
      <4> DEFINE h == i - 1
      <4>1. h \in 1 .. Len(p) /\ i = h + 1 /\ ~(Len(p) - Quota < h)
        BY <3>2, <2>1, <2>5, QuotaFacts
      <4> HIDE DEF h
      <4>2. p[h].expiration # d.expiration
        BY <4>1, <2>3, <2>4 DEF Current
      <4> QED BY <4>1, <4>2, <2>3, <2>5, <2>6 DEF Opened
    <3> QED BY <3>1, <3>2
  <2> QED BY <2>2, <2>5, <2>6, <2>7 DEF p, i
<1> QED BY <1>1, LimiterInvariant, PTL
=============================================================================
