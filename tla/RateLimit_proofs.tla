--------------------------- MODULE RateLimit_proofs ---------------------------
(***************************************************************************)
(* For every limit, window, deque length above the limit and time of       *)
(* forgetting not below the window, the rate limiter answers as one that   *)
(* remembers everything, and forgets quiet addresses.                      *)
(***************************************************************************)
EXTENDS RateLimit, SequenceTheorems, FiniteSetTheorems, TLAPS

LEMMA Numbers ==
    /\ Limit \in Nat /\ Window \in Nat /\ MaxLen \in Nat /\ Forget \in Nat
    /\ CleanupInterval \in Nat /\ Slack \in Nat
    /\ MaxLen > Limit /\ Forget >= Window
BY RateAssumption DEF RateAssumption

-----------------------------------------------------------------------------
(* Times in order.                                                         *)

Sorted(s) == \A i, j \in DOMAIN s : i <= j => s[i] <= s[j]
UpTo(s, t) == \A i \in DOMAIN s : s[i] <= t

\* The window that ends at t holds more than Limit of the times in s.
Over(s, t) == Len(s) > Limit /\ t - s[Len(s) - Limit] < Window

\* What is older than a time out of the window is out of it, too.
LEMMA Aging ==
    ASSUME NEW a \in Nat, NEW b \in Nat, NEW t \in Nat, NEW k \in Nat, a <= b
    PROVE  (t - a < k => t - b < k) /\ (t - b >= k => t - a >= k)
OBVIOUS

\* To count the times in the window it is enough to look at one of them.
LEMMA IntervalSize ==
    ASSUME NEW a \in Int, NEW b \in Int, a <= b + 1
    PROVE  IsFiniteSet(a .. b) /\ Cardinality(a .. b) = b - a + 1
<1>1. IsFiniteSet(a .. b) /\ Cardinality(a .. b) = IF a > b THEN 0 ELSE b - a + 1
  BY FS_Interval
<1> QED BY <1>1

LEMMA CountByPosition ==
    ASSUME NEW s \in Seq(Nat), NEW t \in Nat, Sorted(s)
    PROVE  Cardinality({i \in DOMAIN s : t - s[i] < Window}) > Limit <=> Over(s, t)
<1> DEFINE Inside == {i \in DOMAIN s : t - s[i] < Window}
           first  == Len(s) - Limit
<1>1. DOMAIN s = 1 .. Len(s) /\ Len(s) \in Nat /\ \A i \in DOMAIN s : s[i] \in Nat
  BY LenProperties, ElementOfSeq
<1>2. first \in Int /\ Limit \in Nat /\ Window \in Nat
  BY <1>1, Numbers
<1>3. IsFiniteSet(1 .. Len(s)) /\ Inside \in SUBSET (1 .. Len(s))
  BY <1>1, FS_Interval
<1>4. IsFiniteSet(Inside) /\ Cardinality(Inside) \in Nat
  BY <1>3, FS_Subset, FS_CardinalityType
<1>5. ASSUME Over(s, t) PROVE Cardinality(Inside) > Limit
  <2>1. first \in 1 .. Len(s) /\ t - s[first] < Window
    BY <1>1, <1>2, <1>5 DEF Over
  <2>2. \A i \in first .. Len(s) : i \in DOMAIN s /\ s[first] <= s[i]
    <3> SUFFICES ASSUME NEW i \in first .. Len(s)
                 PROVE  i \in DOMAIN s /\ s[first] <= s[i]
      OBVIOUS
    <3>1. i \in DOMAIN s /\ first \in DOMAIN s /\ first <= i
      BY <1>1, <1>2, <2>1
    <3> QED BY <3>1 DEF Sorted
  <2>3. first .. Len(s) \subseteq Inside
    <3> SUFFICES ASSUME NEW i \in first .. Len(s) PROVE t - s[i] < Window
      BY <2>2
    <3>1. s[i] \in Nat /\ s[first] \in Nat /\ s[first] <= s[i]
      BY <1>1, <2>1, <2>2
    <3>2. t - s[first] < Window /\ Window \in Nat
      BY <1>2, <2>1
    <3> QED BY <3>1, <3>2, Aging
  <2>4. Cardinality(first .. Len(s)) = Len(s) - first + 1
    BY <1>1, <2>1, FS_Interval
  <2>5. Cardinality(first .. Len(s)) <= Cardinality(Inside)
    BY <1>4, <2>3, FS_Subset
  <2> QED BY <1>1, <1>2, <1>4, <2>4, <2>5
<1>6. ASSUME ~Over(s, t) PROVE Cardinality(Inside) <= Limit
  <2>1. CASE Len(s) <= Limit
    <3>1. Cardinality(1 .. Len(s)) = Len(s) - 1 + 1
      BY <1>1, IntervalSize
    <3>2. Cardinality(Inside) <= Cardinality(1 .. Len(s))
      BY <1>3, FS_Subset
    <3> QED BY <1>1, <1>2, <1>4, <2>1, <3>1, <3>2
  <2>2. CASE Len(s) > Limit
    <3>1. first \in DOMAIN s /\ t - s[first] >= Window
      BY <1>1, <1>2, <1>6, <2>2 DEF Over
    <3>2. ASSUME NEW i \in Inside PROVE i \in first + 1 .. Len(s)
      <4>1. i \in 1 .. Len(s) /\ s[i] \in Nat /\ s[first] \in Nat /\ t - s[i] < Window
        BY <1>1, <3>1
      <4>2. i <= first => s[i] <= s[first]
        BY <1>1, <3>1, <4>1 DEF Sorted
      <4>3. ~(i <= first)
        <5> SUFFICES ASSUME i <= first PROVE FALSE
          OBVIOUS
        <5>1. t - s[i] >= Window
          BY <1>2, <3>1, <4>1, <4>2, Aging
        <5>2. s[i] \in Nat /\ Window \in Nat /\ t - s[i] < Window
          BY <1>2, <4>1
        <5> QED BY <5>1, <5>2
      <4>4. i \in Nat /\ i <= Len(s) /\ first \in Int /\ Len(s) \in Nat
        BY <1>1, <1>2, <4>1
      <4> QED BY <4>3, <4>4
    <3>3. /\ IsFiniteSet(first + 1 .. Len(s))
          /\ Cardinality(first + 1 .. Len(s)) = Len(s) - (first + 1) + 1
      <4>1. first + 1 \in Int /\ Len(s) \in Int /\ first + 1 <= Len(s) + 1
        BY <1>1, <1>2
      <4> QED BY <4>1, IntervalSize
    <3>4. Cardinality(Inside) <= Cardinality(first + 1 .. Len(s))
      BY <3>2, <3>3, FS_Subset
    <3> QED BY <1>1, <1>2, <1>4, <3>3, <3>4
  <2> QED BY <1>1, <1>2, <2>1, <2>2
<1> QED BY <1>2, <1>4, <1>5, <1>6

-----------------------------------------------------------------------------
(* The deque is a tail of the history.                                     *)

\* w is h without its first d times, and these are of no account at t: there are
\* none, or w holds as many as it can, or the last of them is out of the window.
Lacks(w, h, t, d) ==
    /\ Len(h) = d + Len(w)
    /\ \A i \in 1 .. Len(w) : w[i] = h[d + i]
    /\ d = 0 \/ Len(w) = MaxLen \/ t - h[d] >= Window

Remembers(w, h, t) == \E d \in Nat : Lacks(w, h, t, d)

LEMMA AppendFacts ==
    ASSUME NEW s \in Seq(Nat), NEW t \in Nat, Sorted(s), UpTo(s, t)
    PROVE  /\ Append(s, t) \in Seq(Nat) /\ Len(Append(s, t)) = Len(s) + 1
           /\ Append(s, t)[Len(s) + 1] = t
           /\ \A i \in 1 .. Len(s) : Append(s, t)[i] = s[i]
           /\ Sorted(Append(s, t)) /\ UpTo(Append(s, t), t)
<1>1. /\ Append(s, t) \in Seq(Nat) /\ Len(Append(s, t)) = Len(s) + 1
      /\ Append(s, t)[Len(s) + 1] = t
      /\ \A i \in 1 .. Len(s) : Append(s, t)[i] = s[i]
  BY AppendProperties
<1>2. DOMAIN s = 1 .. Len(s) /\ Len(s) \in Nat /\ DOMAIN Append(s, t) = 1 .. Len(s) + 1
  BY <1>1, LenProperties
<1>3. \A i \in 1 .. Len(s) : s[i] <= t
  BY <1>2 DEF UpTo
<1>4. UpTo(Append(s, t), t)
  <2> SUFFICES ASSUME NEW i \in 1 .. Len(s) + 1 PROVE Append(s, t)[i] <= t
    BY <1>2 DEF UpTo
  <2> QED BY <1>1, <1>2, <1>3
<1>5. Sorted(Append(s, t))
  <2> SUFFICES ASSUME NEW i \in 1 .. Len(s) + 1, NEW j \in 1 .. Len(s) + 1, i <= j
               PROVE  Append(s, t)[i] <= Append(s, t)[j]
    BY <1>2 DEF Sorted
  <2>1. CASE j = Len(s) + 1
    BY <1>1, <1>2, <1>4, <2>1 DEF UpTo
  <2>2. CASE j # Len(s) + 1
    <3>1. i \in 1 .. Len(s) /\ j \in 1 .. Len(s)
      BY <1>2, <2>2
    <3> QED BY <1>1, <1>2, <3>1 DEF Sorted
  <2> QED BY <2>1, <2>2
<1> QED BY <1>1, <1>4, <1>5

\* A call that is entered in the deque is its last time; at most one is pushed out.
LEMMA AppendedFacts ==
    ASSUME NEW w \in Seq(Nat), NEW t \in Nat, Len(w) <= MaxLen
    PROVE  /\ Appended(w, t) \in Seq(Nat)
           /\ Len(Appended(w, t)) = IF Len(w) < MaxLen THEN Len(w) + 1 ELSE MaxLen
           /\ Appended(w, t)[Len(Appended(w, t))] = t
           /\ \A i \in 1 .. Len(Appended(w, t)) - 1 :
                 Appended(w, t)[i] = w[i + (Len(w) + 1 - Len(Appended(w, t)))]
<1>1. Len(w) \in Nat /\ MaxLen \in Nat /\ MaxLen > 0
  BY LenProperties, Numbers
<1>2. CASE Len(w) < MaxLen
  <2>1. Appended(w, t) = Append(w, t)
    BY <1>2 DEF Appended
  <2>2. /\ Append(w, t) \in Seq(Nat) /\ Len(Append(w, t)) = Len(w) + 1
        /\ Append(w, t)[Len(w) + 1] = t
        /\ \A i \in 1 .. Len(w) : Append(w, t)[i] = w[i]
    BY AppendProperties
  <2> QED BY <1>1, <1>2, <2>1, <2>2
<1>3. CASE Len(w) = MaxLen
  <2>1. Appended(w, t) = Append(Tail(w), t)
    BY <1>1, <1>3 DEF Appended
  <2>2. w # <<>>
    BY <1>1, <1>3
  <2>3. /\ Tail(w) \in Seq(Nat) /\ Len(Tail(w)) = Len(w) - 1
        /\ \A i \in 1 .. Len(w) - 1 : Tail(w)[i] = w[i + 1]
    BY <2>2, HeadTailProperties
  <2>4. /\ Append(Tail(w), t) \in Seq(Nat) /\ Len(Append(Tail(w), t)) = Len(w) - 1 + 1
        /\ Append(Tail(w), t)[Len(w) - 1 + 1] = t
        /\ \A i \in 1 .. Len(w) - 1 : Append(Tail(w), t)[i] = Tail(w)[i]
    BY <2>3, AppendProperties
  <2> QED BY <1>1, <1>3, <2>1, <2>3, <2>4
<1> QED BY <1>1, <1>2, <1>3

LEMMA RemembersCall ==
    ASSUME NEW w \in Seq(Nat), NEW h \in Seq(Nat), NEW t \in Nat, Len(w) <= MaxLen,
           Sorted(h), UpTo(h, t), Remembers(w, h, t)
    PROVE  Remembers(Appended(w, t), Append(h, t), t)
<1> DEFINE v == Appended(w, t)
           g == Append(h, t)
<1>1. PICK d \in Nat : Lacks(w, h, t, d)
  BY DEF Remembers
<1>2. Len(w) \in Nat /\ Len(h) \in Nat /\ MaxLen \in Nat
  BY LenProperties, Numbers
<1>3. /\ Len(v) = IF Len(w) < MaxLen THEN Len(w) + 1 ELSE MaxLen
      /\ v[Len(v)] = t
      /\ \A i \in 1 .. Len(v) - 1 : v[i] = w[i + (Len(w) + 1 - Len(v))]
  BY AppendedFacts
<1>4. Len(g) = Len(h) + 1 /\ g[Len(h) + 1] = t /\ \A i \in 1 .. Len(h) : g[i] = h[i]
  BY AppendFacts
<1>5. Len(h) = d + Len(w) /\ \A i \in 1 .. Len(w) : w[i] = h[d + i]
  BY <1>1 DEF Lacks
<1> HIDE DEF v, g
<1>6. CASE Len(w) < MaxLen
  <2>1. Len(v) = Len(w) + 1 /\ Len(g) = d + Len(v)
    BY <1>2, <1>3, <1>4, <1>5, <1>6
  <2>2. ASSUME NEW i \in 1 .. Len(v) PROVE v[i] = g[d + i]
    <3>1. CASE i = Len(w) + 1
      BY <1>2, <1>3, <1>4, <1>5, <2>1, <3>1
    <3>2. CASE i # Len(w) + 1
      <4>1. i \in 1 .. Len(w) /\ d + i \in 1 .. Len(h) /\ i + (Len(w) + 1 - Len(v)) = i
        BY <1>2, <1>5, <2>1, <3>2
      <4>2. i \in 1 .. Len(v) - 1
        BY <1>2, <2>1, <4>1
      <4>3. v[i] = w[i + (Len(w) + 1 - Len(v))]
        BY <1>3, <4>2
      <4> QED BY <1>4, <1>5, <4>1, <4>3
    <3> QED BY <3>1, <3>2
  <2>3. d = 0 \/ t - g[d] >= Window
    <3> SUFFICES ASSUME d # 0 PROVE t - g[d] >= Window
      OBVIOUS
    <3>1. t - h[d] >= Window
      BY <1>1, <1>2, <1>6 DEF Lacks
    <3>2. d \in 1 .. Len(h)
      BY <1>2, <1>5
    <3> QED BY <1>4, <3>1, <3>2
  <2> QED BY <2>1, <2>2, <2>3 DEF Remembers, Lacks, v, g
<1>7. CASE Len(w) = MaxLen
  <2>1. Len(v) = MaxLen /\ Len(g) = (d + 1) + Len(v)
    BY <1>2, <1>3, <1>4, <1>5, <1>7
  <2>2. ASSUME NEW i \in 1 .. Len(v) PROVE v[i] = g[(d + 1) + i]
    <3>1. CASE i = MaxLen
      BY <1>2, <1>3, <1>4, <1>5, <1>7, <2>1, <3>1
    <3>2. CASE i # MaxLen
      <4>1. /\ i \in 1 .. Len(v) - 1 /\ i + 1 \in 1 .. Len(w)
            /\ (d + 1) + i \in 1 .. Len(h) /\ d + (i + 1) = (d + 1) + i
            /\ i + (Len(w) + 1 - Len(v)) = i + 1
        BY <1>2, <1>5, <1>7, <2>1, <3>2
      <4>2. v[i] = w[i + 1]
        BY <1>3, <4>1
      <4>3. w[i + 1] = h[d + (i + 1)]
        BY <1>5, <4>1
      <4> QED BY <1>4, <4>1, <4>2, <4>3
    <3> QED BY <3>1, <3>2
  <2>3. d + 1 \in Nat /\ Lacks(v, g, t, d + 1)
    BY <2>1, <2>2 DEF Lacks
  <2> QED BY <2>3 DEF Remembers, v, g
<1> QED BY <1>2, <1>6, <1>7

\* So the deque and the whole history give the same answer.
LEMMA SameVerdict ==
    ASSUME NEW w \in Seq(Nat), NEW h \in Seq(Nat), NEW t \in Nat,
           Sorted(h), Remembers(w, h, t)
    PROVE  Sorted(w) /\ (Over(w, t) <=> Over(h, t))
<1>1. /\ Len(w) \in Nat /\ Len(h) \in Nat
      /\ DOMAIN w = 1 .. Len(w) /\ DOMAIN h = 1 .. Len(h)
      /\ Limit \in Nat /\ MaxLen \in Nat /\ MaxLen > Limit /\ Window \in Nat
  BY LenProperties, Numbers
<1>2. PICK d \in Nat : Lacks(w, h, t, d)
  BY DEF Remembers
<1>3. Len(h) = d + Len(w) /\ \A i \in 1 .. Len(w) : w[i] = h[d + i]
  BY <1>2 DEF Lacks
<1>4. Sorted(w)
  <2> SUFFICES ASSUME NEW i \in 1 .. Len(w), NEW j \in 1 .. Len(w), i <= j PROVE w[i] <= w[j]
    BY <1>1 DEF Sorted
  <2>1. d + i \in DOMAIN h /\ d + j \in DOMAIN h /\ d + i <= d + j
    BY <1>1, <1>3
  <2>2. h[d + i] <= h[d + j]
    BY <2>1 DEF Sorted
  <2> QED BY <1>3, <2>2
<1>5. CASE Len(w) > Limit
  <2>1. Len(w) - Limit \in 1 .. Len(w) /\ d + (Len(w) - Limit) = Len(h) - Limit /\ Len(h) > Limit
    BY <1>1, <1>3, <1>5
  <2>2. w[Len(w) - Limit] = h[Len(h) - Limit]
    BY <1>3, <2>1
  <2> QED BY <1>4, <1>5, <2>1, <2>2 DEF Over
<1>6. CASE Len(w) <= Limit /\ Len(h) > Limit
  <2>1. d \in DOMAIN h /\ Len(h) - Limit \in DOMAIN h /\ Len(h) - Limit <= d /\ Len(w) # MaxLen /\ d # 0
    <3>1. Len(w) # MaxLen /\ d # 0 /\ Len(h) - Limit <= d
      <4>1. /\ Len(w) \in Nat /\ Limit \in Nat /\ MaxLen \in Nat /\ MaxLen > Limit
            /\ Len(h) = d + Len(w)
        BY <1>1, <1>3
      <4>2. Len(w) <= Limit /\ Len(h) > Limit
        BY <1>6
      <4>3. Len(w) # MaxLen
        BY <4>1, <4>2
      <4>4. d # 0
        BY <4>1, <4>2
      <4>5. Len(h) - Limit <= d
        BY <4>1, <4>2
      <4> QED BY <4>3, <4>4, <4>5
    <3>2. d \in 1 .. Len(h)
      <4>1. d \in Nat /\ d # 0 /\ Len(w) \in Nat /\ Len(h) = d + Len(w)
        BY <1>1, <1>3, <3>1
      <4> QED BY <4>1
    <3>3. Len(h) - Limit \in 1 .. Len(h)
      <4>1. Len(h) \in Nat /\ Limit \in Nat /\ Len(h) > Limit
        BY <1>1, <1>6
      <4> QED BY <4>1
    <3> QED BY <1>1, <3>1, <3>2, <3>3
  <2>2. t - h[d] >= Window
    BY <1>2, <2>1 DEF Lacks
  <2>3. h[Len(h) - Limit] <= h[d] /\ h[Len(h) - Limit] \in Nat /\ h[d] \in Nat
    BY <1>1, <2>1, ElementOfSeq DEF Sorted
  <2>4. t - h[Len(h) - Limit] >= Window
    BY <1>1, <2>2, <2>3, Aging
  <2>5. ~(t - h[Len(h) - Limit] < Window)
    BY <1>1, <2>3, <2>4
  <2>6. ~(Len(w) > Limit)
    BY <1>1, <1>6
  <2> QED BY <1>4, <2>5, <2>6 DEF Over
<1>7. CASE Len(h) <= Limit
  <2>1. ~(Len(w) > Limit) /\ ~(Len(h) > Limit)
    BY <1>1, <1>3, <1>7
  <2> QED BY <1>4, <2>1 DEF Over
<1> QED BY <1>1, <1>5, <1>6, <1>7

LEMMA RemembersLater ==
    ASSUME NEW w \in Seq(Nat), NEW h \in Seq(Nat), NEW t \in Nat, Remembers(w, h, t)
    PROVE  Remembers(w, h, t + 1)
<1>1. PICK d \in Nat : Lacks(w, h, t, d)
  BY DEF Remembers
<1>2. d # 0 /\ Len(w) # MaxLen => t + 1 - h[d] >= Window
  <2> SUFFICES ASSUME d # 0, Len(w) # MaxLen PROVE t + 1 - h[d] >= Window
    OBVIOUS
  <2>1. t - h[d] >= Window /\ Len(h) = d + Len(w) /\ Len(w) \in Nat /\ Window \in Nat
    BY <1>1, LenProperties, Numbers DEF Lacks
  <2>2. h[d] \in Nat
    BY <2>1, ElementOfSeq
  <2> QED BY <2>1, <2>2
<1>3. Lacks(w, h, t + 1, d)
  BY <1>1, <1>2 DEF Lacks
<1> QED BY <1>3 DEF Remembers

\* What the cleanup forgets is of no account.
LEMMA RemembersNothing ==
    ASSUME NEW w \in Seq(Nat), NEW h \in Seq(Nat), NEW t \in Nat, Remembers(w, h, t),
           \A i \in DOMAIN w : t - w[i] > Forget
    PROVE  Remembers(<<>>, h, t)
<1>1. PICK d \in Nat : Lacks(w, h, t, d)
  BY DEF Remembers
<1>2. /\ Len(w) \in Nat /\ Len(h) = d + Len(w) /\ DOMAIN w = 1 .. Len(w)
      /\ Forget \in Nat /\ Window \in Nat /\ Forget >= Window /\ MaxLen \in Nat /\ MaxLen # 0
  BY <1>1, LenProperties, Numbers DEF Lacks
<1>3. CASE Len(w) = 0
  <2>1. Len(h) = d /\ (d = 0 \/ t - h[d] >= Window)
    BY <1>1, <1>2, <1>3 DEF Lacks
  <2>2. Lacks(<<>>, h, t, d)
    BY <2>1 DEF Lacks
  <2> QED BY <2>2 DEF Remembers
<1>4. CASE Len(w) # 0
  <2>1. Len(w) \in 1 .. Len(w) /\ d + Len(w) \in 1 .. Len(h)
    BY <1>2, <1>4
  <2>2. w[Len(w)] = h[d + Len(w)] /\ t - w[Len(w)] > Forget /\ w[Len(w)] \in Nat
    BY <1>1, <1>2, <2>1, ElementOfSeq DEF Lacks
  <2>3. t - h[d + Len(w)] >= Window
    BY <1>2, <2>2
  <2>4. Len(h) \in Nat /\ Lacks(<<>>, h, t, Len(h))
    BY <1>2, <2>3 DEF Lacks
  <2> QED BY <2>4 DEF Remembers
<1> QED BY <1>3, <1>4


-----------------------------------------------------------------------------
(* The inductive invariant.                                                *)

History ==
    \A ip \in IPs : /\ Sorted(hits[ip]) /\ UpTo(hits[ip], now)
                    /\ passed[ip] \subseteq DOMAIN hits[ip]

Memory == \A ip \in IPs : Remembers(rate_limits[ip], hits[ip], now)

Latest(w) == w[Len(w)]

Quiet ==
    /\ sinceCleanup <= CleanupInterval + Slack
    /\ \A ip \in IPs : rate_limits[ip] # <<>> => now - Latest(rate_limits[ip]) <= Forget + sinceCleanup

Inv == TypeOK /\ History /\ Memory /\ Quiet /\ PassBound

\* What a call leaves behind, and that it is answered by the whole history.
LEMMA CallFacts ==
    ASSUME Inv, NEW ip \in IPs, IsRateLimited(ip)
    PROVE  /\ rate_limits'[ip] \in Seq(Nat) /\ Len(rate_limits'[ip]) <= MaxLen
           /\ Latest(rate_limits'[ip]) = now
           /\ hits'[ip] \in Seq(Nat) /\ DOMAIN hits'[ip] = 1 .. Len(hits[ip]) + 1
           /\ Len(hits'[ip]) = Len(hits[ip]) + 1
           /\ \A i \in DOMAIN hits[ip] : hits'[ip][i] = hits[ip][i]
           /\ Sorted(hits'[ip]) /\ UpTo(hits'[ip], now)
           /\ Remembers(rate_limits'[ip], hits'[ip], now)
           /\ Recent(rate_limits'[ip]) > Limit <=> Over(hits'[ip], now)
<1> DEFINE w == rate_limits[ip]
           h == hits[ip]
<1>1. /\ w \in Seq(Nat) /\ h \in Seq(Nat) /\ now \in Nat /\ Len(w) <= MaxLen
      /\ Sorted(h) /\ UpTo(h, now) /\ Remembers(w, h, now)
  BY DEF Inv, TypeOK, History, Memory
<1>2. rate_limits'[ip] = Appended(w, now) /\ hits'[ip] = Append(h, now)
  BY DEF IsRateLimited, Inv, TypeOK
<1> HIDE DEF w, h
<1>3. /\ Appended(w, now) \in Seq(Nat) /\ Latest(Appended(w, now)) = now
      /\ Len(Appended(w, now)) = IF Len(w) < MaxLen THEN Len(w) + 1 ELSE MaxLen
  BY <1>1, AppendedFacts DEF Latest
<1>4. Len(Appended(w, now)) <= MaxLen
  <2>1. Len(w) \in Nat /\ MaxLen \in Nat
    BY <1>1, LenProperties, Numbers
  <2> QED BY <1>3, <2>1
<1>5. /\ Append(h, now) \in Seq(Nat) /\ Len(Append(h, now)) = Len(h) + 1
      /\ \A i \in 1 .. Len(h) : Append(h, now)[i] = h[i]
      /\ Sorted(Append(h, now)) /\ UpTo(Append(h, now), now)
  BY <1>1, AppendFacts
<1>6. DOMAIN h = 1 .. Len(h) /\ DOMAIN Append(h, now) = 1 .. Len(h) + 1
  BY <1>1, <1>5, LenProperties
<1>7. Remembers(Appended(w, now), Append(h, now), now)
  BY <1>1, RemembersCall
<1>8. Sorted(Appended(w, now)) /\ (Over(Appended(w, now), now) <=> Over(Append(h, now), now))
  BY <1>1, <1>3, <1>5, <1>7, SameVerdict
<1>9. Recent(Appended(w, now)) > Limit <=> Over(Appended(w, now), now)
  BY <1>1, <1>3, <1>8, CountByPosition DEF Recent
<1> QED BY <1>2, <1>3, <1>4, <1>5, <1>6, <1>7, <1>8, <1>9 DEF h

LEMMA InvInit == ASSUME Init PROVE Inv
<1>1. now = 0 /\ sinceCleanup = 0
  BY DEF Init
<1>2. ASSUME NEW ip \in IPs
      PROVE  /\ rate_limits[ip] = <<>> /\ hits[ip] = <<>> /\ passed[ip] = {}
             /\ Sorted(hits[ip]) /\ UpTo(hits[ip], now)
             /\ Remembers(rate_limits[ip], hits[ip], now)
  <2>1. rate_limits[ip] = <<>> /\ hits[ip] = <<>> /\ passed[ip] = {}
    BY DEF Init, Empty
  <2>2. Lacks(<<>>, <<>>, now, 0)
    BY DEF Lacks
  <2> QED BY <2>1, <2>2 DEF Remembers, Sorted, UpTo
<1>3. TypeOK
  <2>1. rate_limits \in [IPs -> Seq(Nat)] /\ hits \in [IPs -> Seq(Nat)] /\ passed \in [IPs -> SUBSET Nat]
    BY DEF Init, Empty
  <2> QED BY <1>1, <1>2, <2>1, Numbers DEF TypeOK
<1>4. Quiet
  BY <1>1, <1>2, Numbers DEF Quiet
<1>5. PassBound
  <2> SUFFICES ASSUME NEW ip \in IPs
               PROVE  Cardinality({p \in passed[ip] : now - hits[ip][p] < Window}) <= Limit
    BY DEF PassBound
  <2>1. {p \in passed[ip] : now - hits[ip][p] < Window} = {}
    BY <1>2
  <2> QED BY <2>1, FS_EmptySet, Numbers
<1> QED BY <1>2, <1>3, <1>4, <1>5 DEF Inv, History, Memory

LEMMA CallKeeps == ASSUME Inv, NEW ip \in IPs, IsRateLimited(ip) PROVE Inv'
<1>1. /\ rate_limits'[ip] \in Seq(Nat) /\ Len(rate_limits'[ip]) <= MaxLen
      /\ Latest(rate_limits'[ip]) = now
      /\ hits'[ip] \in Seq(Nat) /\ DOMAIN hits'[ip] = 1 .. Len(hits[ip]) + 1
      /\ Len(hits'[ip]) = Len(hits[ip]) + 1
      /\ \A i \in DOMAIN hits[ip] : hits'[ip][i] = hits[ip][i]
      /\ Sorted(hits'[ip]) /\ UpTo(hits'[ip], now)
      /\ Remembers(rate_limits'[ip], hits'[ip], now)
      /\ Recent(rate_limits'[ip]) > Limit <=> Over(hits'[ip], now)
  BY CallFacts
<1>2. /\ now' = now /\ sinceCleanup' = sinceCleanup
      /\ rate_limits' = [rate_limits EXCEPT ![ip] = Appended(@, now)]
      /\ hits' = [hits EXCEPT ![ip] = Append(@, now)]
      /\ passed' = IF Recent(rate_limits'[ip]) > Limit THEN passed
                   ELSE [passed EXCEPT ![ip] = @ \cup {Len(hits'[ip])}]
  BY DEF IsRateLimited
<1>3. /\ now \in Nat /\ sinceCleanup \in Nat
      /\ rate_limits \in [IPs -> Seq(Nat)] /\ hits \in [IPs -> Seq(Nat)] /\ passed \in [IPs -> SUBSET Nat]
  BY DEF Inv, TypeOK
<1>4. Len(hits[ip]) \in Nat /\ DOMAIN hits[ip] = 1 .. Len(hits[ip])
  BY <1>3, LenProperties
<1>5. ASSUME NEW q \in IPs, q # ip
      PROVE  rate_limits'[q] = rate_limits[q] /\ hits'[q] = hits[q] /\ passed'[q] = passed[q]
  BY <1>2, <1>3, <1>5
<1>6. passed'[ip] \in {passed[ip], passed[ip] \cup {Len(hits[ip]) + 1}}
  BY <1>1, <1>2, <1>3
<1>7. TypeOK'
  <2>1. rate_limits' \in [IPs -> Seq(Nat)] /\ hits' \in [IPs -> Seq(Nat)]
    BY <1>1, <1>2, <1>3, <1>5
  <2>2. passed' \in [IPs -> SUBSET Nat]
    BY <1>1, <1>2, <1>3, <1>4
  <2>3. \A q \in IPs : Len(rate_limits'[q]) <= MaxLen
    BY <1>1, <1>5 DEF Inv, TypeOK
  <2> QED BY <1>2, <1>3, <2>1, <2>2, <2>3 DEF TypeOK
<1>8. History'
  <2>1. passed'[ip] \subseteq DOMAIN hits'[ip]
    BY <1>1, <1>4, <1>6 DEF Inv, History
  <2> QED BY <1>1, <1>2, <1>5, <2>1 DEF Inv, History
<1>9. Memory'
  BY <1>1, <1>2, <1>5 DEF Inv, Memory
<1>10. Quiet'
  <2>1. now - now <= Forget + sinceCleanup
    BY <1>3, Numbers
  <2> QED BY <1>1, <1>2, <1>5, <2>1 DEF Inv, Quiet, Latest
<1>11. PassBound'
  <2> SUFFICES ASSUME NEW q \in IPs
               PROVE  Cardinality({p \in passed'[q] : now - hits'[q][p] < Window}) <= Limit
    BY <1>2 DEF PassBound
  <2>1. CASE q # ip
    BY <1>5, <2>1 DEF Inv, PassBound
  <2>2. CASE q = ip /\ Over(hits'[ip], now)
    <3>1. passed'[ip] = passed[ip] /\ passed[ip] \subseteq DOMAIN hits[ip]
      BY <1>1, <1>2, <2>2 DEF Inv, History
    <3>2. \A p \in passed[ip] : hits'[ip][p] = hits[ip][p]
      BY <1>1, <3>1
    <3>3. {p \in passed'[ip] : now - hits'[ip][p] < Window} = {p \in passed[ip] : now - hits[ip][p] < Window}
      BY <3>1, <3>2
    <3> QED BY <2>2, <3>3 DEF Inv, PassBound
  \* All calls in the window are no more than Limit, then.
  <2>3. CASE q = ip /\ ~Over(hits'[ip], now)
    <3> DEFINE All  == {i \in DOMAIN hits'[ip] : now - hits'[ip][i] < Window}
               Pass == {p \in passed'[ip] : now - hits'[ip][p] < Window}
    <3>1. ~(Cardinality(All) > Limit)
      BY <1>1, <1>3, <2>3, CountByPosition
    <3>2. IsFiniteSet(All)
      <4>1. IsFiniteSet(1 .. Len(hits[ip]) + 1)
        BY <1>4, FS_Interval
      <4>2. All \in SUBSET (1 .. Len(hits[ip]) + 1)
        BY <1>1
      <4> QED BY <4>1, <4>2, FS_Subset
    <3>3. Pass \in SUBSET All
      BY <1>8 DEF History
    <3>4. Cardinality(Pass) <= Cardinality(All) /\ Cardinality(Pass) \in Nat /\ Cardinality(All) \in Nat
      BY <3>2, <3>3, FS_Subset, FS_CardinalityType
    <3> HIDE DEF All, Pass
    <3>5. Cardinality(Pass) <= Limit
      BY <3>1, <3>4, Numbers
    <3> QED BY <2>3, <3>5 DEF Pass
  <2> QED BY <2>1, <2>2, <2>3
<1> QED BY <1>7, <1>8, <1>9, <1>10, <1>11 DEF Inv

LEMMA CleanupKeeps == ASSUME Inv, CleanupOldConnections PROVE Inv'
<1>1. /\ UNCHANGED <<now, hits, passed>> /\ sinceCleanup' = 0
      /\ rate_limits' = [q \in IPs |-> IF q \in Stale THEN <<>> ELSE rate_limits[q]]
  BY DEF CleanupOldConnections
<1>2. now \in Nat /\ rate_limits \in [IPs -> Seq(Nat)] /\ hits \in [IPs -> Seq(Nat)]
  BY DEF Inv, TypeOK
<1>3. ASSUME NEW ip \in IPs
      PROVE  /\ rate_limits'[ip] \in Seq(Nat) /\ Len(rate_limits'[ip]) <= MaxLen
             /\ Remembers(rate_limits'[ip], hits[ip], now)
             /\ rate_limits'[ip] # <<>> => now - Latest(rate_limits'[ip]) <= Forget
  <2>1. CASE ip \in Stale
    <3>1. \A i \in DOMAIN rate_limits[ip] : now - rate_limits[ip][i] > Forget
      BY <2>1 DEF Stale
    <3>2. Remembers(<<>>, hits[ip], now)
      BY <1>2, <3>1, RemembersNothing DEF Inv, Memory
    <3> QED BY <1>1, <2>1, <3>2, Numbers
  <2>2. CASE ip \notin Stale
    <3> DEFINE w == rate_limits[ip]
    <3>1. rate_limits'[ip] = w /\ w \in Seq(Nat) /\ DOMAIN w = 1 .. Len(w) /\ Len(w) \in Nat
      BY <1>1, <1>2, <2>2, LenProperties
    <3>2. PICK i \in DOMAIN w : ~(now - w[i] > Forget)
      BY <2>2 DEF Stale
    <3>3. Sorted(w) /\ Remembers(w, hits[ip], now)
      BY <1>2, SameVerdict DEF Inv, History, Memory
    <3> HIDE DEF w
    <3>4. Len(w) \in DOMAIN w /\ i <= Len(w)
      BY <3>1, <3>2
    <3>5. w[i] <= w[Len(w)] /\ w[i] \in Nat /\ w[Len(w)] \in Nat
      BY <3>1, <3>2, <3>3, <3>4, ElementOfSeq DEF Sorted
    <3>6. now - w[Len(w)] <= Forget
      BY <1>2, <3>2, <3>5, Numbers
    <3>7. Len(w) <= MaxLen
      BY DEF Inv, TypeOK, w
    <3> QED BY <3>1, <3>3, <3>6, <3>7 DEF Latest
  <2> QED BY <2>1, <2>2
<1>4. TypeOK'
  <2>1. rate_limits' \in [IPs -> Seq(Nat)]
    BY <1>1, <1>3
  <2> QED BY <1>1, <1>3, <2>1 DEF Inv, TypeOK
<1>5. Quiet'
  BY <1>1, <1>3, Numbers DEF Quiet
<1> QED BY <1>1, <1>3, <1>4, <1>5 DEF Inv, History, Memory, PassBound

LEMMA TickKeeps == ASSUME Inv, Tick PROVE Inv'
<1>1. /\ now' = now + 1 /\ sinceCleanup' = sinceCleanup + 1
      /\ sinceCleanup < CleanupInterval + Slack
      /\ UNCHANGED <<rate_limits, hits, passed>>
  BY DEF Tick
<1>2. /\ now \in Nat /\ sinceCleanup \in Nat
      /\ rate_limits \in [IPs -> Seq(Nat)] /\ hits \in [IPs -> Seq(Nat)] /\ passed \in [IPs -> SUBSET Nat]
  BY DEF Inv, TypeOK
<1>3. ASSUME NEW ip \in IPs, NEW i \in DOMAIN hits[ip] PROVE hits[ip][i] \in Nat /\ hits[ip][i] <= now
  BY <1>2, ElementOfSeq, LenProperties DEF Inv, History, UpTo
<1>4. History'
  <2>1. ASSUME NEW ip \in IPs PROVE UpTo(hits[ip], now + 1)
    BY <1>2, <1>3 DEF UpTo
  <2> QED BY <1>1, <2>1 DEF Inv, History
<1>5. Memory'
  BY <1>1, <1>2, RemembersLater DEF Inv, Memory
<1>6. Quiet'
  <2>1. ASSUME NEW ip \in IPs, rate_limits[ip] # <<>>
        PROVE  /\ Latest(rate_limits[ip]) \in Nat
               /\ now + 1 - Latest(rate_limits[ip]) <= Forget + (sinceCleanup + 1)
    <3>1. now - Latest(rate_limits[ip]) <= Forget + sinceCleanup
      BY <2>1 DEF Inv, Quiet
    <3>2. Latest(rate_limits[ip]) \in Nat
      BY <1>2, <2>1, ElementOfSeq, LenProperties, EmptySeq DEF Latest
    <3> QED BY <1>2, <3>1, <3>2, Numbers
  <2>2. sinceCleanup + 1 <= CleanupInterval + Slack
    BY <1>1, <1>2, Numbers
  <2>3. rate_limits' = rate_limits /\ now' = now + 1 /\ sinceCleanup' = sinceCleanup + 1
    BY <1>1
  <2>4. ASSUME NEW ip \in IPs, rate_limits'[ip] # <<>>
        PROVE  now' - Latest(rate_limits'[ip]) <= Forget + sinceCleanup'
    <3>1. rate_limits'[ip] = rate_limits[ip]
      BY <2>3
    <3>2. now \in Nat /\ sinceCleanup \in Nat /\ Forget \in Nat
      BY <1>2, Numbers
    <3> QED BY <2>1, <2>3, <2>4, <3>1, <3>2
  <2> QED BY <2>2, <2>3, <2>4 DEF Quiet
<1>7. PassBound'
  <2> SUFFICES ASSUME NEW ip \in IPs
               PROVE  Cardinality({p \in passed[ip] : now + 1 - hits[ip][p] < Window}) <= Limit
    <3>1. passed' = passed /\ hits' = hits /\ now' = now + 1
      BY <1>1
    <3>2. ASSUME NEW q \in IPs
          PROVE  {p \in passed'[q] : now' - hits'[q][p] < Window}
                    = {p \in passed[q] : now + 1 - hits[q][p] < Window}
      <4>1. passed'[q] = passed[q]
        BY <3>1
      <4>2. ASSUME NEW p \in passed[q]
            PROVE  now' - hits'[q][p] < Window <=> now + 1 - hits[q][p] < Window
        <5>1. hits[q][p] \in Nat /\ now \in Nat /\ Window \in Nat
          BY <1>2, <1>3, Numbers DEF Inv, History
        <5> QED BY <3>1, <5>1
      <4> QED BY <4>1, <4>2
    <3> QED BY <3>2 DEF PassBound
  <2> DEFINE Then == {p \in passed[ip] : now - hits[ip][p] < Window}
             Later == {p \in passed[ip] : now + 1 - hits[ip][p] < Window}
  <2>1. passed[ip] \subseteq DOMAIN hits[ip] /\ DOMAIN hits[ip] = 1 .. Len(hits[ip]) /\ Len(hits[ip]) \in Nat
    BY <1>2, LenProperties DEF Inv, History
  <2>2. IsFiniteSet(Then)
    <3>1. Then \in SUBSET (1 .. Len(hits[ip])) /\ IsFiniteSet(1 .. Len(hits[ip]))
      BY <2>1, FS_Interval
    <3> QED BY <3>1, FS_Subset
  <2>3. Later \in SUBSET Then
    <3> SUFFICES ASSUME NEW p \in passed[ip], now + 1 - hits[ip][p] < Window
                 PROVE  now - hits[ip][p] < Window
      OBVIOUS
    <3>1. hits[ip][p] \in Nat
      BY <1>3, <2>1
    <3> QED BY <1>2, <3>1, Numbers
  <2>4. Cardinality(Later) <= Cardinality(Then) /\ Cardinality(Later) \in Nat /\ Cardinality(Then) \in Nat
    BY <2>2, <2>3, FS_Subset, FS_CardinalityType
  <2>5. Cardinality(Then) <= Limit
    BY DEF Inv, PassBound
  <2> QED BY <2>4, <2>5, Numbers
<1> QED BY <1>1, <1>2, <1>4, <1>5, <1>6, <1>7 DEF Inv, TypeOK

LEMMA RestartKeeps == ASSUME Inv, Restart PROVE Inv'
<1>1. /\ now' = now /\ sinceCleanup' = 0 /\ now \in Nat
      /\ rate_limits' = Empty /\ hits' = Empty /\ passed' = [ip \in IPs |-> {}]
  BY DEF Restart, Inv, TypeOK
<1>2. ASSUME NEW ip \in IPs
      PROVE  /\ rate_limits'[ip] = <<>> /\ hits'[ip] = <<>> /\ passed'[ip] = {}
             /\ Sorted(hits'[ip]) /\ UpTo(hits'[ip], now)
             /\ Remembers(rate_limits'[ip], hits'[ip], now)
  <2>1. rate_limits'[ip] = <<>> /\ hits'[ip] = <<>> /\ passed'[ip] = {}
    BY <1>1 DEF Empty
  <2>2. Lacks(<<>>, <<>>, now, 0)
    BY DEF Lacks
  <2> QED BY <2>1, <2>2 DEF Remembers, Sorted, UpTo
<1>3. TypeOK'
  <2>1. rate_limits' \in [IPs -> Seq(Nat)] /\ hits' \in [IPs -> Seq(Nat)] /\ passed' \in [IPs -> SUBSET Nat]
    BY <1>1 DEF Empty
  <2> QED BY <1>1, <1>2, <2>1, Numbers DEF TypeOK
<1>4. Quiet'
  BY <1>1, <1>2, Numbers DEF Quiet
<1>5. PassBound'
  <2> SUFFICES ASSUME NEW ip \in IPs
               PROVE  Cardinality({p \in passed'[ip] : now - hits'[ip][p] < Window}) <= Limit
    BY <1>1 DEF PassBound
  <2>1. {p \in passed'[ip] : now - hits'[ip][p] < Window} = {}
    BY <1>2
  <2> QED BY <2>1, FS_EmptySet, Numbers
<1> QED BY <1>1, <1>2, <1>3, <1>4, <1>5 DEF Inv, History, Memory

LEMMA InvStep == ASSUME Inv, [Next]_vars PROVE Inv'
<1>1. CASE UNCHANGED vars
  BY <1>1 DEF Inv, TypeOK, History, Memory, Quiet, PassBound, vars
<1> QED BY <1>1, CallKeeps, CleanupKeeps, TickKeeps, RestartKeeps DEF Next

THEOREM Invariance == Spec => []Inv
<1>1. Init => Inv
  BY InvInit
<1>2. Inv /\ [Next]_vars => Inv'
  BY InvStep
<1> QED BY <1>1, <1>2, PTL DEF Spec

\* Type correctness for every choice of the constants; a deque keeps to its maxlen.
THEOREM RateTypes == Spec => []TypeOK
<1>1. Inv => TypeOK
  BY DEF Inv
<1> QED BY <1>1, Invariance, PTL

\* No more than Limit of an address's calls pass in any window of time, whatever
\* the deque pushed out and the cleanup forgot.
THEOREM AtMostLimitPass == Spec => []PassBound
<1>1. Inv => PassBound
  BY DEF Inv
<1> QED BY <1>1, Invariance, PTL

\* An address is forgotten, the lateness of the cleanup included.
THEOREM QuietAreForgotten == Spec => []ForgetBound
<1>1. Inv => ForgetBound
  <2> SUFFICES ASSUME Inv, NEW ip \in IPs, rate_limits[ip] # <<>>
               PROVE  now - Latest(rate_limits[ip]) <= Forget + CleanupInterval + Slack
    BY DEF ForgetBound, Latest
  <2>1. /\ now - Latest(rate_limits[ip]) <= Forget + sinceCleanup
        /\ sinceCleanup <= CleanupInterval + Slack
    BY DEF Inv, Quiet
  <2>2. now \in Nat /\ sinceCleanup \in Nat /\ Latest(rate_limits[ip]) \in Nat
    BY ElementOfSeq, LenProperties, EmptySeq DEF Inv, TypeOK, Latest
  <2> QED BY <2>1, <2>2, Numbers
<1> QED BY <1>1, Invariance, PTL

-----------------------------------------------------------------------------
(* The refinement: each step is one of the abstract limiter, or changes     *)
(* nothing that it sees.                                                    *)

LEMMA StepMaps ==
    ASSUME Inv, [Next]_vars
    PROVE  [Abstract!WindowNext]_(Abstract!windowVars)
<1>1. ASSUME NEW ip \in IPs, IsRateLimited(ip) PROVE Abstract!Hit(ip)
  <2>1. /\ hits' = [hits EXCEPT ![ip] = Append(@, now)] /\ now' = now
        /\ passed' = IF Recent(rate_limits'[ip]) > Limit THEN passed
                     ELSE [passed EXCEPT ![ip] = @ \cup {Len(hits'[ip])}]
    BY <1>1 DEF IsRateLimited
  <2>2. Recent(rate_limits'[ip]) > Limit <=> Over(hits'[ip], now)
    BY <1>1, CallFacts
  <2>3. Over(hits'[ip], now) <=> ~Abstract!Passes(hits'[ip], now)
    <3> DEFINE h == hits'[ip]
    <3>1. h \in Seq(Nat) /\ Len(h) \in Nat /\ now \in Nat /\ Limit \in Nat /\ Window \in Nat
      BY <1>1, CallFacts, LenProperties, Numbers DEF Inv, TypeOK
    <3> HIDE DEF h
    <3>2. CASE Len(h) > Limit
      <4>1. Len(h) - Limit \in 1 .. Len(h)
        BY <3>1, <3>2
      <4>2. h[Len(h) - Limit] \in Nat
        BY <3>1, <4>1, ElementOfSeq
      <4>3. Over(h, now) <=> now - h[Len(h) - Limit] < Window
        BY <3>2 DEF Over
      <4>4. ~(Len(h) <= Limit)
        BY <3>1, <3>2
      <4>5. Abstract!Passes(h, now) <=> now - h[Len(h) - Limit] >= Window
        BY <4>4 DEF Abstract!Passes
      <4>6. Over(h, now) <=> ~Abstract!Passes(h, now)
        BY <3>1, <4>2, <4>3, <4>5
      <4> QED BY <4>6 DEF h
    <3>3. CASE Len(h) <= Limit
      BY <3>1, <3>3 DEF Over, Abstract!Passes, h
    <3> QED BY <3>1, <3>2, <3>3
  <2> QED BY <2>1, <2>2, <2>3 DEF Abstract!Hit
<1>2. CASE CleanupOldConnections
  BY <1>2 DEF CleanupOldConnections, Abstract!windowVars
<1>3. CASE Tick
  BY <1>3 DEF Tick, Abstract!WindowNext, Abstract!Advance
<1>4. CASE Restart
  BY <1>4 DEF Restart, Empty, Abstract!WindowNext, Abstract!Begin, Abstract!NoHits, Abstract!NoPass
<1>5. CASE UNCHANGED vars
  BY <1>5 DEF vars, Abstract!windowVars
<1> QED BY <1>1, <1>2, <1>3, <1>4, <1>5 DEF Next, Abstract!WindowNext

\* is_rate_limited answers as a limiter that remembers every call.
THEOREM RefinesWindow == Spec => ImplementsWindow
<1>1. Init => Abstract!WindowInit
  BY DEF Init, Empty, Abstract!WindowInit, Abstract!NoHits, Abstract!NoPass
<1>2. Inv /\ [Next]_vars => [Abstract!WindowNext]_(Abstract!windowVars)
  BY StepMaps
<1> QED BY <1>1, <1>2, Invariance, PTL DEF Spec, ImplementsWindow, Abstract!WindowSpec
=============================================================================
