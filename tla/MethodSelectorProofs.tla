------------------------ MODULE MethodSelectorProofs ------------------------
(***************************************************************************)
(* Proofs about MethodSelector, for every accuracy a request may ask for,  *)
(* every set of capabilities and every list of methods: what a plan        *)
(* contains, and that the conversions lose nothing of it.                  *)
(***************************************************************************)
EXTENDS MethodSelector, FiniteSetTheorems, SequenceTheorems, TLAPS

-----------------------------------------------------------------------------
(* Lists restricted to a set.                                              *)

PlacesOf(order, S) == {i \in DOMAIN order : order[i] \in S}
Rank(places, i) == Cardinality({j \in places : j <= i})

LEMMA FirstNumbers ==
    ASSUME NEW n \in Nat
    PROVE  IsFiniteSet(1 .. n) /\ Cardinality(1 .. n) = n
<1>1. /\ IsFiniteSet(1 .. n)
      /\ Cardinality(1 .. n) = IF 1 > n THEN 0 ELSE n - 1 + 1
  BY FS_Interval
<1>2. QED BY <1>1

\* The places of a list are numbered without a gap: as many as there are, and in order.
LEMMA Ranks ==
    ASSUME NEW n \in Nat, NEW P \in SUBSET (1 .. n)
    PROVE  /\ IsFiniteSet(P) /\ Cardinality(P) \in Nat
           /\ \A i \in P : Rank(P, i) \in 1 .. Cardinality(P)
           /\ \A i, j \in P : i < j => Rank(P, i) < Rank(P, j)
           /\ \A k \in 1 .. Cardinality(P) : \E i \in P : Rank(P, i) = k
<1> DEFINE UpTo(i) == {j \in P : j <= i}
<1>1. IsFiniteSet(P) /\ Cardinality(P) \in Nat
  <2>1. IsFiniteSet(1 .. n)
    BY FS_Interval
  <2>2. IsFiniteSet(P)
    BY <2>1, FS_Subset
  <2>3. QED BY <2>2, FS_CardinalityType
<1>2. ASSUME NEW i \in P
      PROVE  /\ IsFiniteSet(UpTo(i))
             /\ Cardinality(UpTo(i)) \in 1 .. Cardinality(P)
  <2>1. UpTo(i) \in SUBSET P /\ i \in UpTo(i)
    BY <1>2
  <2>2. IsFiniteSet(UpTo(i)) /\ Cardinality(UpTo(i)) <= Cardinality(P)
    BY <1>1, <2>1, FS_Subset
  <2>3. Cardinality(UpTo(i)) \in Nat /\ Cardinality(UpTo(i)) # 0
    BY <2>1, <2>2, FS_CardinalityType, FS_EmptySet
  <2>4. QED BY <1>1, <2>2, <2>3
<1>3. ASSUME NEW i \in P, NEW j \in P, i < j
      PROVE  Cardinality(UpTo(i)) < Cardinality(UpTo(j))
  <2>1. UpTo(i) \in SUBSET UpTo(j) /\ j \in UpTo(j) /\ j \notin UpTo(i)
    <3>1. i \in 1 .. n /\ j \in 1 .. n
      OBVIOUS
    <3>2. \A l \in 1 .. n : l <= i => l <= j
      BY <1>3, <3>1
    <3>3. j <= j /\ ~(j <= i)
      BY <1>3, <3>1
    <3>4. UpTo(i) \in SUBSET UpTo(j)
      BY <3>2
    <3>5. QED BY <3>3, <3>4
  <2>2. Cardinality(UpTo(i)) <= Cardinality(UpTo(j)) /\ Cardinality(UpTo(i)) # Cardinality(UpTo(j))
    BY <1>2, <2>1, FS_Subset
  <2>3. QED BY <1>2, <2>2
<1>4. \A k \in 1 .. Cardinality(P) : \E i \in P : Cardinality(UpTo(i)) = k
  <2> DEFINE rank == [i \in P |-> Cardinality(UpTo(i))]
             all == 1 .. Cardinality(P)
  <2>1. rank \in Injection(P, all)
    <3>1. rank \in [P -> all]
      BY <1>2
    <3>2. ASSUME NEW i \in P, NEW j \in P, rank[i] = rank[j] PROVE i = j
      <4>1. i \in Int /\ j \in Int
        OBVIOUS
      <4>2. i < j => Cardinality(UpTo(i)) < Cardinality(UpTo(j))
        BY <1>3
      <4>3. j < i => Cardinality(UpTo(j)) < Cardinality(UpTo(i))
        BY <1>3
      <4>4. Cardinality(UpTo(i)) = Cardinality(UpTo(j)) /\ Cardinality(UpTo(i)) \in Int
        BY <1>2, <3>2
      <4>5. QED BY <4>1, <4>2, <4>3, <4>4
    <3>3. QED BY <3>1, <3>2 DEF Injection, IsInjective
  <2>2. IsFiniteSet(all) /\ Cardinality(all) = Cardinality(P)
    BY <1>1, FS_Interval
  <2>3. rank \in Surjection(P, all)
    BY <2>1, <2>2, FS_Injection
  <2>4. QED BY <2>3 DEF Surjection
<1>5. QED BY <1>1, <1>2, <1>3, <1>4 DEF Rank

\* What is left of a list has the members of the list that are in S, each where the list
\* had it among the others, and as often.
LEMMA PreferredFacts ==
    ASSUME NEW T, NEW order \in Seq(T), NEW S
    PROVE  /\ Preferred(order, S) \in Seq(T \cap S)
           /\ ToSet(Preferred(order, S)) = ToSet(order) \cap S
           /\ Len(Preferred(order, S)) = Cardinality(PlacesOf(order, S))
           /\ IsInjective(order) => IsInjective(Preferred(order, S))
<1> DEFINE P == PlacesOf(order, S)
           At(k) == CHOOSE i \in P : Rank(P, i) = k
<1>1. P \in SUBSET (1 .. Len(order)) /\ Len(order) \in Nat /\ DOMAIN order = 1 .. Len(order)
  BY DEF PlacesOf
<1>2. /\ Cardinality(P) \in Nat
      /\ \A i \in P : Rank(P, i) \in 1 .. Cardinality(P)
      /\ \A k \in 1 .. Cardinality(P) : \E i \in P : Rank(P, i) = k
      /\ \A i, j \in P : i < j => Rank(P, i) < Rank(P, j)
  <2> HIDE DEF P
  <2>1. QED BY <1>1, Ranks
<1>3. Preferred(order, S) = [k \in 1 .. Cardinality(P) |-> order[At(k)]]
  BY DEF Preferred, PlacesOf, Rank
<1>4. \A k \in 1 .. Cardinality(P) : At(k) \in P /\ Rank(P, At(k)) = k
  <2> HIDE DEF P
  <2>1. QED BY <1>2
<1>5. \A i \in P : At(Rank(P, i)) = i
  <2>1. \A i, j \in P : Rank(P, i) = Rank(P, j) => i = j
    <3> SUFFICES ASSUME NEW i \in P, NEW j \in P, Rank(P, i) = Rank(P, j) PROVE i = j
      OBVIOUS
    <3>1. i \in Int /\ j \in Int /\ Rank(P, i) \in Int
      BY <1>1, <1>2
    <3>2. (i < j => Rank(P, i) < Rank(P, j)) /\ (j < i => Rank(P, j) < Rank(P, i))
      BY <1>2
    <3> HIDE DEF P
    <3>3. QED BY <3>1, <3>2
  <2>2. \A i \in P : At(Rank(P, i)) \in P /\ Rank(P, At(Rank(P, i))) = Rank(P, i)
    BY <1>2, <1>4
  <2> HIDE DEF P, At
  <2>3. QED BY <2>1, <2>2
<1>6. \A i \in P : i \in DOMAIN order /\ order[i] \in T \cap S
  BY <1>1 DEF PlacesOf
<1> HIDE DEF At
<1>7. Preferred(order, S) \in Seq(T \cap S)
  <2> DEFINE n == Cardinality(P)
             U == T \cap S
  <2>1. \A k \in 1 .. n : order[At(k)] \in U
    BY <1>4, <1>6
  <2>2. n \in Nat
    BY <1>2
  <2> HIDE DEF n, U
  <2>3. [k \in 1 .. n |-> order[At(k)]] \in Seq(U)
    BY <2>1, <2>2
  <2>4. QED BY <1>3, <2>3 DEF n, U
<1>8. Len(Preferred(order, S)) = Cardinality(P)
  BY <1>2, <1>3
<1> HIDE DEF P
<1>9. ToSet(Preferred(order, S)) = ToSet(order) \cap S
  <2>1. ToSet(Preferred(order, S)) = {order[At(k)] : k \in 1 .. Cardinality(P)}
    BY <1>3 DEF ToSet
  <2>2. {order[At(k)] : k \in 1 .. Cardinality(P)} = {order[i] : i \in P}
    BY <1>2, <1>4, <1>5
  <2>3. {order[i] : i \in P} = ToSet(order) \cap S
    BY DEF P, PlacesOf, ToSet
  <2>4. QED BY <2>1, <2>2, <2>3
<1>10. IsInjective(order) => IsInjective(Preferred(order, S))
  <2> SUFFICES ASSUME IsInjective(order),
                      NEW k \in 1 .. Cardinality(P), NEW l \in 1 .. Cardinality(P),
                      order[At(k)] = order[At(l)]
               PROVE  k = l
    BY <1>3 DEF IsInjective
  <2>1. At(k) = At(l)
    BY <1>4, <1>6 DEF IsInjective
  <2>2. QED BY <1>4, <2>1
<1>11. QED BY <1>7, <1>8, <1>9, <1>10 DEF P

\* A list of nothing but members of S stays as it is.
LEMMA PreferredAll ==
    ASSUME NEW S, NEW order \in Seq(S)
    PROVE  Preferred(order, S) = order
<1> DEFINE n == Len(order)
<1>1. n \in Nat /\ DOMAIN order = 1 .. n /\ order = [k \in 1 .. n |-> order[k]]
  OBVIOUS
<1>2. PlacesOf(order, S) = 1 .. n
  BY <1>1 DEF PlacesOf
<1>3. Cardinality(1 .. n) = n
  BY <1>1, FirstNumbers
<1>4. \A i \in 1 .. n : Rank(1 .. n, i) = i
  <2> SUFFICES ASSUME NEW i \in 1 .. n PROVE Cardinality({j \in 1 .. n : j <= i}) = i
    BY DEF Rank
  <2>1. {j \in 1 .. n : j <= i} = 1 .. i
    BY <1>1
  <2>2. Cardinality(1 .. i) = i
    <3>1. i \in Nat
      BY <1>1
    <3>2. QED BY <3>1, FirstNumbers
  <2>3. QED BY <2>1, <2>2
<1>5. \A k \in 1 .. n : (CHOOSE i \in 1 .. n : Rank(1 .. n, i) = k) = k
  BY <1>4
<1>6. Preferred(order, S) = [k \in 1 .. n |-> order[CHOOSE i \in 1 .. n : Rank(1 .. n, i) = k]]
  <2> DEFINE P == PlacesOf(order, S)
  <2>1. Preferred(order, S) = [k \in 1 .. Cardinality(P) |-> order[CHOOSE i \in P : Rank(P, i) = k]]
    BY DEF Preferred, PlacesOf, Rank
  <2> HIDE DEF P, n
  <2>2. P = 1 .. n
    BY <1>2 DEF P
  <2>3. QED BY <1>3, <2>1, <2>2
<1> HIDE DEF n
<1>7. QED BY <1>1, <1>5, <1>6

LEMMA PreferredLength ==
    ASSUME NEW T, NEW order \in Seq(T), NEW S
    PROVE  Len(Preferred(order, S)) \in Nat /\ Len(Preferred(order, S)) <= Len(order)
<1>1. PlacesOf(order, S) \in SUBSET (1 .. Len(order)) /\ Len(order) \in Nat
  BY DEF PlacesOf
<1>2. IsFiniteSet(1 .. Len(order)) /\ Cardinality(1 .. Len(order)) = Len(order)
  BY <1>1, FirstNumbers
<1>3. Cardinality(PlacesOf(order, S)) <= Len(order) /\ Cardinality(PlacesOf(order, S)) \in Nat
  BY <1>1, <1>2, FS_Subset, FS_CardinalityType
<1>4. QED BY <1>3, PreferredFacts

-----------------------------------------------------------------------------
(* The methods of the request's class.                                     *)

Supported(caps) == caps \cup {"CellID"}

\* One or two methods, the second supported as well or the partner of the first.
Short(p, caps) ==
    /\ p \in Seq(Methods)
    /\ Len(p) \in {1, 2}
    /\ p[1] \in Supported(caps)
    /\ Len(p) = 2 => p[1] # p[2] /\ (p[2] \in Supported(caps) \/ <<p[1], p[2]>> \in Partners)

LEMMA ShortOne ==
    ASSUME NEW caps \in SUBSET Capabilities, NEW m \in Methods, m \in Supported(caps)
    PROVE  Short(<<m>>, caps)
BY DEF Short

\* What a list of one or two methods has of the capabilities is short, or nothing.
LEMMA ShortPreferred ==
    ASSUME NEW caps \in SUBSET Capabilities, NEW order \in Seq(Capabilities),
           Len(order) <= 2, IsInjective(order), Preferred(order, caps) # <<>>
    PROVE  Short(Preferred(order, caps), caps)
<1> DEFINE p == Preferred(order, caps)
<1>1. /\ p \in Seq(Capabilities \cap caps) /\ IsInjective(p)
      /\ Len(p) \in Nat /\ Len(p) <= Len(order)
  BY PreferredFacts, PreferredLength
<1>2. Len(p) # 0 /\ Len(order) \in Nat
  BY <1>1
<1>3. Len(p) \in {1, 2}
  <2>1. \A a, b \in Nat : a <= b /\ b <= 2 /\ a # 0 => a \in {1, 2}
    OBVIOUS
  <2>2. Len(p) \in Nat /\ Len(order) \in Nat /\ Len(p) # 0 /\ Len(p) <= Len(order) /\ Len(order) <= 2
    BY <1>1, <1>2
  <2> HIDE DEF p
  <2>3. QED BY Zenon, <2>1, <2>2
<1>4. \A i \in 1 .. Len(p) : p[i] \in caps /\ p[i] \in Capabilities
  BY <1>1
<1>5. p \in Seq(Methods)
  <2>1. \A m \in Capabilities \cap caps : m \in Methods
    BY DEF Capabilities, Methods
  <2>2. QED BY <1>1, <2>1
<1>6. Len(p) = 2 => p[1] # p[2]
  BY <1>1 DEF IsInjective
<1> HIDE DEF p
<1>7. p[1] \in caps /\ (Len(p) = 2 => p[2] \in caps)
  BY <1>3, <1>4
<1>8. QED BY <1>3, <1>5, <1>6, <1>7 DEF Short, Supported, p

LEMMA ShortDefault == ASSUME NEW caps \in SUBSET Capabilities PROVE Short(Default(caps), caps)
BY ShortOne DEF Default, Methods, Supported

LEMMA ShortHigh ==
    ASSUME NEW caps \in SUBSET Capabilities, NEW indoor \in BOOLEAN,
           HighAccuracy(caps, indoor) # <<>>
    PROVE  Short(HighAccuracy(caps, indoor), caps)
<1> DEFINE h == HighAccuracy(caps, indoor)
<1>1. CASE "AGNSS" \in caps /\ ~indoor
  <2> DEFINE next == Preferred(<<"DLTDOA">>, caps)
             dl == <<"DLTDOA">>
  <2>1. h = <<"AGNSS">> \o next
    BY <1>1 DEF HighAccuracy
  <2>2. dl \in Seq({"DLTDOA"}) /\ Len(dl) = 1
    OBVIOUS
  <2> HIDE DEF dl
  <2>3. /\ Preferred(dl, caps) \in Seq({"DLTDOA"} \cap caps)
        /\ Len(Preferred(dl, caps)) \in Nat /\ Len(Preferred(dl, caps)) <= 1
    BY <2>2, PreferredFacts, PreferredLength
  <2>4. /\ next \in Seq({"DLTDOA"} \cap caps)
        /\ Len(next) \in Nat /\ Len(next) <= 1
    BY <2>3 DEF dl
  <2> HIDE DEF next, h
  <2>5. CASE Len(next) = 0
    <3>1. h = <<"AGNSS">>
      BY <2>1, <2>4, <2>5
    <3>2. Short(h, caps)
      BY <1>1, <3>1, ShortOne DEF Methods, Supported
    <3>3. QED BY <3>2 DEF h
  <2>6. CASE Len(next) = 1
    <3>1. next[1] = "DLTDOA" /\ "DLTDOA" \in caps
      BY <2>4, <2>6
    <3>2. next \in Seq(Methods) /\ <<"AGNSS">> \in Seq(Methods) /\ Len(<<"AGNSS">>) = 1
      BY <2>4 DEF Methods
    <3>3. h \in Seq(Methods) /\ Len(h) = 2 /\ h[1] = "AGNSS" /\ h[2] = "DLTDOA"
      <4> DEFINE first == <<"AGNSS">>
      <4>1. first \in Seq(Methods) /\ Len(first) = 1 /\ first[1] = "AGNSS" /\ h = first \o next
        BY <2>1, <3>2
      <4> HIDE DEF first
      <4>2. /\ h \in Seq(Methods) /\ Len(h) = 1 + 1
            /\ \A i \in 1 .. 1 + 1 : h[i] = IF i <= 1 THEN first[i] ELSE next[i - 1]
        BY <2>6, <3>2, <4>1, ConcatProperties
      <4>3. h[1] = first[1] /\ h[2] = next[1]
        BY <4>2
      <4>4. QED BY <3>1, <4>1, <4>2, <4>3
    <3>4. Short(h, caps)
      BY <1>1, <3>1, <3>3 DEF Short, Supported
    <3>5. QED BY <3>4 DEF h
  <2>7. Len(next) = 0 \/ Len(next) = 1
    <3>1. \A a \in Nat : a <= 1 => a = 0 \/ a = 1
      OBVIOUS
    <3>2. QED BY Zenon, <2>4, <3>1
  <2>8. QED BY <2>5, <2>6, <2>7
<1>2. CASE ~("AGNSS" \in caps /\ ~indoor) /\ "WLAN" \in caps
  <2>1. h = <<"WLAN", "DLTDOA">>
    BY <1>2 DEF HighAccuracy
  <2>2. QED BY <1>2, <2>1 DEF Short, Supported, Methods, Partners
<1>3. CASE ~("AGNSS" \in caps /\ ~indoor) /\ "WLAN" \notin caps
  <2> DEFINE one == Preferred(<<"Bluetooth", "DLTDOA">>, caps)
             two == <<"Bluetooth", "DLTDOA">>
  <2>1. h = IF one = <<>> THEN <<>> ELSE <<Head(one)>>
    BY <1>3 DEF HighAccuracy
  <2>2. two \in Seq(Capabilities) /\ Len(two) = 2 /\ Len(two) <= 2 /\ IsInjective(two)
    BY DEF Capabilities, IsInjective
  <2> HIDE DEF two
  <2>3. one # <<>> => Short(one, caps)
    <3>1. Preferred(two, caps) # <<>> => Short(Preferred(two, caps), caps)
      BY <2>2, ShortPreferred
    <3>2. QED BY <3>1 DEF two
  <2> HIDE DEF one
  <2>4. one # <<>> /\ h = <<Head(one)>>
    BY <2>1
  <2>5. Head(one) \in Methods /\ Head(one) \in Supported(caps)
    BY <2>3, <2>4 DEF Short
  <2>6. QED BY <2>4, <2>5, ShortOne
<1>4. QED BY <1>1, <1>2, <1>3

LEMMA ShortMedium ==
    ASSUME NEW caps \in SUBSET Capabilities, MediumAccuracy(caps) # <<>>
    PROVE  Short(MediumAccuracy(caps), caps)
<1>1. CASE "DLTDOA" \in caps
  <2>1. MediumAccuracy(caps) = <<"DLTDOA", "MultiRTT">>
    BY <1>1 DEF MediumAccuracy
  <2>2. QED BY <1>1, <2>1 DEF Short, Supported, Methods, Partners
<1>2. CASE "DLTDOA" \notin caps
  <2> DEFINE one == <<"MultiRTT">>
  <2>1. one \in Seq(Capabilities) /\ Len(one) = 1 /\ Len(one) <= 2 /\ IsInjective(one)
    BY DEF Capabilities, IsInjective
  <2>2. MediumAccuracy(caps) = Preferred(one, caps)
    BY <1>2 DEF MediumAccuracy
  <2> HIDE DEF one
  <2>3. QED BY <2>1, <2>2, ShortPreferred
<1>3. QED BY <1>1, <1>2

LEMMA ShortRanging ==
    ASSUME NEW caps \in SUBSET Capabilities,
           Preferred(<<"MultiRTT", "NREcid">>, caps) # <<>>
    PROVE  Short(Preferred(<<"MultiRTT", "NREcid">>, caps), caps)
<1> DEFINE two == <<"MultiRTT", "NREcid">>
<1>1. two \in Seq(Capabilities) /\ Len(two) = 2 /\ Len(two) <= 2 /\ IsInjective(two)
  BY DEF Capabilities, IsInjective
<1>2. Preferred(two, caps) # <<>>
  OBVIOUS
<1> HIDE DEF two
<1>3. Short(Preferred(two, caps), caps)
  BY <1>1, <1>2, ShortPreferred
<1>4. QED BY <1>3 DEF two

\* Whatever the request asks for and the UE supports, its class has one or two methods, and
\* without delay one.
LEMMA PrimaryShort ==
    ASSUME NEW in, in.caps \in SUBSET Capabilities, in.indoor \in BOOLEAN
    PROVE  /\ Short(Primary(in), in.caps)
           /\ in.response = "NoDelay" => Len(Primary(in)) = 1
<1> DEFINE tolerant == CASE in.accuracy <= 10 -> HighAccuracy(in.caps, in.indoor)
                         [] in.accuracy \in 11 .. 50 -> MediumAccuracy(in.caps)
                         [] OTHER -> <<>>
           ranging == Preferred(<<"MultiRTT", "NREcid">>, in.caps)
<1>1. Short(Default(in.caps), in.caps) /\ Len(Default(in.caps)) = 1
  BY ShortDefault DEF Default
<1>2. ranging # <<>> => Short(ranging, in.caps)
  BY ShortRanging
<1>3. tolerant # <<>> => Short(tolerant, in.caps)
  BY ShortHigh, ShortMedium
<1>4. Short(<<"CellID">>, in.caps)
  BY ShortOne DEF Methods, Supported
<1>5. Primary(in) =
          CASE in.response = "NoDelay" -> Default(in.caps)
            [] in.response = "LowDelay" -> IF ranging = <<>> THEN <<"CellID">> ELSE ranging
            [] OTHER -> IF tolerant = <<>> THEN Default(in.caps) ELSE tolerant
  BY DEF Primary
<1> HIDE DEF tolerant, ranging
<1>6. CASE in.response = "NoDelay"
  BY <1>1, <1>5, <1>6
<1>7. CASE in.response = "LowDelay"
  BY <1>2, <1>4, <1>5, <1>7
<1>8. CASE in.response \notin {"NoDelay", "LowDelay"}
  BY <1>1, <1>3, <1>5, <1>8
<1>9. QED BY <1>6, <1>7, <1>8

-----------------------------------------------------------------------------
(* The plan.                                                               *)

LEMMA ConcatSet ==
    ASSUME NEW T, NEW p \in Seq(T), NEW f \in Seq(T)
    PROVE  ToSet(p \o f) = ToSet(p) \cup ToSet(f)
<1> DEFINE s == p \o f
           m == Len(p)
           n == Len(f)
<1>1. /\ m \in Nat /\ n \in Nat
      /\ DOMAIN p = 1 .. m /\ DOMAIN f = 1 .. n /\ DOMAIN s = 1 .. m + n
      /\ \A i \in 1 .. m + n : s[i] = IF i <= m THEN p[i] ELSE f[i - m]
  BY ConcatProperties
<1> HIDE DEF s, m, n
<1>2. \A i \in 1 .. m : p[i] \in ToSet(p)
  BY <1>1 DEF ToSet
<1>3. \A i \in 1 .. n : f[i] \in ToSet(f)
  BY <1>1 DEF ToSet
<1>4. ToSet(s) = ToSet(p) \cup ToSet(f)
  <2>1. ASSUME NEW x \in ToSet(s) PROVE x \in ToSet(p) \cup ToSet(f)
    <3>1. PICK i \in 1 .. m + n : x = s[i]
      BY <1>1 DEF ToSet
    <3>2. (i \in 1 .. m /\ s[i] = p[i]) \/ (i - m \in 1 .. n /\ s[i] = f[i - m])
      BY <1>1
    <3>3. QED BY <1>2, <1>3, <3>1, <3>2
  <2>2. ASSUME NEW x \in ToSet(p) PROVE x \in ToSet(s)
    <3>1. PICK i \in 1 .. m : x = p[i]
      BY <1>1 DEF ToSet
    <3>2. i \in 1 .. m + n /\ s[i] = p[i]
      BY <1>1
    <3>3. QED BY <1>1, <3>1, <3>2 DEF ToSet
  <2>3. ASSUME NEW x \in ToSet(f) PROVE x \in ToSet(s)
    <3>1. PICK i \in 1 .. n : x = f[i]
      BY <1>1 DEF ToSet
    <3>2. i + m \in 1 .. m + n /\ s[i + m] = f[i]
      BY <1>1
    <3>3. QED BY <1>1, <3>1, <3>2 DEF ToSet
  <2>4. QED BY <2>1, <2>2, <2>3
<1>5. QED BY <1>4 DEF s

\* Short methods, and after them supported ones that are not among them, each once.
LEMMA Joined ==
    ASSUME NEW caps \in SUBSET Capabilities, NEW p, Short(p, caps),
           NEW f \in Seq(Supported(caps)), IsInjective(f), ToSet(f) \cap ToSet(p) = {}
    PROVE  /\ p \o f \in Seq(Methods) /\ Len(p \o f) >= 1
           /\ Head(p \o f) = p[1]
           /\ \A i \in DOMAIN (p \o f) :
                (p \o f)[i] \notin Supported(caps) =>
                    i = 2 /\ <<(p \o f)[1], (p \o f)[2]>> \in Partners
           /\ IsInjective(p \o f)
<1> DEFINE s == p \o f
           m == Len(p)
           n == Len(f)
<1>1. f \in Seq(Methods) /\ n \in Nat /\ \A i \in 1 .. n : f[i] \in Supported(caps)
  <2>1. Supported(caps) \subseteq Methods
    BY DEF Supported, Capabilities, Methods
  <2>2. f \in Seq(Methods)
    BY <2>1, SeqMonotonic
  <2>3. QED BY <2>2
<1>2. p \in Seq(Methods) /\ (m = 1 \/ m = 2)
  BY DEF Short
<1>3. /\ s \in Seq(Methods) /\ Len(s) = m + n
      /\ \A i \in 1 .. m + n : s[i] = IF i <= m THEN p[i] ELSE f[i - m]
  BY <1>1, <1>2, ConcatProperties
<1>4. \A i \in 1 .. m : p[i] \in ToSet(p)
  BY <1>2 DEF ToSet
<1>5. \A i \in 1 .. n : f[i] \in ToSet(f)
  BY <1>1 DEF ToSet
<1>6. DOMAIN s = 1 .. m + n /\ DOMAIN p = 1 .. m /\ DOMAIN f = 1 .. n
  BY <1>1, <1>2, <1>3
<1>7. \A i \in 1 .. m, j \in 1 .. m : p[i] = p[j] => i = j
  BY <1>2 DEF Short
<1>8. \A i \in 1 .. n, j \in 1 .. n : f[i] = f[j] => i = j
  BY <1>6 DEF IsInjective
<1> HIDE DEF s, m, n
<1>9. Len(s) >= 1 /\ s[1] = p[1] /\ (m = 2 => s[2] = p[2])
  BY <1>1, <1>2, <1>3
<1>10. Head(s) = p[1]
  BY <1>3, <1>9
<1>11. ASSUME NEW i \in 1 .. m + n, s[i] \notin Supported(caps)
       PROVE  i = 2 /\ <<s[1], s[2]>> \in Partners
  <2>1. i <= m
    <3>1. i > m => i - m \in 1 .. n /\ s[i] = f[i - m]
      BY <1>1, <1>2, <1>3
    <3>2. QED BY <1>1, <1>2, <1>11, <3>1
  <2>2. s[i] = p[i] /\ (i = 1 \/ i = 2) /\ (i = 2 => m = 2)
    BY <1>1, <1>2, <1>3, <2>1
  <2>3. i = 2 /\ m = 2
    BY <1>11, <2>2 DEF Short
  <2>4. <<p[1], p[2]>> \in Partners
    BY <1>11, <2>2, <2>3 DEF Short, m
  <2>5. QED BY <1>9, <2>3, <2>4
<1>12. IsInjective(s)
  <2> SUFFICES ASSUME NEW i \in 1 .. m + n, NEW j \in 1 .. m + n, s[i] = s[j] PROVE i = j
    BY <1>6 DEF IsInjective
  <2>1. /\ i <= m => i \in 1 .. m /\ s[i] = p[i]
        /\ i > m => i - m \in 1 .. n /\ s[i] = f[i - m]
        /\ j <= m => j \in 1 .. m /\ s[j] = p[j]
        /\ j > m => j - m \in 1 .. n /\ s[j] = f[j - m]
    BY <1>1, <1>2, <1>3
  <2>2. CASE i <= m /\ j <= m
    BY <1>7, <2>1, <2>2
  <2>3. CASE i > m /\ j > m
    <3>1. i - m = j - m
      BY <1>8, <2>1, <2>3
    <3>2. QED BY <1>2, <3>1
  <2>4. CASE i <= m /\ j > m
    BY <1>4, <1>5, <2>1, <2>4
  <2>5. CASE i > m /\ j <= m
    BY <1>4, <1>5, <2>1, <2>5
  <2>6. (i <= m \/ i > m) /\ (j <= m \/ j > m)
    BY <1>2
  <2>7. QED BY <2>2, <2>3, <2>4, <2>5, <2>6
<1>13. QED BY <1>3, <1>6, <1>9, <1>10, <1>11, <1>12 DEF s

\* The plan of the methods of the class and the fallbacks after them.
Fallbacks(in) ==
    IF in.response = "NoDelay" THEN Preferred(<<"CellID">>, Methods \ {Primary(in)[1]})
    ELSE BuildFallbacks(Primary(in), in.caps)

LEMMA PlanParts ==
    ASSUME NEW in, in.caps \in SUBSET Capabilities, in.indoor \in BOOLEAN
    PROVE  /\ Plan(in) = Primary(in) \o Fallbacks(in)
           /\ SelectMethod(in).selected = Primary(in)[1]
           /\ SelectMethod(in).fallbacks \in Seq(Methods)
<1> DEFINE p == Primary(in)
           f == Fallbacks(in)
<1>1. p \in Seq(Methods) /\ (Len(p) = 1 \/ Len(p) = 2) /\ (in.response = "NoDelay" => Len(p) = 1)
  BY PrimaryShort DEF Short
<1>2. f \in Seq(Methods)
  <2>1. \A order \in Seq(Methods) : \A S : Preferred(order, S) \in Seq(Methods \cap S)
    BY PreferredFacts
  <2>2. \A S : \A s \in Seq(Methods \cap S) : s \in Seq(Methods)
    OBVIOUS
  <2>3. <<"CellID">> \in Seq(Methods) /\ Candidates \in Seq(Methods)
    BY DEF Methods, Candidates
  <2>4. QED BY <2>1, <2>2, <2>3 DEF Fallbacks, BuildFallbacks
<1>3. Head(p) = p[1]
  BY <1>1
<1>4. /\ SelectMethod(in).selected = p[1]
      /\ SelectMethod(in).fallbacks = IF in.response = "NoDelay" THEN f ELSE Tail(p) \o f
  BY <1>3 DEF SelectMethod, Result, Fallbacks
<1>5. SelectMethod(in).fallbacks = Tail(p) \o f
  <2>1. CASE in.response = "NoDelay"
    <3>1. p \in Seq(Methods) /\ Len(p) = 1
      BY <1>1, <2>1
    <3> HIDE DEF p
    <3>2. Tail(p) \in Seq(Methods) /\ Len(Tail(p)) = 0
      BY <3>1, HeadTailProperties
    <3>3. Tail(p) = <<>>
      BY <3>2, EmptySeq
    <3> USE DEF p
    <3>4. Tail(p) \o f = f
      BY <1>2, <3>3, ConcatEmptySeq
    <3>5. QED BY <1>4, <2>1, <3>4
  <2>2. QED BY <1>4, <2>1
<1> HIDE DEF p, f
<1>6. p # <<>> /\ Tail(p) \in Seq(Methods) /\ p = <<p[1]>> \o Tail(p) /\ <<p[1]>> \in Seq(Methods)
  BY <1>1
<1>7. <<p[1]>> \o (Tail(p) \o f) = p \o f
  BY <1>2, <1>6, ConcatAssociative
<1>8. Tail(p) \o f \in Seq(Methods)
  BY <1>2, <1>6
<1>9. Plan(in) = <<SelectMethod(in).selected>> \o SelectMethod(in).fallbacks
  BY DEF Plan
<1>10. QED BY <1>4, <1>5, <1>7, <1>8, <1>9 DEF p, f

\* The selector never plans what the UE does not support, but the partner of the first
\* method, plans nothing twice, and leaves out nothing that is supported, for every accuracy,
\* response time and set of capabilities.
THEOREM SelectionSound ==
    ASSUME NEW in, in.caps \in SUBSET Capabilities, in.indoor \in BOOLEAN
    PROVE  /\ Plan(in) \in Seq(Methods) /\ Len(Plan(in)) >= 1
           /\ Sound(Plan(in), in.caps, in.response = "NoDelay")
<1> DEFINE caps == in.caps
           p == Primary(in)
           f == Fallbacks(in)
<1>1. Short(p, caps) /\ (in.response = "NoDelay" => Len(p) = 1) /\ caps \in SUBSET Capabilities
  BY PrimaryShort
<1>2. p \in Seq(Methods) /\ p[1] \in ToSet(p)
  <2>1. p \in Seq(Methods) /\ 1 \in DOMAIN p
    BY <1>1 DEF Short
  <2>2. QED BY <2>1 DEF ToSet
<1>3. CASE in.response = "NoDelay"
  <2> DEFINE cell == <<"CellID">>
             S == Methods \ {p[1]}
  <2>1. cell \in Seq({"CellID"}) /\ IsInjective(cell)
    BY DEF IsInjective
  <2>2. f = Preferred(cell, S)
    BY <1>3 DEF Fallbacks
  <2>3. ToSet(p) = {p[1]}
    <3>1. DOMAIN p = {1}
      BY <1>1, <1>2, <1>3
    <3>2. QED BY <3>1 DEF ToSet
  <2>4. p[1] \notin S
    OBVIOUS
  <2> HIDE DEF cell, S, f, p, caps
  <2>5. f \in Seq({"CellID"} \cap S) /\ IsInjective(f) /\ ToSet(f) = ToSet(cell) \cap S
    BY <2>1, <2>2, PreferredFacts
  <2>6. f \in Seq(Supported(caps)) /\ ToSet(f) \cap ToSet(p) = {}
    <3>1. {"CellID"} \cap S \subseteq Supported(caps)
      BY DEF Supported
    <3>2. f \in Seq(Supported(caps))
      BY <2>5, <3>1, SeqMonotonic
    <3>3. QED BY <2>3, <2>4, <2>5, <3>2
  <2>7. /\ p \o f \in Seq(Methods) /\ Len(p \o f) >= 1
        /\ Head(p \o f) = p[1]
        /\ \A i \in DOMAIN (p \o f) :
             (p \o f)[i] \notin Supported(caps) =>
                 i = 2 /\ <<(p \o f)[1], (p \o f)[2]>> \in Partners
        /\ IsInjective(p \o f)
    BY <1>1, <2>5, <2>6, Joined
  <2>8. p[1] \in Supported(caps)
    BY <1>1 DEF Short
  <2>9. QED BY <1>3, <2>7, <2>8, PlanParts DEF Sound, Supported, p, f, caps
<1>4. CASE in.response # "NoDelay"
  <2> DEFINE S == Supported(caps) \ ToSet(p)
  <2>1. /\ Candidates \in Seq(Methods) /\ IsInjective(Candidates)
        /\ ToSet(Candidates) = (Capabilities \cup {"CellID"}) \ {"Barometric"}
    <3>1. Candidates \in Seq(Methods) /\ DOMAIN Candidates = 1 .. 7
      BY DEF Candidates, Methods
    <3>2. IsInjective(Candidates)
      BY <3>1 DEF Candidates, IsInjective
    <3>3. ToSet(Candidates) = {"AGNSS", "DLTDOA", "MultiRTT", "NREcid", "WLAN", "Bluetooth", "CellID"}
      BY <3>1 DEF Candidates, ToSet
    <3>4. QED BY <3>1, <3>2, <3>3 DEF Capabilities
  <2>2. f = Preferred(Candidates, S)
    BY <1>4 DEF Fallbacks, BuildFallbacks, Supported
  <2> HIDE DEF S, f, p, caps
  <2>3. f \in Seq(Methods \cap S) /\ IsInjective(f) /\ ToSet(f) = ToSet(Candidates) \cap S
    BY <2>1, <2>2, PreferredFacts
  <2>4. f \in Seq(Supported(caps)) /\ ToSet(f) \cap ToSet(p) = {}
    <3>1. Methods \cap S \subseteq Supported(caps)
      BY DEF S
    <3>2. f \in Seq(Supported(caps))
      BY <2>3, <3>1, SeqMonotonic
    <3>3. QED BY <2>3, <3>2 DEF S
  <2>5. /\ p \o f \in Seq(Methods) /\ Len(p \o f) >= 1
        /\ Head(p \o f) = p[1]
        /\ \A i \in DOMAIN (p \o f) :
             (p \o f)[i] \notin Supported(caps) =>
                 i = 2 /\ <<(p \o f)[1], (p \o f)[2]>> \in Partners
        /\ IsInjective(p \o f)
    <3>1. caps \in SUBSET Capabilities /\ Short(p, caps)
      BY <1>1
    <3>2. f \in Seq(Supported(caps)) /\ IsInjective(f) /\ ToSet(f) \cap ToSet(p) = {}
      BY <2>3, <2>4
    <3>3. QED BY <3>1, <3>2, Joined
  <2>6. p[1] \in Supported(caps)
    BY <1>1 DEF Short
  <2>7. Supported(caps) \ {"Barometric"} \subseteq ToSet(p \o f)
    <3>1. p \in Seq(Methods) /\ f \in Seq(Methods)
      BY <1>2, <2>3
    <3>2. ToSet(p \o f) = ToSet(p) \cup ToSet(f)
      BY <3>1, ConcatSet
    <3>3. QED BY <1>1, <2>1, <2>3, <3>2 DEF S, Supported
  <2>8. QED BY <1>4, <2>5, <2>6, <2>7, PlanParts DEF Sound, Supported, p, f, caps
<1>5. QED BY <1>3, <1>4

-----------------------------------------------------------------------------
(* The conversions.                                                        *)

LEMMA KnownKeepsAll ==
    ASSUME NEW methods \in Seq(Methods)
    PROVE  Known(methods, typesMethodToPb) = methods /\ Known(methods, PbMethodToTypes) = methods
<1>1. \A i \in DOMAIN methods : methods[i] \in Methods
  OBVIOUS
<1>2. methods = [i \in DOMAIN methods |-> methods[i]]
  OBVIOUS
<1>3. /\ [i \in DOMAIN methods |-> typesMethodToPb(methods[i])] = methods
      /\ [i \in DOMAIN methods |-> PbMethodToTypes(methods[i])] = methods
  BY <1>1, <1>2 DEF typesMethodToPb, PbMethodToTypes
<1>4. Preferred(methods, Methods) = methods
  BY PreferredAll
<1>5. QED BY <1>3, <1>4 DEF Known

\* The conversions of both servers and of the adapter lose no method and change none: what
\* the orchestrator attempts is what the selector chose, for the capabilities it knows of,
\* and for some of its own when it was sent none.  The response time is the one of a
\* tolerant request.
THEOREM ConversionsKeepPlan ==
    ASSUME NEW caps \in (SUBSET Capabilities) \cup {NoCapabilities}, NEW accuracy, NEW response,
           NEW indoor \in BOOLEAN
    PROVE  Select(Input(caps, accuracy, response, indoor)) =
               Plan(Input(IF caps = NoCapabilities THEN AssumedCapabilities ELSE caps,
                          accuracy, "DelayTolerant", indoor))
<1> DEFINE of == IF caps = NoCapabilities THEN AssumedCapabilities ELSE caps
           in == Input(of, accuracy, "DelayTolerant", indoor)
           r == SelectMethod(in)
           sent == [Input(caps, accuracy, response, indoor)
                        EXCEPT !.response = typesResponseTimeToPb(@)]
<1>1. of \in SUBSET Capabilities
  <2>1. AssumedCapabilities \subseteq Capabilities
    BY DEF AssumedCapabilities, Capabilities
  <2>2. QED BY <2>1
<1>2. PbReqToTypes(sent) = in
  <2> DEFINE t == typesResponseTimeToPb(response)
  <2>1. sent = [caps |-> caps, accuracy |-> accuracy, response |-> t, indoor |-> indoor]
    BY DEF Input
  <2> HIDE DEF t, sent
  <2>2. sent.caps = caps
    BY <2>1
  <2>3. PbReqToTypes(sent) = [sent EXCEPT !.caps = of, !.response = "DelayTolerant"]
    BY <2>2 DEF PbReqToTypes
  <2> HIDE DEF of
  <2>4. in = [caps |-> of, accuracy |-> accuracy, response |-> "DelayTolerant", indoor |-> indoor]
    BY DEF Input
  <2> HIDE DEF in
  <2>5. QED BY <2>1, <2>3, <2>4
<1>3. in.caps \in SUBSET Capabilities /\ in.indoor \in BOOLEAN
  BY <1>1 DEF Input
<1>4. Select(Input(caps, accuracy, response, indoor)) =
          LET q == TypesResultToPb(r) IN <<PbMethodToTypes(q.selected)>> \o Known(q.fallbacks, PbMethodToTypes)
  BY <1>2 DEF Select
<1>5. Plan(in) = <<r.selected>> \o r.fallbacks
  BY DEF Plan
<1>6. /\ r.selected = Primary(in)[1] /\ r.fallbacks \in Seq(Methods)
      /\ Primary(in)[1] \in Methods
  <2>1. Short(Primary(in), in.caps)
    BY <1>3, PrimaryShort
  <2>2. Primary(in) \in Seq(Methods) /\ 1 \in 1 .. Len(Primary(in))
    BY <2>1 DEF Short
  <2> HIDE DEF in
  <2>3. QED BY <1>3, <2>2, PlanParts
<1>7. r = [selected |-> r.selected, fallbacks |-> r.fallbacks, accuracy |-> r.accuracy, ms |-> r.ms]
  BY DEF SelectMethod, Result
<1> HIDE DEF r, in, of, sent
<1>8. /\ TypesResultToPb(r).selected = r.selected
      /\ TypesResultToPb(r).fallbacks = r.fallbacks
  <2>1. typesMethodToPb(r.selected) = r.selected
    BY <1>6 DEF typesMethodToPb
  <2>2. Known(r.fallbacks, typesMethodToPb) = r.fallbacks
    BY <1>6, KnownKeepsAll
  <2>3. TypesResultToPb(r) =
            [r EXCEPT !.selected = typesMethodToPb(@), !.fallbacks = Known(@, typesMethodToPb)]
    BY DEF TypesResultToPb
  <2>4. QED BY Zenon, <1>7, <2>1, <2>2, <2>3
<1>9. PbMethodToTypes(r.selected) = r.selected /\ Known(r.fallbacks, PbMethodToTypes) = r.fallbacks
  BY <1>6, KnownKeepsAll DEF PbMethodToTypes
<1>10. QED BY <1>4, <1>5, <1>8, <1>9 DEF in, of
=============================================================================
