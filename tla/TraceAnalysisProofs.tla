------------------------ MODULE TraceAnalysisProofs ------------------------
(***************************************************************************)
(* Proofs about the ids of queries, for every size of their parts, and     *)
(* about the analysis of the files, for every set of queries and hosts.    *)
(***************************************************************************)
EXTENDS MCTraceAnalysis, Remainders, SequenceTheorems, TLAPS

(* What is not negative stays so.                                          *)
LEMMA PartsNat ==
  ASSUME NEW n \in Nat, NEW a \in Nat, NEW r \in Nat
  PROVE  a * n + r \in Nat
<1>1. a * n \in Nat
  OBVIOUS
<1> QED BY <1>1

-----------------------------------------------------------------------------
(* The ids a client draws.                                                 *)

(* The address of a client, and the part of its ids that is its own.       *)
Ip(c)  == (((address[c][3] * OctetSize) + address[c][3]) * OctetSize + address[c][3]) * OctetSize
            + address[c][0]
Own(c) == (Ip(c) * RandomSize) + random[c]

UidTyped ==
  /\ address \in [Clients -> [0..3 -> Uids!Octets]]
  /\ random \in [Clients -> Uids!Randoms]
  /\ used \in [Clients -> Seq(Nat)]

(* The i-th id of a client is made of its own part and of i - 1, cut.      *)
UidsInv ==
  /\ UidTyped
  /\ \A c \in Clients : \A i \in 1..Len(used[c]) :
       used[c][i] = Own(c) * NumberSize + ((i - 1) % NumberSize)

(* The assumption on the sizes, as the lemmas above need it.               *)
LEMMA SizesPositive ==
  OctetSize \in Nat \ {0} /\ RandomSize \in Nat \ {0} /\ NumberSize \in Nat \ {0}
BY SizeAssumption

(* The parts of a client's ids are numbers.                                *)
LEMMA OwnTyped ==
  ASSUME UidTyped, NEW c \in Clients
  PROVE  /\ address[c][3] \in 0..OctetSize - 1 /\ address[c][0] \in 0..OctetSize - 1
         /\ random[c] \in 0..RandomSize - 1
         /\ Ip(c) \in Nat /\ Own(c) \in Nat
<1>1. /\ address[c][3] \in 0..OctetSize - 1 /\ address[c][0] \in 0..OctetSize - 1
      /\ random[c] \in 0..RandomSize - 1
  BY DEF UidTyped, Uids!Octets, Uids!Randoms
<1>2. address[c][3] \in Nat /\ address[c][0] \in Nat /\ random[c] \in Nat
  BY <1>1, SizesPositive
<1>3. (address[c][3] * OctetSize) + address[c][3] \in Nat
  BY <1>2, SizesPositive, PartsNat
<1>4. ((address[c][3] * OctetSize) + address[c][3]) * OctetSize + address[c][3] \in Nat
  BY <1>2, <1>3, SizesPositive, PartsNat
<1>5. Ip(c) \in Nat
  BY <1>2, <1>4, SizesPositive, PartsNat DEF Ip
<1>6. Own(c) \in Nat
  BY <1>2, <1>5, SizesPositive, PartsNat DEF Own
<1> QED BY <1>1, <1>5, <1>6

(* The id of a number, and what the analysis makes of it.                  *)
LEMMA UidParts ==
  ASSUME UidTyped, NEW c \in Clients, NEW k \in Nat
  PROVE  /\ Uids!get_query_uid(Uids!local_uid(c), k) = Own(c) * NumberSize + (k % NumberSize)
         /\ k % NumberSize \in 0..NumberSize - 1
         /\ Own(c) * NumberSize + (k % NumberSize) \in Nat
         /\ Uids!client_uid(Own(c) * NumberSize + (k % NumberSize)) = Own(c)
         /\ Uids!query_index(Own(c) * NumberSize + (k % NumberSize)) = k % NumberSize
         /\ Uids!client_uid(Uids!local_uid(c)) = Own(c)
<1>1. Uids!local_uid(c) = Own(c) * NumberSize
  BY DEF Uids!local_uid, Uids!generate_local_uid, Own, Ip
<1>2. Own(c) \in Nat
  BY OwnTyped
<1>3. k % NumberSize \in 0..NumberSize - 1
  BY SizesPositive
<1>4. k % NumberSize \in Nat
  BY <1>3, SizesPositive
<1>5. Own(c) * NumberSize + (k % NumberSize) \in Nat
  BY <1>2, <1>4, SizesPositive, PartsNat
<1>6. /\ (Own(c) * NumberSize + (k % NumberSize)) \div NumberSize = Own(c)
      /\ (Own(c) * NumberSize + (k % NumberSize)) % NumberSize = k % NumberSize
  <2>1. Own(c) \in Int
    BY <1>2
  <2> QED BY <1>3, <2>1, SizesPositive, PartsOf, Zenon
<1>7. (Own(c) * NumberSize) \div NumberSize = Own(c)
  <2>1. Own(c) \in Int /\ NumberSize \in Nat \ {0}
    BY <1>2, SizesPositive
  <2> QED BY <2>1, WholeOf, Zenon
<1>8. Uids!get_query_uid(Uids!local_uid(c), k) = Own(c) * NumberSize + (k % NumberSize)
  BY <1>1, Zenon DEF Uids!get_query_uid
<1>9. /\ Uids!client_uid(Own(c) * NumberSize + (k % NumberSize)) = Own(c)
      /\ Uids!query_index(Own(c) * NumberSize + (k % NumberSize)) = k % NumberSize
  BY <1>6, Zenon DEF Uids!client_uid, Uids!query_index
<1>10. Uids!client_uid(Uids!local_uid(c)) = Own(c)
  BY <1>1, <1>7, Zenon DEF Uids!client_uid
<1> QED BY <1>3, <1>5, <1>8, <1>9, <1>10, Zenon

(* A query draws the next id.                                              *)
LEMMA UidsStep == UidsInv /\ [Uids!Next]_uidVars => UidsInv'
<1> SUFFICES ASSUME UidsInv, [Uids!Next]_uidVars PROVE UidsInv'
  OBVIOUS
<1>1. CASE UNCHANGED uidVars
  BY <1>1 DEF uidVars, UidsInv, UidTyped, Own, Ip
<1>2. ASSUME NEW c \in Clients, Uids!Query(c) PROVE UidsInv'
  <2> DEFINE k == Len(used[c])
             id == Own(c) * NumberSize + (k % NumberSize)
  <2>1. UidTyped /\ used[c] \in Seq(Nat) /\ k \in Nat
    BY DEF UidsInv, UidTyped
  <2>2. Uids!get_query_uid(Uids!local_uid(c), k) = id /\ id \in Nat
    BY <2>1, UidParts
  <2>3. used' = [used EXCEPT ![c] = Append(used[c], id)] /\ UNCHANGED <<address, random>>
    BY <1>2, <2>2 DEF Uids!Query
  <2> HIDE DEF id
  <2>4. /\ Append(used[c], id) \in Seq(Nat)
        /\ Len(Append(used[c], id)) = k + 1
        /\ \A i \in 1..k : Append(used[c], id)[i] = used[c][i]
        /\ Append(used[c], id)[k + 1] = id
    BY <2>1, <2>2, AppendProperties
  <2>5. used' \in [Clients -> Seq(Nat)]
    BY <2>1, <2>3, <2>4 DEF UidTyped
  <2>6. UidTyped'
    BY <2>1, <2>3, <2>5 DEF UidTyped, Uids!Octets, Uids!Randoms
  <2>7. \A d \in Clients : Own(d)' = Own(d)
    BY <2>3 DEF Own, Ip
  <2>8. ASSUME NEW d \in Clients, NEW i \in 1..Len(used'[d])
        PROVE  used'[d][i] = Own(d) * NumberSize + ((i - 1) % NumberSize)
    <3>1. CASE d # c
      BY <2>1, <2>3, <3>1 DEF UidsInv, UidTyped
    <3>2. CASE d = c
      <4>1. used'[c] = Append(used[c], id)
        BY <2>1, <2>3 DEF UidTyped
      <4>2. CASE i \in 1..k
        BY <2>4, <3>2, <4>1, <4>2 DEF UidsInv
      <4>3. CASE i = k + 1
        <5>1. i - 1 = k
          BY <2>1, <4>3
        <5> QED BY <2>4, <3>2, <4>1, <4>3, <5>1 DEF id
      <4>4. i \in 1..k \/ i = k + 1
        BY <2>1, <2>4, <3>2, <4>1
      <4> QED BY <4>2, <4>3, <4>4
    <3> QED BY <3>1, <3>2
  <2> QED BY <2>6, <2>7, <2>8 DEF UidsInv
<1> QED BY <1>1, <1>2 DEF Uids!Next

(* Two clients with the same own part have the same random bits and the    *)
(* same first and last octet.                                              *)
LEMMA OwnApart ==
  ASSUME UidTyped, NEW c \in Clients, NEW d \in Clients, Own(c) = Own(d)
  PROVE  address[c][3] = address[d][3] /\ address[c][0] = address[d][0] /\ random[c] = random[d]
<1> DEFINE Mid(e)  == (address[e][3] * OctetSize) + address[e][3]
           High(e) == Mid(e) * OctetSize + address[e][3]
<1>1. \A e \in {c, d} : /\ address[e][3] \in 0..OctetSize - 1 /\ address[e][0] \in 0..OctetSize - 1
                        /\ random[e] \in 0..RandomSize - 1 /\ Ip(e) \in Nat
  BY OwnTyped
<1>2. Ip(c) = Ip(d) /\ random[c] = random[d]
  <2>1. (Ip(c) * RandomSize) + random[c] = (Ip(d) * RandomSize) + random[d]
    BY DEF Own
  <2>2. Ip(c) \in Int /\ Ip(d) \in Int
    BY <1>1
  <2> QED BY <1>1, <2>1, <2>2, SizesPositive, PartsUnique
<1>3. \A e \in {c, d} : address[e][3] \in Nat
  BY <1>1, SizesPositive
<1>4. \A e \in {c, d} : Mid(e) \in Nat /\ High(e) \in Nat
  BY <1>3, SizesPositive, PartsNat
<1>5. \A e \in {c, d} : Ip(e) = High(e) * OctetSize + address[e][0]
  BY DEF Ip
<1> HIDE DEF High
<1>6. High(c) = High(d) /\ address[c][0] = address[d][0]
  <2>1. High(c) * OctetSize + address[c][0] = High(d) * OctetSize + address[d][0]
    BY <1>2, <1>5
  <2>2. High(c) \in Int /\ High(d) \in Int
    BY <1>4
  <2> QED BY <1>1, <2>1, <2>2, SizesPositive, PartsUnique
<1>7. address[c][3] = address[d][3]
  <2> HIDE DEF Mid
  <2>1. Mid(c) * OctetSize + address[c][3] = Mid(d) * OctetSize + address[d][3]
    BY <1>6 DEF High
  <2>2. Mid(c) \in Int /\ Mid(d) \in Int
    BY <1>4
  <2>3. address[c][3] \in 0..OctetSize - 1 /\ address[d][3] \in 0..OctetSize - 1
    BY <1>1
  <2>4. OctetSize \in Nat \ {0}
    BY SizesPositive
  <2>5. Mid(c) = Mid(d) /\ address[c][3] = address[d][3]
    BY <2>1, <2>2, <2>3, <2>4, PartsUnique
  <2> QED BY <2>5
<1> QED BY <1>2, <1>6, <1>7

(* Numbers with the same remainder are a multiple apart.                   *)
LEMMA SameRemainder ==
  ASSUME NEW n \in Nat \ {0}, NEW i \in Int, NEW j \in Int, i % n = j % n
  PROVE  (i - j) % n = 0
<1>1. /\ i \div n \in Int /\ i % n \in 0..n - 1 /\ i = (i \div n) * n + (i % n)
      /\ j \div n \in Int /\ j % n \in 0..n - 1 /\ j = (j \div n) * n + (j % n)
  OBVIOUS
<1>2. PICK q \in Int, r \in Int, m \in Int : q = i \div n /\ r = j \div n /\ m = i % n
  BY <1>1
<1>5. i = q * n + m /\ j = r * n + m
  BY <1>1, <1>2
<1>3. i - j = (q - r) * n
  BY <1>5
<1>4. q - r \in Int
  OBVIOUS
<1> QED BY <1>3, <1>4, WholeOf

(* A number that fits is not cut.                                          *)
LEMMA NotCut ==
  ASSUME NEW n \in Nat \ {0}, NEW k \in 0..n - 1
  PROVE  k % n = k
<1>1. k \div n \in Int /\ k % n \in 0..n - 1 /\ k = (k \div n) * n + (k % n)
  OBVIOUS
<1>2. PICK z \in Int : z = 0
  OBVIOUS
<1>3. z * n + k = (k \div n) * n + (k % n)
  BY <1>1, <1>2
<1>4. z = k \div n /\ k = k % n
  BY <1>1, <1>3, PartsUnique
<1> QED BY <1>4

(* The analysis finds the client and, if it fits, the number.              *)
LEMMA RoundTripHolds == UidsInv => Uids!RoundTrip
<1> SUFFICES ASSUME UidsInv, NEW c \in Clients, NEW i \in DOMAIN used[c]
             PROVE  /\ Uids!client_uid(used[c][i]) = Uids!client_uid(Uids!local_uid(c))
                    /\ i - 1 < NumberSize => Uids!query_index(used[c][i]) = i - 1
  BY DEF Uids!RoundTrip
<1>1. used[c] \in Seq(Nat) /\ i \in 1..Len(used[c]) /\ UidTyped
  BY DEF UidsInv, UidTyped
<1>2. i - 1 \in Nat
  BY <1>1
<1>3. used[c][i] = Own(c) * NumberSize + ((i - 1) % NumberSize)
  BY <1>1 DEF UidsInv
<1>4. Uids!client_uid(used[c][i]) = Uids!client_uid(Uids!local_uid(c))
  BY <1>1, <1>2, <1>3, UidParts
<1>5. ASSUME i - 1 < NumberSize PROVE Uids!query_index(used[c][i]) = i - 1
  <2>1. i - 1 \in 0..NumberSize - 1
    BY <1>2, <1>5, SizesPositive
  <2>2. (i - 1) % NumberSize = i - 1
    BY <2>1, SizesPositive, NotCut
  <2> QED BY <1>1, <1>2, <1>3, <2>2, UidParts
<1> QED BY <1>4, <1>5

(* An id comes again only when the number has come round.                  *)
LEMMA RepeatsLateHolds == UidsInv => Uids!RepeatsLate
<1> SUFFICES ASSUME UidsInv, NEW c \in Clients, NEW i \in DOMAIN used[c], NEW j \in DOMAIN used[c],
                    used[c][i] = used[c][j]
             PROVE  (i - j) % NumberSize = 0
  BY DEF Uids!RepeatsLate
<1>1. used[c] \in Seq(Nat) /\ i \in 1..Len(used[c]) /\ j \in 1..Len(used[c]) /\ UidTyped
  BY DEF UidsInv, UidTyped
<1>2. i - 1 \in Nat /\ j - 1 \in Nat /\ i \in Int /\ j \in Int
  BY <1>1
<1>3. Own(c) * NumberSize + ((i - 1) % NumberSize) = Own(c) * NumberSize + ((j - 1) % NumberSize)
  BY <1>1 DEF UidsInv
<1>4. /\ (i - 1) % NumberSize \in 0..NumberSize - 1
      /\ (j - 1) % NumberSize \in 0..NumberSize - 1
  BY <1>1, <1>2, UidParts
<1>5. Own(c) \in Int
  BY <1>1, OwnTyped
<1>6. Own(c) = Own(c) /\ (i - 1) % NumberSize = (j - 1) % NumberSize
  BY <1>3, <1>4, <1>5, SizesPositive, PartsUnique
<1>7. PICK k \in Int, l \in Int : k = i - 1 /\ l = j - 1
  BY <1>2
<1>8. (k - l) % NumberSize = 0
  BY <1>6, <1>7, SizesPositive, SameRemainder
<1>9. k - l = i - j
  BY <1>2, <1>7
<1> QED BY <1>8, <1>9

(* Clients that share an id are not told apart by first or last octet, nor *)
(* by their random bits.                                                   *)
LEMMA DistinctHostsHolds == UidsInv => Uids!DistinctHosts
<1> SUFFICES ASSUME UidsInv, NEW c \in Clients, NEW d \in Clients,
                    Uids!Ids(c) \cap Uids!Ids(d) # {}
             PROVE  /\ address[c][3] = address[d][3] /\ address[c][0] = address[d][0]
                    /\ random[c] = random[d]
  BY Zenon DEF Uids!DistinctHosts
<1>1. used[c] \in Seq(Nat) /\ used[d] \in Seq(Nat) /\ UidTyped
  BY DEF UidsInv, UidTyped
<1>2. PICK i \in 1..Len(used[c]), j \in 1..Len(used[d]) : used[c][i] = used[d][j]
  <2>1. PICK u : u \in Uids!Ids(c) /\ u \in Uids!Ids(d)
    BY Zenon
  <2>2. (\E i \in DOMAIN used[c] : u = used[c][i]) /\ \E j \in DOMAIN used[d] : u = used[d][j]
    BY <2>1, Zenon DEF Uids!Ids, Uids!Range
  <2>3. DOMAIN used[c] = 1..Len(used[c]) /\ DOMAIN used[d] = 1..Len(used[d])
    BY <1>1
  <2> QED BY <2>2, <2>3, Zenon
<1>3. i - 1 \in Nat /\ j - 1 \in Nat
  BY <1>1
<1>4. Own(c) * NumberSize + ((i - 1) % NumberSize) = Own(d) * NumberSize + ((j - 1) % NumberSize)
  BY <1>2 DEF UidsInv
<1>5. /\ (i - 1) % NumberSize \in 0..NumberSize - 1
      /\ (j - 1) % NumberSize \in 0..NumberSize - 1
  BY <1>1, <1>3, UidParts
<1>6. Own(c) \in Int /\ Own(d) \in Int
  BY <1>1, OwnTyped
<1>7. PICK r \in 0..NumberSize - 1, s \in 0..NumberSize - 1 :
        r = (i - 1) % NumberSize /\ s = (j - 1) % NumberSize
  BY <1>5, Zenon
<1>8. Own(c) * NumberSize + r = Own(d) * NumberSize + s
  BY <1>4, <1>7, Zenon
<1>9. NumberSize \in Nat \ {0}
  BY SizesPositive
<1>10. PICK a \in Int, b \in Int : a = Own(c) /\ b = Own(d)
  BY <1>6, Zenon
<1>11. a * NumberSize + r = b * NumberSize + s
  BY <1>8, <1>10, Zenon
<1>12. a = b
  BY <1>9, <1>11, PartsUnique, SMTT(30)
<1>13. UidTyped /\ Own(c) = Own(d)
  BY <1>1, <1>10, <1>12, Zenon
<1> QED BY <1>13, OwnApart, Zenon

(* The analysis finds every query under its client, an id comes again only *)
(* after all the numbers, and clients told apart by the first or the last  *)
(* octet or the random bits share none, for every width of the parts and   *)
(* number of queries (src/shared/Utils.cpp:12-30).                         *)
THEOREM UidsIdentifyCorrect == EitherSpec => []UidsIdentify
<1> DEFINE Inv == chosen = "ids" => UidsInv
<1>1. EitherInit => Inv
  <2> SUFFICES ASSUME Uids!Init PROVE UidsInv
    BY DEF EitherInit
  <2> QED BY DEF Uids!Init, UidsInv, UidTyped
<1>2. Inv /\ [EitherNext]_<<chosen, uidVars, vars>> => Inv'
  <2> SUFFICES ASSUME Inv, [EitherNext]_<<chosen, uidVars, vars>>, chosen' = "ids" PROVE UidsInv'
    OBVIOUS
  <2>1. chosen = "ids" /\ [Uids!Next]_uidVars
    BY DEF EitherNext
  <2> QED BY <2>1, UidsStep
<1>3. Inv => UidsIdentify
  BY RoundTripHolds, RepeatsLateHolds, DistinctHostsHolds DEF UidsIdentify, Uids!UidsIdentify
<1> QED BY <1>1, <1>2, <1>3, PTL DEF EitherSpec

-----------------------------------------------------------------------------
(* The rows of a query in the two files.                                   *)

(* The steps that measure the times of the rows of a file.                 *)
BeginOf(f) == IF f = "client" THEN 1 ELSE 3
EndOf(f)   == IF f = "client" THEN 7 ELSE 5
Missing(f) == IF f = "client" THEN "failed" ELSE "refused"

Begun(q, f) == pc[q] > BeginOf(f)
Ended(q, f) == pc[q] > EndOf(f) /\ Missing(f) \notin over[q]

OneRow(f, u, a)     == \E i \in DOMAIN file[f] : Rows(f, u) = {i} /\ file[f][i][2] = a
TwoRows(f, u, a, b) ==
  \E i, j \in DOMAIN file[f] :
    i < j /\ Rows(f, u) = {i, j} /\ file[f][i][2] = a /\ file[f][j][2] = b

TraceIds == {0} \cup {uid(q) : q \in Queries}

TraceTyped ==
  /\ host \in [Queries -> Hosts] /\ number \in [Queries -> Numbers]
  /\ pc \in [Queries -> 0..8]
  /\ over \in [Queries -> SUBSET {"refused", "failed"}]
  /\ time \in [Queries -> [Measures -> Int]]
  /\ clock \in Int
  /\ file \in [Files -> Seq(TraceIds \X Int)]
  /\ \A q \in Queries : /\ "refused" \in over[q] => pc[q] >= 6
                        /\ "failed" \in over[q] => pc[q] = 8

(* A file has of a query whose id is its own the rows it recorded, in      *)
(* order, with the times it measured.                                      *)
RowsAre(q, f, u, a, b) ==
  /\ ~Begun(q, f) => Rows(f, u) = {}
  /\ Begun(q, f) /\ ~Ended(q, f) => OneRow(f, u, a)
  /\ Ended(q, f) => TwoRows(f, u, a, b)

Recorded(q, f) ==
  \A u, a, b : u = uid(q) /\ a = time[q][BeginOf(f)] /\ b = time[q][EndOf(f)]
                 => RowsAre(q, f, u, a, b)

TraceInv ==
  /\ TraceTyped
  /\ \A q \in Queries : uid(q) # 0 /\ ~Shared(q) => \A f \in Files : Recorded(q, f)

(* The least of a set.                                                     *)
LEMMA MinIs ==
  ASSUME NEW S \in SUBSET Int, NEW i \in S, \A j \in S : i <= j
  PROVE  Min(S) = i
<1>1. \E x \in S : \A y \in S : x <= y
  OBVIOUS
<1>2. PICK m : m = Min(S)
  OBVIOUS
<1>3. m \in S /\ \A y \in S : m <= y
  BY <1>1, <1>2 DEF Min
<1>4. m = i
  BY <1>3
<1> QED BY <1>2, <1>4

(* What the analysis shows of one row and of two.                          *)
LEMMA ShownOfNone ==
  ASSUME NEW f, NEW u, Rows(f, u) = {}
  PROVE  treat_data(f, u) = [start |-> None, end |-> None]
BY DEF treat_data, TimeOfFirst

(* One row is the begin of the query.                                      *)
LEMMA ShownOfOne ==
  ASSUME TraceTyped, NEW f \in Files, NEW u, NEW a, OneRow(f, u, a)
  PROVE  treat_data(f, u) = [start |-> Since(a), end |-> None]
<1>1. PICK i \in DOMAIN file[f] : Rows(f, u) = {i} /\ file[f][i][2] = a
  BY DEF OneRow
<1>2. i \in Int
  BY <1>1 DEF TraceTyped
<1>3. Min({i}) = i
  <2>1. {i} \in SUBSET Int /\ i \in {i} /\ \A k \in {i} : i <= k
    BY <1>2
  <2> QED BY <2>1, MinIs
<1>4. {k \in {i} : \E j \in {i} : j < k} = {}
  BY <1>2
<1> QED BY <1>1, <1>3, <1>4 DEF treat_data, TimeOfFirst

(* The second row is its end.                                              *)
LEMMA ShownOfTwo ==
  ASSUME TraceTyped, NEW f \in Files, NEW u, NEW a, NEW b, TwoRows(f, u, a, b)
  PROVE  treat_data(f, u) = [start |-> Since(a), end |-> Since(b)]
<1>1. PICK i, j \in DOMAIN file[f] :
        i < j /\ Rows(f, u) = {i, j} /\ file[f][i][2] = a /\ file[f][j][2] = b
  BY DEF TwoRows
<1>2. i \in Int /\ j \in Int
  BY <1>1 DEF TraceTyped
<1>3. Min({i, j}) = i
  <2>1. {i, j} \in SUBSET Int /\ i \in {i, j} /\ \A k \in {i, j} : i <= k
    BY <1>1, <1>2
  <2> QED BY <2>1, MinIs
<1>4. {k \in {i, j} : \E l \in {i, j} : l < k} = {j}
  BY <1>1, <1>2
<1>5. Min({j}) = j
  <2>1. {j} \in SUBSET Int /\ j \in {j} /\ \A k \in {j} : j <= k
    BY <1>2
  <2> QED BY <2>1, MinIs
<1> QED BY <1>1, <1>3, <1>4, <1>5 DEF treat_data, TimeOfFirst

(* A file as it was has the rows it had.                                   *)
LEMMA RowsKept ==
  ASSUME NEW f, NEW u, file'[f] = file[f]
  PROVE  /\ Rows(f, u)' = Rows(f, u)
         /\ \A a : OneRow(f, u, a) => OneRow(f, u, a)'
         /\ \A a, b : TwoRows(f, u, a, b) => TwoRows(f, u, a, b)'
BY DEF Rows, OneRow, TwoRows

(* A row of another id leaves the rows of an id alone.                     *)
LEMMA RowOfOther ==
  ASSUME TraceTyped, NEW f \in Files, NEW v \in TraceIds, NEW x \in Int, NEW u,
         file'[f] = Append(file[f], <<v, x>>), v # u
  PROVE  /\ Rows(f, u)' = Rows(f, u)
         /\ \A a : OneRow(f, u, a) => OneRow(f, u, a)'
         /\ \A a, b : TwoRows(f, u, a, b) => TwoRows(f, u, a, b)'
<1> DEFINE n == Len(file[f])
<1>1. file[f] \in Seq(TraceIds \X Int) /\ <<v, x>> \in TraceIds \X Int
  BY DEF TraceTyped
<1>2. /\ Len(file'[f]) = n + 1 /\ file'[f] \in Seq(TraceIds \X Int)
      /\ \A i \in 1..n : file'[f][i] = file[f][i]
      /\ file'[f][n + 1] = <<v, x>>
  BY <1>1, AppendProperties
<1>3. DOMAIN file[f] = 1..n /\ DOMAIN file'[f] = 1..n + 1 /\ n \in Nat
  BY <1>1, <1>2
<1>4. Rows(f, u)' = Rows(f, u)
  <2>1. Rows(f, u) = {i \in 1..n : file[f][i][1] = u}
    BY <1>3 DEF Rows
  <2>2. Rows(f, u)' = {i \in 1..n + 1 : file'[f][i][1] = u}
    BY <1>3 DEF Rows
  <2>3. file'[f][n + 1][1] # u
    BY <1>2
  <2> QED BY <1>2, <1>3, <2>1, <2>2, <2>3
<1>5. ASSUME NEW a, OneRow(f, u, a) PROVE OneRow(f, u, a)'
  BY <1>2, <1>3, <1>4, <1>5 DEF OneRow
<1>6. ASSUME NEW a, NEW b, TwoRows(f, u, a, b) PROVE TwoRows(f, u, a, b)'
  <2>1. PICK i \in 1..n, j \in 1..n :
          i < j /\ Rows(f, u) = {i, j} /\ file[f][i][2] = a /\ file[f][j][2] = b
    BY <1>3, <1>6 DEF TwoRows
  <2>2. i \in DOMAIN file'[f] /\ j \in DOMAIN file'[f]
    BY <1>3
  <2>3. file'[f][i][2] = a /\ file'[f][j][2] = b
    BY <1>2, <2>1
  <2> QED BY <1>4, <2>1, <2>2, <2>3 DEF TwoRows
<1> QED BY <1>4, <1>5, <1>6

(* A row of an id is its first or its second.                              *)
LEMMA RowOfOwn ==
  ASSUME TraceTyped, NEW f \in Files, NEW u \in TraceIds, NEW x \in Int,
         file'[f] = Append(file[f], <<u, x>>)
  PROVE  /\ Rows(f, u) = {} => OneRow(f, u, x)'
         /\ \A a : OneRow(f, u, a) => TwoRows(f, u, a, x)'
<1> DEFINE n == Len(file[f])
<1>1. file[f] \in Seq(TraceIds \X Int) /\ <<u, x>> \in TraceIds \X Int
  BY DEF TraceTyped
<1>2. /\ Len(file'[f]) = n + 1 /\ file'[f] \in Seq(TraceIds \X Int)
      /\ \A i \in 1..n : file'[f][i] = file[f][i]
      /\ file'[f][n + 1] = <<u, x>>
  BY <1>1, AppendProperties
<1>3. DOMAIN file[f] = 1..n /\ DOMAIN file'[f] = 1..n + 1 /\ n \in Nat
  BY <1>1, <1>2
<1>4. Rows(f, u)' = Rows(f, u) \cup {n + 1}
  <2>1. Rows(f, u) = {i \in 1..n : file[f][i][1] = u}
    BY <1>3 DEF Rows
  <2>2. Rows(f, u)' = {i \in 1..n + 1 : file'[f][i][1] = u}
    BY <1>3 DEF Rows
  <2>3. file'[f][n + 1][1] = u
    BY <1>2
  <2> QED BY <1>2, <1>3, <2>1, <2>2, <2>3
<1>5. ASSUME Rows(f, u) = {} PROVE OneRow(f, u, x)'
  <2>1. Rows(f, u)' = {n + 1} /\ n + 1 \in DOMAIN file'[f]
    BY <1>3, <1>4, <1>5
  <2>2. file'[f][n + 1][2] = x
    BY <1>2
  <2> QED BY <2>1, <2>2 DEF OneRow
<1>6. ASSUME NEW a, OneRow(f, u, a) PROVE TwoRows(f, u, a, x)'
  <2>1. PICK i \in 1..n : Rows(f, u) = {i} /\ file[f][i][2] = a
    BY <1>3, <1>6 DEF OneRow
  <2>2. i < n + 1 /\ i \in DOMAIN file'[f] /\ n + 1 \in DOMAIN file'[f]
    BY <1>3
  <2>3. Rows(f, u)' = {i, n + 1}
    BY <1>4, <2>1
  <2>4. file'[f][i][2] = a /\ file'[f][n + 1][2] = x
    BY <1>2, <2>1
  <2> QED BY <2>2, <2>3, <2>4 DEF TwoRows
<1> QED BY <1>5, <1>6

(* A query keeps its id, and so whether it shares it.                      *)
LEMMA UidKept ==
  ASSUME UNCHANGED <<host, number>>
  PROVE  /\ TraceIds' = TraceIds
         /\ \A q \in Queries : uid(q)' = uid(q) /\ Shared(q)' = Shared(q)
<1>1. \A q : uid(q)' = uid(q)
  BY DEF uid
<1> QED BY <1>1 DEF TraceIds, Shared

(* A file keeps the rows of an id: which they are and what they say.       *)
RowsStay(f, u) ==
  /\ Rows(f, u)' = Rows(f, u)
  /\ \A a : OneRow(f, u, a) => OneRow(f, u, a)'
  /\ \A a, b : TwoRows(f, u, a, b) => TwoRows(f, u, a, b)'

(* How far the query has come with the file does not change, and it ends   *)
(* only what it has begun.                                                 *)
SameStage(q, f) ==
  (Begun(q, f)' <=> Begun(q, f)) /\ (Ended(q, f)' <=> Ended(q, f)) /\ (Ended(q, f) => Begun(q, f))

(* What a file has of a query is still so when neither its rows nor how    *)
(* far the query has come with it changes, nor the times it recorded.      *)
LEMMA RecordedKept ==
  ASSUME NEW q \in Queries, NEW f \in Files, Recorded(q, f), uid(q)' = uid(q),
         SameStage(q, f),
         Begun(q, f) => time'[q][BeginOf(f)] = time[q][BeginOf(f)],
         Ended(q, f) => time'[q][EndOf(f)] = time[q][EndOf(f)],
         \A u : u = uid(q) => RowsStay(f, u)
  PROVE  Recorded(q, f)'
<1> SUFFICES ASSUME NEW u, NEW a, NEW b,
                    u = uid(q)', a = time'[q][BeginOf(f)], b = time'[q][EndOf(f)]
             PROVE  RowsAre(q, f, u, a, b)'
  BY DEF Recorded, BeginOf, EndOf
<1>1. PICK c, d : c = time[q][BeginOf(f)] /\ d = time[q][EndOf(f)]
  OBVIOUS
<1>2. RowsAre(q, f, u, c, d) /\ RowsStay(f, u)
  BY <1>1 DEF Recorded
<1>3. (Begun(q, f) => a = c) /\ (Ended(q, f) => a = c /\ b = d)
  BY <1>1 DEF SameStage
<1> QED BY <1>2, <1>3, Zenon DEF RowsAre, RowsStay, SameStage

(* The next row of a query in a file is its first or its second.           *)
LEMMA RecordedGrows ==
  ASSUME TraceTyped, NEW q \in Queries, NEW f \in Files, Recorded(q, f), uid(q)' = uid(q),
         UNCHANGED <<time, over>>,
         NEW x \in Int, file'[f] = Append(file[f], <<uid(q), x>>),
         \/ ~Begun(q, f) /\ ~Ended(q, f) /\ Begun(q, f)' /\ ~Ended(q, f)' /\ x = time[q][BeginOf(f)]
         \/ Begun(q, f) /\ ~Ended(q, f) /\ Begun(q, f)' /\ Ended(q, f)' /\ x = time[q][EndOf(f)]
  PROVE  Recorded(q, f)'
<1> SUFFICES ASSUME NEW u, NEW a, NEW b,
                    u = uid(q), a = time[q][BeginOf(f)], b = time[q][EndOf(f)]
             PROVE  RowsAre(q, f, u, a, b)'
  BY DEF Recorded, BeginOf, EndOf
<1>1. RowsAre(q, f, u, a, b)
  BY DEF Recorded
<1>2. u \in TraceIds /\ file'[f] = Append(file[f], <<u, x>>)
  BY DEF TraceIds
<1>3. /\ Rows(f, u) = {} => OneRow(f, u, x)'
      /\ \A c : OneRow(f, u, c) => TwoRows(f, u, c, x)'
  BY <1>2, RowOfOwn
<1>4. CASE ~Begun(q, f) /\ ~Ended(q, f) /\ Begun(q, f)' /\ ~Ended(q, f)' /\ x = time[q][BeginOf(f)]
  BY <1>1, <1>3, <1>4, Zenon DEF RowsAre
<1>5. CASE Begun(q, f) /\ ~Ended(q, f) /\ Begun(q, f)' /\ Ended(q, f)' /\ x = time[q][EndOf(f)]
  BY <1>1, <1>3, <1>5, Zenon DEF RowsAre
<1> QED BY <1>4, <1>5

(* The rows of an id stay as they are in a file that is not written,       *)
LEMMA FileStays ==
  ASSUME NEW f, NEW u, file'[f] = file[f]
  PROVE  RowsStay(f, u)
BY RowsKept DEF RowsStay

(* and in one that another id is written to.                               *)
LEMMA OtherStays ==
  ASSUME TraceTyped, NEW f \in Files, NEW v \in TraceIds, NEW x \in Int, NEW u,
         file'[f] = Append(file[f], <<v, x>>), v # u
  PROVE  RowsStay(f, u)
BY RowOfOther DEF RowsStay

(* A row more of a file keeps its type.                                    *)
LEMMA FileTyped ==
  ASSUME TraceTyped, TraceIds' = TraceIds, NEW f \in Files, NEW v \in TraceIds, NEW x \in Int,
         file' = [file EXCEPT ![f] = Append(file[f], <<v, x>>)]
  PROVE  file' \in [Files -> Seq(TraceIds \X Int)]'
<1>1. file[f] \in Seq(TraceIds \X Int) /\ <<v, x>> \in TraceIds \X Int
  BY DEF TraceTyped
<1>2. Append(file[f], <<v, x>>) \in Seq(TraceIds \X Int)
  BY <1>1, AppendProperties
<1> QED BY <1>2 DEF TraceTyped

(* A step keeps the types.                                                 *)
LEMMA TypedStep == TraceTyped /\ [Next]_vars => TraceTyped'
<1> SUFFICES ASSUME TraceTyped, [Next]_vars PROVE TraceTyped'
  OBVIOUS
<1>0. TraceIds' = TraceIds /\ UNCHANGED <<host, number>>
  <2>1. UNCHANGED <<host, number>>
    BY DEF Next, vars, Measure, add_entry, Refuse, Fail, ZeroRow
  <2> QED BY <2>1, UidKept
<1>1. CASE UNCHANGED vars
  BY <1>0, <1>1 DEF vars, TraceTyped
<1>2. ASSUME NEW q \in Queries, Measure(q) PROVE TraceTyped'
  <2> DEFINE i == pc[q] + 1
  <2>1. /\ i \in Measures /\ pc' = [pc EXCEPT ![q] = i] /\ clock' = clock + 1
        /\ time' = [time EXCEPT ![q] = [time[q] EXCEPT ![i] = clock']]
        /\ UNCHANGED <<over, file>>
    BY <1>2 DEF Measure
  <2>2. pc[q] \in 0..8 /\ time[q] \in [Measures -> Int] /\ clock' \in Int
    BY <2>1 DEF TraceTyped
  <2>3. [time[q] EXCEPT ![i] = clock'] \in [Measures -> Int]
    BY <2>1, <2>2
  <2>4. pc' \in [Queries -> 0..8] /\ time' \in [Queries -> [Measures -> Int]]
    BY <2>1, <2>2, <2>3 DEF TraceTyped, Measures
  <2>5. \A r \in Queries : /\ "refused" \in over'[r] => pc'[r] >= 6
                           /\ "failed" \in over'[r] => pc'[r] = 8
    <3>1. pc[q] < 8 /\ \A r \in Queries \ {q} : pc'[r] = pc[r]
      BY <2>1, <2>2 DEF TraceTyped, Measures
    <3>2. pc'[q] = pc[q] + 1
      BY <2>1 DEF TraceTyped
    <3>3. \A r \in Queries : /\ "refused" \in over[r] => pc[r] >= 6
                             /\ "failed" \in over[r] => pc[r] = 8
      BY DEF TraceTyped
    <3> QED BY <2>1, <2>2, <3>1, <3>2, <3>3
  <2> QED BY <1>0, <2>1, <2>2, <2>4, <2>5 DEF TraceTyped
<1>3. ASSUME NEW q \in Queries, add_entry(q) PROVE TraceTyped'
  <2> DEFINE i == pc[q] + 1
             f == FileOf(i)
  <2>1. /\ i \in Steps \ Measures /\ pc' = [pc EXCEPT ![q] = i]
        /\ file' = [file EXCEPT ![f] = Append(file[f], <<uid(q), time[q][i - 1]>>)]
        /\ UNCHANGED <<over, time, clock>>
    BY <1>3 DEF add_entry
  <2>2. pc[q] \in 0..8 /\ i - 1 \in Measures
    BY <2>1 DEF TraceTyped, Steps, Measures
  <2>3. uid(q) \in TraceIds /\ time[q][i - 1] \in Int /\ f \in Files
    BY <2>2 DEF TraceTyped, TraceIds, FileOf, Files
  <2>4. file' \in [Files -> Seq(TraceIds \X Int)]'
    <3> HIDE DEF f, i
    <3> QED BY <1>0, <2>1, <2>3, FileTyped
  <2>5. pc' \in [Queries -> 0..8]
    BY <2>1, <2>2 DEF TraceTyped, Steps
  <2>6. \A r \in Queries : /\ "refused" \in over'[r] => pc'[r] >= 6
                           /\ "failed" \in over'[r] => pc'[r] = 8
    BY <2>1, <2>2 DEF TraceTyped, Steps
  <2> QED BY <1>0, <2>1, <2>4, <2>5, <2>6 DEF TraceTyped
<1>4. ASSUME NEW q \in Queries, Refuse(q) PROVE TraceTyped'
  BY <1>0, <1>4 DEF Refuse, TraceTyped
<1>5. ASSUME NEW q \in Queries, Fail(q) PROVE TraceTyped'
  BY <1>0, <1>5 DEF Fail, TraceTyped
<1>6. ASSUME NEW f \in Files, ZeroRow(f) PROVE TraceTyped'
  <2>1. /\ file' = [file EXCEPT ![f] = Append(file[f], <<0, 0>>)]
        /\ UNCHANGED <<pc, over, time, clock>>
    BY <1>6 DEF ZeroRow
  <2>2. 0 \in TraceIds
    BY DEF TraceIds
  <2>3. PICK v \in TraceIds, x \in Int : v = 0 /\ x = 0
    BY <2>2
  <2>4. file' = [file EXCEPT ![f] = Append(file[f], <<v, x>>)]
    BY <2>1, <2>3
  <2>5. file' \in [Files -> Seq(TraceIds \X Int)]'
    BY <1>0, <2>4, FileTyped
  <2> QED BY <1>0, <2>1, <2>5 DEF TraceTyped
<1> QED BY <1>1, <1>2, <1>3, <1>4, <1>5, <1>6 DEF Next

(* What begins and ends in each file.                                      *)
LEMMA Stages ==
  ASSUME NEW q
  PROVE  /\ Begun(q, "client") <=> pc[q] > 1
         /\ Begun(q, "sanit") <=> pc[q] > 3
         /\ Ended(q, "client") <=> pc[q] > 7 /\ "failed" \notin over[q]
         /\ Ended(q, "sanit") <=> pc[q] > 5 /\ "refused" \notin over[q]
         /\ Begun(q, "client")' <=> pc'[q] > 1
         /\ Begun(q, "sanit")' <=> pc'[q] > 3
         /\ Ended(q, "client")' <=> pc'[q] > 7 /\ "failed" \notin over'[q]
         /\ Ended(q, "sanit")' <=> pc'[q] > 5 /\ "refused" \notin over'[q]
         /\ BeginOf("client") = 1 /\ BeginOf("sanit") = 3
         /\ EndOf("client") = 7 /\ EndOf("sanit") = 5
BY DEF Begun, Ended, BeginOf, EndOf, Missing

(* The steps of a query that do not record a row of a file.                *)
LEMMA StageKept ==
  ASSUME TraceTyped, NEW q \in Queries, NEW f \in Files,
         \/ pc'[q] = pc[q] /\ over'[q] = over[q]
         \/ pc'[q] = pc[q] + 1 /\ over'[q] = over[q] /\ pc[q] \notin {BeginOf(f), EndOf(f)}
         \/ pc[q] = 4 /\ pc'[q] = 6 /\ over'[q] = over[q] \cup {"refused"}
         \/ pc[q] = 6 /\ pc'[q] = 8 /\ over'[q] = over[q] \cup {"failed"}
  PROVE  SameStage(q, f)
<1>1. /\ pc[q] \in 0..8
      /\ "refused" \in over[q] => pc[q] >= 6
      /\ "failed" \in over[q] => pc[q] = 8
  BY DEF TraceTyped
<1>2. CASE f = "client"
  <2>1. pc[q] > 1 <=> pc'[q] > 1
    BY <1>1, <1>2, Stages
  <2>2. pc[q] > 7 /\ "failed" \notin over[q] <=> pc'[q] > 7 /\ "failed" \notin over'[q]
    BY <1>1, <1>2, Stages
  <2> QED BY <1>1, <1>2, <2>1, <2>2, Stages DEF SameStage
<1>3. CASE f = "sanit"
  <2>1. pc[q] > 3 <=> pc'[q] > 3
    BY <1>1, <1>3, Stages
  <2>2. pc[q] > 5 /\ "refused" \notin over[q] <=> pc'[q] > 5 /\ "refused" \notin over'[q]
    BY <1>1, <1>3, Stages
  <2> QED BY <1>1, <1>3, <2>1, <2>2, Stages DEF SameStage
<1> QED BY <1>2, <1>3 DEF Files

(* A step keeps what a file has of a query whose id is its own.            *)
LEMMA RecordedStep ==
  ASSUME TraceTyped, [Next]_vars, NEW q \in Queries, NEW f \in Files,
         uid(q) # 0, ~Shared(q), Recorded(q, f)
  PROVE  Recorded(q, f)'
<1>0. uid(q)' = uid(q)
  <2>1. UNCHANGED <<host, number>>
    BY DEF Next, vars, Measure, add_entry, Refuse, Fail, ZeroRow
  <2> QED BY <2>1, UidKept
<1>1. CASE UNCHANGED <<pc, over, time, file>>
  <2>1. \A u : RowsStay(f, u)
    BY <1>1, FileStays
  <2>2. SameStage(q, f)
    BY <1>1, StageKept
  <2> QED BY <1>0, <1>1, <2>1, <2>2, RecordedKept
<1>2. ASSUME NEW r \in Queries, Measure(r) PROVE Recorded(q, f)'
  <2> DEFINE i == pc[r] + 1
  <2>1. /\ i \in Measures /\ pc' = [pc EXCEPT ![r] = i]
        /\ time' = [time EXCEPT ![r] = [time[r] EXCEPT ![i] = clock']]
        /\ UNCHANGED <<over, file>>
    BY <1>2 DEF Measure
  <2>2. \A u : RowsStay(f, u)
    BY <2>1, FileStays
  <2>3. SameStage(q, f)
    <3>1. CASE r # q
      BY <2>1, <3>1, StageKept DEF TraceTyped
    <3>2. CASE r = q
      <4>1. pc'[q] = pc[q] + 1 /\ over'[q] = over[q]
        BY <2>1, <3>2 DEF TraceTyped
      <4>2. pc[q] \notin {BeginOf(f), EndOf(f)}
        BY <2>1, <3>2, Stages DEF TraceTyped, Files, Measures
      <4> QED BY <4>1, <4>2, StageKept
    <3> QED BY <3>1, <3>2
  <2>4. /\ Begun(q, f) => time'[q][BeginOf(f)] = time[q][BeginOf(f)]
        /\ Ended(q, f) => time'[q][EndOf(f)] = time[q][EndOf(f)]
    <3>1. CASE r # q
      BY <2>1, <3>1 DEF TraceTyped
    <3>2. CASE r = q
      <4>1. time'[q] = [time[q] EXCEPT ![i] = clock'] /\ time[q] \in [Measures -> Int]
        BY <2>1, <3>2 DEF TraceTyped
      <4>2. BeginOf(f) \in Measures /\ EndOf(f) \in Measures
        BY DEF BeginOf, EndOf, Measures
      <4>3. PICK m \in 1..7, n \in 1..7 : m = BeginOf(f) /\ n = EndOf(f)
        BY <4>2 DEF Measures
      <4>4. (Begun(q, f) => i > m + 1) /\ (Ended(q, f) => i > n + 1)
        <5>1. (Begun(q, f) => pc[q] > m) /\ (Ended(q, f) => pc[q] > n) /\ pc[q] \in 0..8
          BY <4>3 DEF Begun, Ended, TraceTyped
        <5> QED BY <3>2, <5>1
      <4>5. (Begun(q, f) => i # m) /\ (Ended(q, f) => i # n)
        BY <3>2, <4>4 DEF TraceTyped
      <4> QED BY <4>1, <4>2, <4>3, <4>5
    <3> QED BY <3>1, <3>2
  <2> QED BY <1>0, <2>2, <2>3, <2>4, RecordedKept
<1>3. ASSUME NEW r \in Queries, add_entry(r) PROVE Recorded(q, f)'
  <2> DEFINE i == pc[r] + 1
             g == FileOf(i)
             x == time[r][i - 1]
  <2>1. /\ i \in Steps \ Measures /\ pc' = [pc EXCEPT ![r] = i]
        /\ file' = [file EXCEPT ![g] = Append(file[g], <<uid(r), x>>)]
        /\ UNCHANGED <<over, time>>
    BY <1>3 DEF add_entry
  <2>2. pc[r] \in 0..8 /\ i - 1 \in Measures
    BY <2>1 DEF TraceTyped, Steps, Measures
  <2>3. uid(r) \in TraceIds /\ x \in Int /\ g \in Files
    BY <2>2 DEF TraceTyped, TraceIds, FileOf, Files
  <2>4. g # f => file'[f] = file[f]
    BY <2>1 DEF TraceTyped
  <2>5. g = f => file'[f] = Append(file[f], <<uid(r), x>>)
    BY <2>1, <2>3 DEF TraceTyped
  <2>6. CASE r # q
    <3>1. uid(r) # uid(q)
      BY <2>6 DEF Shared
    <3>2. SameStage(q, f)
      BY <2>1, <2>6, StageKept DEF TraceTyped
    <3>3. \A u : u = uid(q) => RowsStay(f, u)
      <4> SUFFICES ASSUME NEW u, u = uid(q) PROVE RowsStay(f, u)
        OBVIOUS
      <4>1. PICK v \in TraceIds, y \in Int : v = uid(r) /\ y = x
        BY <2>3
      <4>2. v # u
        BY <3>1, <4>1
      <4>3. CASE g # f
        BY <2>4, <4>3, FileStays
      <4>4. CASE g = f
        <5>1. file'[f] = Append(file[f], <<v, y>>)
          BY <2>5, <4>1, <4>4
        <5> QED BY <4>2, <5>1, OtherStays
      <4> QED BY <4>3, <4>4
    <3> QED BY <1>0, <2>1, <3>2, <3>3, RecordedKept
  <2>7. CASE r = q /\ g # f
    <3>1. SameStage(q, f)
      <4>1. pc'[q] = pc[q] + 1 /\ over'[q] = over[q] /\ i \in {2, 4, 6, 8} /\ pc[q] = i - 1
        BY <2>1, <2>2, <2>7 DEF TraceTyped, Steps, Measures
      <4>2. pc[q] \notin {BeginOf(f), EndOf(f)}
        BY <2>7, <4>1, Stages DEF Files, FileOf
      <4> QED BY <4>1, <4>2, StageKept
    <3>2. \A u : RowsStay(f, u)
      BY <2>4, <2>7, FileStays
    <3> QED BY <1>0, <2>1, <3>1, <3>2, RecordedKept
  <2>8. CASE r = q /\ g = f
    <3>1. \/ ~Begun(q, f) /\ ~Ended(q, f) /\ Begun(q, f)' /\ ~Ended(q, f)' /\ x = time[q][BeginOf(f)]
          \/ Begun(q, f) /\ ~Ended(q, f) /\ Begun(q, f)' /\ Ended(q, f)' /\ x = time[q][EndOf(f)]
      <4>1. i \in {2, 4, 6, 8} /\ pc'[q] = i /\ pc[q] = i - 1 /\ over'[q] = over[q]
        <5>1. pc'[q] = i /\ over'[q] = over[q]
          BY <2>1, <2>8 DEF TraceTyped
        <5>2. i \in {2, 4, 6, 8}
          BY <2>1 DEF Steps, Measures
        <5>3. pc[q] = i - 1
          BY <2>2, <2>8
        <5> QED BY <5>1, <5>2, <5>3
      <4>2. /\ "refused" \in over[q] => pc[q] >= 6
            /\ "failed" \in over[q] => pc[q] = 8
        BY DEF TraceTyped
      <4>3. CASE i = 2
        <5>1. f = "client" /\ pc[q] = 1 /\ pc'[q] = 2
          BY <2>2, <2>8, <4>1, <4>3 DEF FileOf
        <5> QED BY <2>8, <4>1, <5>1, Stages
      <4>4. CASE i = 4
        <5>1. f = "sanit" /\ pc[q] = 3 /\ pc'[q] = 4
          BY <2>2, <2>8, <4>1, <4>4 DEF FileOf
        <5> QED BY <2>8, <4>1, <5>1, Stages
      <4>5. CASE i = 6
        <5>1. f = "sanit" /\ pc[q] = 5 /\ pc'[q] = 6 /\ "refused" \notin over[q]
          BY <2>2, <2>8, <4>1, <4>2, <4>5 DEF FileOf
        <5> QED BY <2>8, <4>1, <5>1, Stages
      <4>6. CASE i = 8
        <5>1. f = "client" /\ pc[q] = 7 /\ pc'[q] = 8 /\ "failed" \notin over[q]
          BY <2>2, <2>8, <4>1, <4>2, <4>6 DEF FileOf
        <5> QED BY <2>8, <4>1, <5>1, Stages
      <4> QED BY <4>1, <4>3, <4>4, <4>5, <4>6
    <3>2. PICK y \in Int : y = x
      BY <2>3
    <3>3. file'[f] = Append(file[f], <<uid(q), y>>)
      BY <2>5, <2>8, <3>2
    <3> QED BY <1>0, <2>1, <3>1, <3>2, <3>3, RecordedGrows
  <2> QED BY <2>6, <2>7, <2>8
<1>4. ASSUME NEW r \in Queries, Refuse(r) \/ Fail(r) PROVE Recorded(q, f)'
  <2>1. UNCHANGED <<time, file>>
    BY <1>4 DEF Refuse, Fail
  <2>2. \A u : RowsStay(f, u)
    BY <2>1, FileStays
  <2>3. SameStage(q, f)
    <3>1. CASE r # q
      BY <1>4, <3>1, StageKept DEF Refuse, Fail, TraceTyped
    <3>2. CASE r = q
      BY <1>4, <3>2, StageKept DEF Refuse, Fail, TraceTyped
    <3> QED BY <3>1, <3>2
  <2> QED BY <1>0, <2>1, <2>2, <2>3, RecordedKept
<1>5. ASSUME NEW g \in Files, ZeroRow(g) PROVE Recorded(q, f)'
  <2>1. file' = [file EXCEPT ![g] = Append(file[g], <<0, 0>>)] /\ UNCHANGED <<pc, over, time>>
    BY <1>5 DEF ZeroRow
  <2>2. SameStage(q, f)
    BY <2>1, StageKept
  <2>3. \A u : u = uid(q) => RowsStay(f, u)
    <3> SUFFICES ASSUME NEW u, u = uid(q) PROVE RowsStay(f, u)
      OBVIOUS
    <3>1. CASE g # f
      <4>1. file'[f] = file[f]
        BY <2>1, <3>1 DEF TraceTyped
      <4> QED BY <4>1, FileStays
    <3>2. CASE g = f
      <4>1. file'[f] = Append(file[f], <<0, 0>>) /\ 0 \in TraceIds /\ u # 0
        BY <2>1, <3>2 DEF TraceTyped, TraceIds
      <4> QED BY <4>1, OtherStays
    <3> QED BY <3>1, <3>2
  <2> QED BY <1>0, <2>1, <2>2, <2>3, RecordedKept
<1> QED BY <1>1, <1>2, <1>3, <1>4, <1>5 DEF Next, vars

(* A query has measured the time of a step it did not leave out.           *)
Timed(q, i) ==
  /\ pc[q] >= i
  /\ i = 5 => "refused" \notin over[q]
  /\ i = 7 => "failed" \notin over[q]

(* One of the rows of the client's file has the earliest time of them.     *)
HasEarliest ==
  file["client"] # <<>> =>
    \E i \in DOMAIN file["client"] :
      /\ 0 <= file["client"][i][2]
      /\ \A j \in DOMAIN file["client"] : file["client"][i][2] <= file["client"][j][2]

(* The times a query measured come after its first, the clock is no word   *)
(* too far.                                                                *)
TimesInv ==
  /\ clock \in 0..EpochSize - 1
  /\ \A q \in Queries, i \in Measures : Timed(q, i) =>
       time[q][i] \in 0..clock /\ time[q][1] <= time[q][i]
  /\ HasEarliest

(* A row more does not take the earliest away.                             *)
LEMMA EarliestGrows ==
  ASSUME TraceTyped, HasEarliest, NEW v \in TraceIds, NEW x \in Nat,
         file'["client"] = Append(file["client"], <<v, x>>)
  PROVE  HasEarliest'
<1> DEFINE old == file["client"]
           new == file'["client"]
           n   == Len(old)
<1>1. old \in Seq(TraceIds \X Int) /\ <<v, x>> \in TraceIds \X Int
  BY DEF TraceTyped, Files
<1>2. /\ Len(new) = n + 1 /\ new \in Seq(TraceIds \X Int)
      /\ \A i \in 1..n : new[i] = old[i]
      /\ new[n + 1] = <<v, x>>
  BY <1>1, AppendProperties
<1>3. DOMAIN old = 1..n /\ DOMAIN new = 1..n + 1 /\ n \in Nat
  BY <1>1, <1>2
<1>4. \A i \in 1..n : old[i][2] \in Int
  BY <1>1, <1>3
<1>5. SUFFICES \E i \in 1..n + 1 : 0 <= new[i][2] /\ \A j \in 1..n + 1 : new[i][2] <= new[j][2]
  BY <1>3 DEF HasEarliest
<1>6. CASE n = 0
  BY <1>2, <1>6
<1>7. CASE n # 0
  <2>1. PICK i \in 1..n : 0 <= old[i][2] /\ \A j \in 1..n : old[i][2] <= old[j][2]
    <3>1. old # <<>>
      BY <1>7
    <3> QED BY <1>3, <3>1 DEF HasEarliest
  <2>2. \A j \in 1..n + 1 : j \in 1..n \/ j = n + 1
    BY <1>3
  <2>3. new[n + 1][2] = x /\ \A j \in 1..n : new[j][2] = old[j][2]
    BY <1>2
  <2>4. CASE x <= old[i][2]
    <3>1. \A j \in 1..n : x <= old[j][2]
      BY <1>4, <2>1, <2>4
    <3>2. n + 1 \in 1..n + 1 /\ 0 <= new[n + 1][2]
      BY <1>3, <2>3
    <3>3. \A j \in 1..n + 1 : new[n + 1][2] <= new[j][2]
      BY <1>3, <2>2, <2>3, <3>1
    <3> QED BY <3>2, <3>3
  <2>5. CASE old[i][2] <= x
    <3>1. \A j \in 1..n + 1 : new[i][2] <= new[j][2]
      BY <2>1, <2>2, <2>3, <2>5
    <3>2. i \in 1..n + 1 /\ 0 <= new[i][2]
      BY <1>3, <2>1, <2>3
    <3> QED BY <3>1, <3>2
  <2>6. PICK m \in Int : m = old[i][2]
    BY <1>4
  <2>7. x <= m \/ m <= x
    OBVIOUS
  <2> QED BY <2>4, <2>5, <2>6, <2>7
<1> QED BY <1>3, <1>6, <1>7

(* A step keeps the times in their order.                                  *)
LEMMA TimesStep == TraceTyped /\ TimesInv /\ [Next]_vars => TimesInv'
<1> SUFFICES ASSUME TraceTyped, TimesInv, [Next]_vars PROVE TimesInv'
  OBVIOUS
<1>0. clock \in 0..EpochSize - 1 /\ HasEarliest
  BY DEF TimesInv
<1>1. CASE UNCHANGED <<pc, over, time, clock, file>>
  BY <1>1 DEF TimesInv, Timed, HasEarliest
<1>2. ASSUME NEW q \in Queries, Measure(q) PROVE TimesInv'
  <2> DEFINE i == pc[q] + 1
  <2>1. /\ i \in Measures /\ pc' = [pc EXCEPT ![q] = i] /\ clock' = clock + 1
        /\ clock + 1 < EpochSize
        /\ time' = [time EXCEPT ![q] = [time[q] EXCEPT ![i] = clock']]
        /\ UNCHANGED <<over, file>>
    BY <1>2 DEF Measure
  <2>2. clock' \in 0..EpochSize - 1 /\ HasEarliest'
    BY <1>0, <2>1, EpochAssumption DEF HasEarliest
  <2>3. ASSUME NEW r \in Queries, NEW j \in Measures, Timed(r, j)'
        PROVE  time'[r][j] \in 0..clock' /\ time'[r][1] <= time'[r][j]
    <3>1. CASE r # q
      <4>1. time'[r] = time[r] /\ Timed(r, j)
        BY <2>1, <2>3, <3>1 DEF TraceTyped, Timed
      <4>2. time[r][j] \in 0..clock /\ time[r][1] <= time[r][j]
        BY <4>1 DEF TimesInv
      <4> QED BY <1>0, <2>1, <4>1, <4>2
    <3>2. CASE r = q
      <4>1. time'[q] = [time[q] EXCEPT ![i] = clock'] /\ pc'[q] = i /\ pc[q] \in 0..8
            /\ time[q] \in [Measures -> Int]
        BY <2>1 DEF TraceTyped
      <4>2. ASSUME NEW k \in Measures, k < i, k = j \/ k = 1
            PROVE  time'[q][k] = time[q][k] /\ time[q][k] \in 0..clock /\ time[q][1] <= time[q][k]
        <5>1. pc[q] >= k
          BY <4>1, <4>2 DEF Measures
        <5>2. Timed(q, k)
          BY <2>1, <2>3, <3>2, <4>2, <5>1 DEF Timed
        <5>3. time'[q][k] = time[q][k]
          BY <4>1, <4>2 DEF Measures
        <5> QED BY <5>2, <5>3 DEF TimesInv
      <4>3. j <= i
        BY <2>3, <3>2, <4>1 DEF Timed
      <4>4. 1 \in Measures /\ i \in Measures
        BY <2>1 DEF Measures
      <4>5. i = 1 \/ 1 < i
        BY <4>4 DEF Measures
      <4>6. CASE j = i
        <5>1. time'[q][i] = clock + 1
          BY <2>1, <4>1, <4>4
        <5>2. CASE i = 1
          BY <1>0, <2>1, <3>2, <4>6, <5>1, <5>2
        <5>3. CASE 1 < i
          <6>1. time'[q][1] \in 0..clock
            BY <4>2, <4>4, <5>3
          <6> QED BY <1>0, <2>1, <3>2, <4>6, <5>1, <6>1
        <5> QED BY <4>5, <5>2, <5>3
      <4>7. CASE j < i
        <5>1. 1 < i
          BY <4>7, <4>4 DEF Measures
        <5>2. /\ time'[q][j] = time[q][j] /\ time[q][j] \in 0..clock
              /\ time[q][1] <= time[q][j] /\ time'[q][1] = time[q][1]
          BY <4>2, <4>4, <4>7, <5>1
        <5> QED BY <1>0, <2>1, <3>2, <5>2
      <4> QED BY <4>3, <4>4, <4>6, <4>7 DEF Measures
    <3> QED BY <3>1, <3>2
  <2> QED BY <2>2, <2>3 DEF TimesInv
<1>3. ASSUME NEW q \in Queries, add_entry(q) PROVE TimesInv'
  <2> DEFINE i == pc[q] + 1
             x == time[q][i - 1]
  <2>1. /\ i \in Steps \ Measures /\ pc' = [pc EXCEPT ![q] = i]
        /\ file' = [file EXCEPT ![FileOf(i)] = Append(file[FileOf(i)], <<uid(q), x>>)]
        /\ UNCHANGED <<over, time, clock>>
    BY <1>3 DEF add_entry
  <2>2. i \in {2, 4, 6, 8} /\ pc[q] \in 0..8 /\ pc[q] = i - 1 /\ i - 1 \in Measures
    BY <2>1 DEF TraceTyped, Steps, Measures
  <2>3. x \in 0..clock
    <3>1. Timed(q, i - 1)
      BY <2>2 DEF Timed, TraceTyped
    <3> QED BY <2>2, <3>1 DEF TimesInv
  <2>4. HasEarliest'
    <3>1. CASE FileOf(i) # "client"
      <4>1. file'["client"] = file["client"]
        BY <2>1, <3>1 DEF TraceTyped, Files
      <4> QED BY <1>0, <4>1 DEF HasEarliest
    <3>2. CASE FileOf(i) = "client"
      <4>1. PICK y \in Nat, v \in TraceIds : y = x /\ v = uid(q)
        <5>1. x \in Nat
          BY <1>0, <2>3
        <5>2. uid(q) \in TraceIds
          BY DEF TraceIds
        <5> QED BY <5>1, <5>2
      <4>2. file'["client"] = Append(file["client"], <<v, y>>)
        BY <2>1, <3>2, <4>1 DEF TraceTyped, Files
      <4> QED BY <1>0, <4>2, EarliestGrows
    <3> QED BY <3>1, <3>2
  <2>5. ASSUME NEW r \in Queries, NEW j \in Measures, Timed(r, j)' PROVE Timed(r, j)
    BY <2>1, <2>2, <2>5 DEF Timed, TraceTyped, Measures
  <2> QED BY <2>1, <2>4, <2>5 DEF TimesInv
<1>4. ASSUME NEW q \in Queries, Refuse(q) \/ Fail(q) PROVE TimesInv'
  <2>1. UNCHANGED <<time, clock, file>>
    BY <1>4 DEF Refuse, Fail
  <2>2. ASSUME NEW r \in Queries, NEW j \in Measures, Timed(r, j)' PROVE Timed(r, j)
    <3>1. CASE Refuse(q)
      BY <2>2, <3>1 DEF Refuse, Timed, TraceTyped, Measures
    <3>2. CASE Fail(q)
      BY <2>2, <3>2 DEF Fail, Timed, TraceTyped, Measures
    <3> QED BY <1>4, <3>1, <3>2
  <2> QED BY <2>1, <2>2 DEF TimesInv, HasEarliest
<1>5. ASSUME NEW g \in Files, ZeroRow(g) PROVE TimesInv'
  <2>1. file' = [file EXCEPT ![g] = Append(file[g], <<0, 0>>)] /\ UNCHANGED <<pc, over, time, clock>>
    BY <1>5 DEF ZeroRow
  <2>2. HasEarliest'
    <3>1. CASE g # "client"
      <4>1. file'["client"] = file["client"]
        BY <2>1, <3>1 DEF TraceTyped, Files
      <4> QED BY <1>0, <4>1 DEF HasEarliest
    <3>2. CASE g = "client"
      <4>1. PICK y \in Nat, v \in TraceIds : y = 0 /\ v = 0
        BY DEF TraceIds
      <4>2. file'["client"] = Append(file["client"], <<v, y>>)
        BY <2>1, <3>2, <4>1 DEF TraceTyped, Files
      <4> QED BY <1>0, <4>2, EarliestGrows
    <3> QED BY <3>1, <3>2
  <2> QED BY <2>1, <2>2 DEF TimesInv, Timed
<1> QED BY <1>1, <1>2, <1>3, <1>4, <1>5 DEF Next, vars

(* Before the first step no file has a row.                                *)
LEMMA TraceInit == Init => TraceInv /\ TimesInv
<1> SUFFICES ASSUME Init PROVE TraceInv /\ TimesInv
  OBVIOUS
<1>1. TraceTyped
  BY DEF Init, TraceTyped, None
<1>2. ASSUME NEW q \in Queries, NEW f \in Files PROVE Recorded(q, f)
  <2>1. pc[q] = 0
    BY DEF Init
  <2>2. ~Begun(q, f) /\ ~Ended(q, f)
    BY <2>1, Stages DEF Files
  <2>3. \A u : Rows(f, u) = {}
    BY DEF Rows, Init
  <2> QED BY <2>2, <2>3 DEF Recorded, RowsAre
<1>3. TimesInv
  <2>1. clock \in 0..EpochSize - 1 /\ HasEarliest
    BY EpochAssumption DEF Init, HasEarliest, Files
  <2>2. \A q \in Queries, i \in Measures : ~Timed(q, i)
    BY DEF Init, Timed, Measures
  <2> QED BY <2>1, <2>2 DEF TimesInv
<1> QED BY <1>1, <1>2, <1>3 DEF TraceInv

(* A step keeps what the files have of every query.                        *)
LEMMA TraceStep == TraceInv /\ TimesInv /\ [Next]_vars => TraceInv' /\ TimesInv'
<1> SUFFICES ASSUME TraceInv, TimesInv, [Next]_vars PROVE TraceInv' /\ TimesInv'
  OBVIOUS
<1>1. TraceTyped'
  BY TypedStep DEF TraceInv
<1>2. UNCHANGED <<host, number>>
  BY DEF Next, vars, Measure, add_entry, Refuse, Fail, ZeroRow
<1>3. ASSUME NEW q \in Queries, NEW f \in Files, uid(q)' # 0, ~Shared(q)' PROVE Recorded(q, f)'
  <2>1. uid(q) # 0 /\ ~Shared(q)
    BY <1>2, <1>3, UidKept
  <2> QED BY <2>1, RecordedStep DEF TraceInv
<1>4. TimesInv'
  BY TimesStep DEF TraceInv
<1> QED BY <1>1, <1>3, <1>4 DEF TraceInv

(* The subtraction of the earliest time does not wrap for a time that is   *)
(* not before a row of the client.                                         *)
LEMMA SinceIs ==
  ASSUME TraceTyped, TimesInv, NEW a \in 0..clock,
         \E k \in DOMAIN file["client"] : file["client"][k][2] <= a
  PROVE  Since(a) = a - time_start
<1> DEFINE rows  == file["client"]
           times == {rows[i][2] : i \in DOMAIN rows}
<1>1. rows \in Seq(TraceIds \X Int)
  BY DEF TraceTyped, Files
<1>2. PICK k \in DOMAIN rows : rows[k][2] <= a
  OBVIOUS
<1>3. rows # <<>>
  BY <1>2
<1>4. \A i \in DOMAIN rows : rows[i][2] \in Int
  BY <1>1
<1>5. PICK i \in DOMAIN rows : 0 <= rows[i][2] /\ \A j \in DOMAIN rows : rows[i][2] <= rows[j][2]
  BY <1>3 DEF TimesInv, HasEarliest
<1>6. PICK m \in Int : m = rows[i][2]
  BY <1>4
<1>7. times \in SUBSET Int /\ m \in times /\ \A t \in times : m <= t
  BY <1>4, <1>5, <1>6
<1>8. time_start = m
  BY <1>7, MinIs DEF time_start
<1>9. 0 <= m /\ m <= a /\ clock < EpochSize /\ EpochSize \in Nat \ {0} /\ clock \in Nat
  BY <1>2, <1>4, <1>5, <1>6, EpochAssumption DEF TimesInv
<1>10. a - m \in 0..EpochSize - 1
  BY <1>9
<1>11. (a - m) % EpochSize = a - m
  BY <1>9, <1>10, NotCut
<1> QED BY <1>3, <1>8, <1>11 DEF Since

(* The id 0 is of client 0, whose traces are left out.                     *)
LEMMA ZeroIsOfZero == client_uid(0) = 0
<1>1. PICK z \in Int : z = 0
  OBVIOUS
<1>2. (z * NumberSize) \div NumberSize = z
  BY SizesPositive, WholeOf
<1>3. z * NumberSize = 0
  BY <1>1, SizesPositive
<1> QED BY <1>1, <1>2, <1>3 DEF client_uid

(* A trace has the id of a row.                                            *)
LEMMA AllIs ==
  ASSUME TraceTyped, NEW t \in all
  PROVE  /\ t.query_uid \in TraceIds
         /\ t.client = treat_data("client", t.query_uid)
         /\ t.sanit = treat_data("sanit", t.query_uid)
<1>2. PICK u \in UNION {{file[f][i][1] : i \in DOMAIN file[f]} : f \in Files} :
        t = [query_uid |-> u, client |-> treat_data("client", u), sanit |-> treat_data("sanit", u)]
  BY DEF all
<1>3. PICK f \in Files : \E i \in DOMAIN file[f] : u = file[f][i][1]
  BY <1>2
<1>4. PICK i \in DOMAIN file[f] : u = file[f][i][1]
  BY <1>3
<1>5. file[f] \in Seq(TraceIds \X Int)
  BY DEF TraceTyped
<1>6. file[f][i] \in TraceIds \X Int
  BY <1>4, <1>5
<1>7. u \in TraceIds
  BY <1>4, <1>6
<1> QED BY <1>2, <1>7

(* A trace that is not left out does not have the id 0.                    *)
LEMMA TracedIs ==
  ASSUME TraceTyped, NEW t \in traced(all)
  PROVE  /\ t.query_uid \in TraceIds /\ t.query_uid # 0
         /\ t.client = treat_data("client", t.query_uid)
         /\ t.sanit = treat_data("sanit", t.query_uid)
<1>1. t \in all /\ client_uid(t.query_uid) # 0
  BY DEF traced
<1> QED BY <1>1, AllIs, ZeroIsOfZero

(* The client of an id is a number.                                        *)
LEMMA ClientOfId ==
  ASSUME TraceTyped, NEW u \in TraceIds
  PROVE  client_uid(u) \in Int
<1>1. u \in Int
  <2>1. CASE u = 0
    BY <2>1
  <2>2. ASSUME NEW q \in Queries, u = uid(q) PROVE u \in Int
    <3> DEFINE is  == host[q].is
               rnd == host[q].random
               ip  == (((is[3] * OctetSize) + is[3]) * OctetSize + is[3]) * OctetSize + is[0]
    <3>1. host[q] \in [is : [0..3 -> Octets], random : Randoms] /\ number[q] \in Nat
      BY HostsAssumption DEF TraceTyped
    <3>2. is[3] \in Nat /\ is[0] \in Nat /\ rnd \in Nat
      BY <3>1, SizesPositive DEF Octets, Randoms
    <3>3. (is[3] * OctetSize) + is[3] \in Nat
      BY <3>2, SizesPositive, PartsNat
    <3>4. ((is[3] * OctetSize) + is[3]) * OctetSize + is[3] \in Nat
      BY <3>2, <3>3, SizesPositive, PartsNat
    <3>5. ip \in Nat
      BY <3>2, <3>4, SizesPositive, PartsNat
    <3>6. ip * RandomSize + rnd \in Nat
      <4> HIDE DEF ip, rnd
      <4> QED BY <3>2, <3>5, SizesPositive, PartsNat
    <3>7. number[q] % NumberSize \in Nat
      BY <3>1, SizesPositive
    <3>8. u = (ip * RandomSize + rnd) * NumberSize + (number[q] % NumberSize)
      BY <2>2 DEF uid, get_query_uid, generate_local_uid
    <3>9. (ip * RandomSize + rnd) * NumberSize + (number[q] % NumberSize) \in Nat
      <4> HIDE DEF ip, rnd
      <4> QED BY <3>6, <3>7, SizesPositive, PartsNat
    <3> QED BY <3>8, <3>9
  <2> QED BY <2>1, <2>2 DEF TraceIds
<1>2. \A n \in Nat \ {0} : u \div n \in Int
  BY <1>1
<1> QED BY <1>2, SizesPositive DEF client_uid

(* The invariant makes the traces true.                                    *)
LEMMA SpansTrueHolds == TraceInv /\ TimesInv => SpansTrue
<1> SUFFICES ASSUME TraceInv, TimesInv, NEW t \in traced(all), NEW q \in Queries,
                    uid(q) = t.query_uid, ~Shared(q)
             PROVE  /\ t.client = [start |-> IF pc[q] > 1 /\ TRUE THEN time[q][1] - time_start
                                             ELSE None,
                                   end |-> IF pc[q] > 7 /\ "failed" \notin over[q]
                                           THEN time[q][7] - time_start ELSE None]
                    /\ t.sanit = [start |-> IF pc[q] > 3 /\ TRUE THEN time[q][3] - time_start
                                            ELSE None,
                                  end |-> IF pc[q] > 5 /\ "refused" \notin over[q]
                                          THEN time[q][5] - time_start ELSE None]
  BY DEF SpansTrue
<1> DEFINE u == uid(q)
<1>1. TraceTyped
  BY DEF TraceInv
<1>2. t.client = treat_data("client", u) /\ t.sanit = treat_data("sanit", u) /\ u # 0
  BY <1>1, TracedIs
<1>3. \A f \in Files : RowsAre(q, f, u, time[q][BeginOf(f)], time[q][EndOf(f)])
  BY <1>2 DEF TraceInv, Recorded
<1> HIDE DEF u
<1>4. pc[q] \in 0..8
  BY <1>1 DEF TraceTyped
<1>5. pc[q] > 1 => \E k \in DOMAIN file["client"] : file["client"][k][2] = time[q][1]
  <2>1. RowsAre(q, "client", u, time[q][1], time[q][7])
    BY <1>3, Stages DEF Files
  <2>2. pc[q] > 1 => OneRow("client", u, time[q][1]) \/ TwoRows("client", u, time[q][1], time[q][7])
    BY <2>1, Stages DEF RowsAre
  <2> QED BY <2>2 DEF OneRow, TwoRows
<1>6. ASSUME NEW i \in Measures, Timed(q, i), pc[q] > i
      PROVE  Since(time[q][i]) = time[q][i] - time_start
  <2>1. time[q][i] \in 0..clock /\ time[q][1] <= time[q][i]
    BY <1>6 DEF TimesInv
  <2>2. pc[q] > 1
    BY <1>4, <1>6 DEF Measures
  <2>3. \E k \in DOMAIN file["client"] : file["client"][k][2] <= time[q][i]
    BY <1>5, <2>1, <2>2
  <2> QED BY <1>1, <2>1, <2>3, SinceIs
<1>7. ASSUME NEW f \in Files
      PROVE  treat_data(f, u) =
               [start |-> IF Begun(q, f) THEN time[q][BeginOf(f)] - time_start ELSE None,
                end |-> IF Ended(q, f) THEN time[q][EndOf(f)] - time_start ELSE None]
  <2>1. PICK a, b : a = time[q][BeginOf(f)] /\ b = time[q][EndOf(f)]
    OBVIOUS
  <2>2. RowsAre(q, f, u, a, b)
    BY <1>3, <2>1
  <2>3. Ended(q, f) => Begun(q, f)
    BY <1>4, Stages DEF Files
  <2>4. Begun(q, f) => Since(a) = time[q][BeginOf(f)] - time_start
    <3>1. BeginOf(f) \in Measures /\ BeginOf(f) # 5 /\ BeginOf(f) # 7
      BY DEF BeginOf, Measures
    <3>2. Begun(q, f) => Timed(q, BeginOf(f)) /\ pc[q] > BeginOf(f)
      BY <1>4, <3>1 DEF Begun, Timed, Measures
    <3> QED BY <1>6, <2>1, <3>1, <3>2
  <2>5. Ended(q, f) => Since(b) = time[q][EndOf(f)] - time_start
    <3>1. EndOf(f) \in Measures
      BY DEF EndOf, Measures
    <3>2. Ended(q, f) => Timed(q, EndOf(f)) /\ pc[q] > EndOf(f)
      BY <1>4, <3>1, Stages DEF Timed, Measures, Files
    <3> QED BY <1>6, <2>1, <3>1, <3>2
  <2>6. CASE ~Begun(q, f)
    BY <2>2, <2>3, <2>6, ShownOfNone DEF RowsAre
  <2>7. CASE Begun(q, f) /\ ~Ended(q, f)
    BY <1>1, <2>1, <2>2, <2>4, <2>7, ShownOfOne DEF RowsAre
  <2>8. CASE Ended(q, f)
    BY <1>1, <2>1, <2>2, <2>3, <2>4, <2>5, <2>8, ShownOfTwo DEF RowsAre
  <2> QED BY <2>6, <2>7, <2>8
<1>8. treat_data("client", u) =
        [start |-> IF pc[q] > 1 THEN time[q][1] - time_start ELSE None,
         end |-> IF pc[q] > 7 /\ "failed" \notin over[q] THEN time[q][7] - time_start ELSE None]
  BY <1>7, Stages DEF Files
<1>9. treat_data("sanit", u) =
        [start |-> IF pc[q] > 3 THEN time[q][3] - time_start ELSE None,
         end |-> IF pc[q] > 5 /\ "refused" \notin over[q] THEN time[q][5] - time_start ELSE None]
  BY <1>7, Stages DEF Files
<1> QED BY <1>2, <1>8, <1>9

(* The figures shown are of one client, the least.                         *)
LEMMA PlottedHolds == TraceTyped => PlottedAreQueries
<1> SUFFICES ASSUME TraceTyped PROVE PlottedAreQueries
  OBVIOUS
<1>1. ASSUME NEW t \in traced(all) PROVE \E q \in Queries : uid(q) = t.query_uid
  BY TracedIs DEF TraceIds
<1>2. ASSUME NEW t \in plotted(all), NEW u \in plotted(all)
      PROVE  client_uid(t.query_uid) = client_uid(u.query_uid)
  <2>1. t \in all /\ u \in all
    BY DEF plotted, traced
  <2>2. /\ client_uid(t.query_uid) <= client_uid(u.query_uid)
        /\ client_uid(u.query_uid) <= client_uid(t.query_uid)
    BY <2>1 DEF plotted
  <2>3. client_uid(t.query_uid) \in Int /\ client_uid(u.query_uid) \in Int
    BY <2>1, AllIs, ClientOfId
  <2> QED BY <2>2, <2>3
<1> QED BY <1>1, <1>2 DEF PlottedAreQueries

(* Every trace shows one query as it was, with the times measured at its   *)
(* ends, counted without a wrap from the earliest, in whatever order they  *)
(* were recorded, unless two queries share an id; rows of zeros never show *)
(* up as a trace, and the figures shown are of one client; for any         *)
(* queries, hosts, numbers, widths and rows of zeros, as long as the clock *)
(* does not come round (data_analysis/plot_utils.py:22-37, 75-78, 97).     *)
THEOREM PlottedIsTrueCorrect == EitherSpec => []PlottedIsTrue
<1> DEFINE Inv == chosen = "analysis" => TraceInv /\ TimesInv
<1>1. EitherInit => Inv
  BY TraceInit DEF EitherInit
<1>2. Inv /\ [EitherNext]_<<chosen, uidVars, vars>> => Inv'
  <2> SUFFICES ASSUME Inv, [EitherNext]_<<chosen, uidVars, vars>>, chosen' = "analysis"
               PROVE  TraceInv' /\ TimesInv'
    OBVIOUS
  <2>1. chosen = "analysis" /\ [Next]_vars
    BY DEF EitherNext
  <2> QED BY <2>1, TraceStep
<1>3. Inv => PlottedIsTrue
  BY SpansTrueHolds, PlottedHolds DEF PlottedIsTrue, TraceInv
<1> QED BY <1>1, <1>2, <1>3, PTL DEF EitherSpec
=============================================================================
