--------------------------- MODULE GatewayProofs ---------------------------
(***************************************************************************)
(* Proofs about SessionMemory and Gateway, for any number of clients, any  *)
(* capacity and any limits: each request is in one place, memories are     *)
(* whole exchanges below their limit, and the cache keeps Conversation.    *)
(*                                                                         *)
(* The argument: a client's request is handed from one place to the next;  *)
(* as one turn runs at a time, what the turn read from the cache is still  *)
(* there when it writes the longer memory back; and the numbers of         *)
(* questions grow, so the exchange it adds comes after the others.         *)
(***************************************************************************)
EXTENDS Gateway, SequenceLemmas, SequenceTheorems, FiniteSetTheorems, TLAPS

USE GatewayAssumption, CapacityAssumption

-----------------------------------------------------------------------------
(* The cache.                                                              *)

KeysDiffer(q) == \A i, j \in DOMAIN q : q[i].key = q[j].key => i = j

LEMMA PlaceFacts ==
  ASSUME NEW q, NEW k \in Keys(q)
  PROVE  Place(q, k) \in DOMAIN q /\ q[Place(q, k)].key = k /\ Find(q, k) = q[Place(q, k)].value
BY DEF Keys, Place, Find

\* The value under a key is that of any entry that has the key.
LEMMA FindFacts ==
  ASSUME NEW q, KeysDiffer(q), NEW i \in DOMAIN q
  PROVE  q[i].key \in Keys(q) /\ Find(q, q[i].key) = q[i].value
<1>1. q[i].key \in Keys(q)
  BY DEF Keys
<1>2. Place(q, q[i].key) = i
  BY <1>1, PlaceFacts DEF KeysDiffer
<1> QED BY <1>1, <1>2, PlaceFacts

LEMMA RemoveAtFacts ==
  ASSUME NEW S, NEW q \in Seq(S), NEW n \in DOMAIN q
  PROVE  /\ RemoveAt(q, n) \in Seq(S) /\ Len(RemoveAt(q, n)) = Len(q) - 1
         /\ \A i \in 1..(Len(q) - 1) : RemoveAt(q, n)[i] = q[IF i < n THEN i ELSE i + 1]
<1> DEFINE a == SubSeq(q, 1, n - 1)
           b == SubSeq(q, n + 1, Len(q))
<1>0. Len(q) \in Nat /\ n \in 1..Len(q) /\ n \in Nat
  OBVIOUS
<1>a. a \in Seq(S) /\ Len(a) = n - 1 /\ \A i \in 1..(n - 1) : a[i] = q[i]
  BY <1>0
<1>b. b \in Seq(S) /\ Len(b) = Len(q) - n /\ \A i \in 1..(Len(q) - n) : b[i] = q[n + i]
  BY <1>0
<1> HIDE DEF a, b
<1>1. /\ Len(q) \in Nat /\ n \in 1..Len(q)
      /\ a \in Seq(S) /\ Len(a) = n - 1 /\ \A i \in 1..(n - 1) : a[i] = q[i]
      /\ b \in Seq(S) /\ Len(b) = Len(q) - n /\ \A i \in 1..(Len(q) - n) : b[i] = q[n + i]
  BY <1>0, <1>a, <1>b
<1>2. /\ a \o b \in Seq(S) /\ Len(a \o b) = Len(q) - 1
      /\ \A i \in 1..(Len(q) - 1) :
           (a \o b)[i] = IF i <= n - 1 THEN a[i] ELSE b[i - (n - 1)]
  <2> DEFINE ab == a \o b
  <2>1. /\ ab \in Seq(S) /\ Len(ab) = Len(a) + Len(b)
        /\ \A i \in 1..(Len(a) + Len(b)) :
             ab[i] = IF i <= Len(a) THEN a[i] ELSE b[i - Len(a)]
    BY <1>1, ConcatProperties
  <2>2. Len(a) + Len(b) = Len(q) - 1
    BY <1>1
  <2> HIDE DEF ab
  <2>3. /\ ab \in Seq(S) /\ Len(ab) = Len(q) - 1
        /\ \A i \in 1..(Len(q) - 1) : ab[i] = IF i <= n - 1 THEN a[i] ELSE b[i - (n - 1)]
    BY <1>1, <2>1, <2>2
  <2> QED BY <2>3 DEF ab
<1>3. ASSUME NEW i \in 1..(Len(q) - 1)
      PROVE  (a \o b)[i] = q[IF i < n THEN i ELSE i + 1]
  <2>1. CASE i < n
    BY <1>1, <1>2, <2>1
  <2>2. CASE ~(i < n)
    <3>1. i - (n - 1) \in 1..(Len(q) - n) /\ ~(i <= n - 1) /\ n + (i - (n - 1)) = i + 1
      BY <1>1, <2>2
    <3> QED BY <1>1, <1>2, <2>2, <3>1
  <2> QED BY <2>1, <2>2
<1>4. RemoveAt(q, n) = a \o b
  BY DEF RemoveAt, a, b
<1> QED BY <1>2, <1>3, <1>4

\* What is found in a part of a cache is what is found in the whole.
LEMMA PartFacts ==
  ASSUME NEW q, NEW r, KeysDiffer(q), KeysDiffer(r),
         \A i \in DOMAIN r : \E j \in DOMAIN q : r[i] = q[j]
  PROVE  \A d \in Keys(r) : d \in Keys(q) /\ Find(r, d) = Find(q, d)
<1> SUFFICES ASSUME NEW d \in Keys(r) PROVE d \in Keys(q) /\ Find(r, d) = Find(q, d)
  OBVIOUS
<1>1. PICK i \in DOMAIN r : r[i].key = d
  BY DEF Keys
<1>2. PICK j \in DOMAIN q : r[i] = q[j]
  BY <1>1
<1> QED BY <1>1, <1>2, FindFacts

LEMMA OthersFacts ==
  ASSUME NEW S, NEW q \in Seq(S), KeysDiffer(q), NEW k \in Keys(q)
  PROVE  /\ Others(q, k) \in Seq(S) /\ Len(Others(q, k)) = Len(q) - 1
         /\ KeysDiffer(Others(q, k)) /\ Keys(Others(q, k)) = Keys(q) \ {k}
         /\ \A d \in Keys(q) \ {k} : Find(Others(q, k), d) = Find(q, d)
<1> DEFINE n == Place(q, k)
           r == Others(q, k)
<1>1. /\ n \in DOMAIN q /\ q[n].key = k /\ Len(q) \in Nat /\ DOMAIN q = 1..Len(q)
  BY PlaceFacts
<1>2. /\ r \in Seq(S) /\ Len(r) = Len(q) - 1
      /\ \A i \in 1..(Len(q) - 1) : r[i] = q[IF i < n THEN i ELSE i + 1]
  BY <1>1, RemoveAtFacts DEF Others
<1> HIDE DEF n, r
<1>3. DOMAIN r = 1..(Len(q) - 1)
  BY <1>2
<1> DEFINE at(i) == IF i < n THEN i ELSE i + 1
<1>0. /\ \A i \in DOMAIN r : at(i) \in DOMAIN q /\ at(i) # n /\ r[i] = q[at(i)]
      /\ \A i, j \in DOMAIN r : at(i) = at(j) => i = j
  BY <1>1, <1>2, <1>3
<1> HIDE DEF at
<1>4. KeysDiffer(r)
  BY <1>0 DEF KeysDiffer
<1>5. \A i \in DOMAIN r : \E j \in DOMAIN q : r[i] = q[j]
  BY <1>0
<1>6. Keys(r) \subseteq Keys(q) \ {k}
  <2>1. ASSUME NEW i \in DOMAIN r PROVE r[i].key \in Keys(q) \ {k}
    BY <1>0, <1>1 DEF Keys, KeysDiffer
  <2> QED BY <2>1 DEF Keys
<1>7. ASSUME NEW d \in Keys(q) \ {k} PROVE d \in Keys(r)
  <2>1. PICK j \in 1..Len(q) : q[j].key = d
    BY <1>1 DEF Keys
  <2>2. CASE j < n
    BY <1>1, <1>2, <1>3, <2>1, <2>2 DEF Keys
  <2>3. CASE j > n
    <3>1. j - 1 \in DOMAIN r /\ r[j - 1] = q[j]
      BY <1>1, <1>2, <1>3, <2>3
    <3> QED BY <2>1, <3>1 DEF Keys
  <2> QED BY <1>1, <1>7, <2>1, <2>2, <2>3
<1>8. Keys(r) = Keys(q) \ {k} /\ \A d \in Keys(q) \ {k} : Find(r, d) = Find(q, d)
  BY <1>4, <1>5, <1>6, <1>7, PartFacts
<1> QED BY <1>2, <1>4, <1>8 DEF r

LEMMA FrontFacts ==
  ASSUME NEW S, NEW q \in Seq(S), KeysDiffer(q), q # <<>>
  PROVE  /\ Front(q) \in Seq(S) /\ Len(Front(q)) = Len(q) - 1
         /\ KeysDiffer(Front(q)) /\ Keys(Front(q)) = Keys(q) \ {Last(q).key}
         /\ Last(q).key \in Keys(q)
         /\ \A d \in Keys(Front(q)) : Find(Front(q), d) = Find(q, d)
<1> DEFINE r == Front(q)
<1>0. Len(q) \in Nat \ {0} /\ DOMAIN q = 1..Len(q) /\ Last(q) = q[Len(q)]
  BY DEF Last
<1>1. /\ Len(q) \in Nat \ {0} /\ DOMAIN q = 1..Len(q) /\ Last(q) = q[Len(q)]
      /\ r \in Seq(S) /\ Len(r) = Len(q) - 1 /\ DOMAIN r = 1..(Len(q) - 1)
      /\ \A i \in 1..(Len(q) - 1) : r[i] = q[i]
  BY <1>0 DEF Front
<1> HIDE DEF r
<1>2. KeysDiffer(r)
  BY <1>1 DEF KeysDiffer
<1>3. \A i \in DOMAIN r : \E j \in DOMAIN q : r[i] = q[j]
  BY <1>1
<1>4. Keys(r) = Keys(q) \ {Last(q).key} /\ Last(q).key \in Keys(q)
  BY <1>1 DEF Keys, KeysDiffer
<1>5. \A d \in Keys(r) : Find(r, d) = Find(q, d)
  BY <1>2, <1>3, PartFacts
<1> QED BY <1>1, <1>2, <1>4, <1>5 DEF r

LEMMA InFrontFacts ==
  ASSUME NEW S, NEW r \in Seq(S), KeysDiffer(r), NEW k, k \notin Keys(r), NEW v, Entry(k, v) \in S
  PROVE  LET q == <<Entry(k, v)>> \o r
         IN /\ q \in Seq(S) /\ Len(q) = Len(r) + 1
            /\ KeysDiffer(q) /\ Keys(q) = Keys(r) \cup {k}
            /\ Find(q, k) = v /\ \A d \in Keys(r) : Find(q, d) = Find(r, d)
<1> DEFINE q == <<Entry(k, v)>> \o r
<1>1. /\ Len(r) \in Nat /\ DOMAIN r = 1..Len(r)
      /\ q \in Seq(S) /\ Len(q) = Len(r) + 1 /\ DOMAIN q = 1..(Len(r) + 1)
      /\ q[1] = Entry(k, v) /\ \A i \in 1..Len(r) : q[i + 1] = r[i]
  OBVIOUS
<1>2. Entry(k, v).key = k /\ Entry(k, v).value = v
  BY DEF Entry
<1> HIDE DEF q
<1>3. \A i \in 1..(Len(r) + 1) : i # 1 => i - 1 \in 1..Len(r) /\ q[i] = r[i - 1]
  BY <1>1
<1>4. KeysDiffer(q)
  <2>1. ASSUME NEW i \in 1..(Len(r) + 1), i # 1
        PROVE  q[i].key \in Keys(r) /\ q[i].key # q[1].key
    <3>1. i - 1 \in DOMAIN r /\ q[i] = r[i - 1]
      BY <1>1, <1>3, <2>1
    <3>2. q[i].key \in Keys(r)
      BY <3>1 DEF Keys
    <3> QED BY <1>1, <1>2, <3>2
  <2>2. ASSUME NEW i \in 1..(Len(r) + 1), NEW j \in 1..(Len(r) + 1), q[i].key = q[j].key
        PROVE  i = j
    <3>1. CASE i = 1 \/ j = 1
      BY <1>1, <2>1, <2>2, <3>1
    <3>2. CASE i # 1 /\ j # 1
      BY <1>3, <2>2, <3>2 DEF KeysDiffer
    <3> QED BY <3>1, <3>2
  <2> QED BY <1>1, <2>2 DEF KeysDiffer
<1>5. Keys(q) = Keys(r) \cup {k}
  <2>1. Keys(q) \subseteq Keys(r) \cup {k}
    <3>1. ASSUME NEW i \in DOMAIN q PROVE q[i].key \in Keys(r) \cup {k}
      BY <1>1, <1>2, <1>3 DEF Keys
    <3> QED BY <3>1 DEF Keys
  <2>2. k \in Keys(q) /\ Keys(r) \subseteq Keys(q)
    BY <1>1, <1>2 DEF Keys
  <2> QED BY <2>1, <2>2
<1>6. Find(q, k) = v
  <2>1. 1 \in DOMAIN q /\ q[1].key = k /\ q[1].value = v
    BY <1>1, <1>2
  <2> QED BY <1>4, <2>1, FindFacts
<1>7. \A i \in DOMAIN r : \E j \in DOMAIN q : r[i] = q[j]
  BY <1>1
<1>8. \A d \in Keys(r) : Find(q, d) = Find(r, d)
  BY <1>4, <1>7, PartFacts
<1> QED BY <1>1, <1>4, <1>5, <1>6, <1>8 DEF q

Entries(K, V) == [key : K, value : V]

\* A hit changes the order of the entries and nothing that is found.
LEMMA TouchFacts ==
  ASSUME NEW K, NEW V, NEW q \in Seq(Entries(K, V)), KeysDiffer(q), NEW k
  PROVE  /\ Touch(q, k) \in Seq(Entries(K, V)) /\ Len(Touch(q, k)) = Len(q)
         /\ KeysDiffer(Touch(q, k)) /\ Keys(Touch(q, k)) = Keys(q)
         /\ \A d \in Keys(q) : Find(Touch(q, k), d) = Find(q, d)
<1>1. CASE k \notin Keys(q)
  BY <1>1 DEF Touch
<1>2. CASE k \in Keys(q)
  <2> DEFINE S == Entries(K, V)
             r == Others(q, k)
             v == Find(q, k)
             t == <<Entry(k, v)>> \o r
  <2>1. Touch(q, k) = t
    BY <1>2 DEF Touch
  <2>2. Entry(k, v) \in S
    <3>1. \A i \in DOMAIN q : q[i] \in [key : K, value : V]
      BY ElementOf DEF Entries
    <3>2. PICK e \in [key : K, value : V] : k = e.key /\ v = e.value
      BY <1>2, <3>1, PlaceFacts
    <3> HIDE DEF v
    <3>3. k \in K /\ v \in V
      BY <3>2
    <3> QED BY <3>3 DEF Entry, Entries
  <2>3. /\ r \in Seq(S) /\ Len(r) = Len(q) - 1 /\ KeysDiffer(r) /\ Keys(r) = Keys(q) \ {k}
        /\ \A d \in Keys(q) \ {k} : Find(r, d) = Find(q, d)
    BY <1>2, OthersFacts
  <2> HIDE DEF S, r, v
  <2>4. k \notin Keys(r) /\ Len(q) \in Nat
    BY <2>3
  <2>5. /\ t \in Seq(S) /\ Len(t) = Len(r) + 1 /\ KeysDiffer(t) /\ Keys(t) = Keys(r) \cup {k}
        /\ Find(t, k) = v /\ \A d \in Keys(r) : Find(t, d) = Find(r, d)
    BY <2>2, <2>3, <2>4, InFrontFacts
  <2>6. Len(t) = Len(q) /\ Keys(t) = Keys(q)
    <3> HIDE DEF t
    <3> QED BY <1>2, <2>3, <2>4, <2>5
  <2>7. \A d \in Keys(q) : Find(t, d) = Find(q, d)
    BY <2>3, <2>5 DEF v
  <2> HIDE DEF t
  <2> QED BY <2>1, <2>5, <2>6, <2>7 DEF S
<1> QED BY <1>1, <1>2

\* LRUShard::Put for any list whose keys differ: the value is found under its
\* key, every other key that is found has the value it had, one entry at most
\* goes, only for a new key in a full shard, and it is the one used longest ago.
THEOREM PutFacts ==
  ASSUME NEW K, NEW V, NEW q \in Seq(Entries(K, V)), KeysDiffer(q),
         Len(q) <= Capacity, NEW k \in K, NEW v \in V
  PROVE  LET t == Put(q, k, v)
         IN /\ t \in Seq(Entries(K, V)) /\ Len(t) <= Capacity /\ KeysDiffer(t)
            /\ Keys(t) = IF k \in Keys(q) \/ Len(q) < Capacity THEN Keys(q) \cup {k}
                         ELSE (Keys(q) \ {Last(q).key}) \cup {k}
            /\ k \notin Keys(q) /\ Len(q) >= Capacity => Last(q).key \in Keys(q)
            /\ Find(t, k) = v
            /\ \A d \in Keys(t) \ {k} : d \in Keys(q) /\ Find(t, d) = Find(q, d)
<1> DEFINE S == Entries(K, V)
           r == IF k \in Keys(q) THEN Others(q, k)
                ELSE IF Len(q) >= Capacity THEN Front(q) ELSE q
           t == <<Entry(k, v)>> \o r
<1>1. Put(q, k, v) = t /\ Entry(k, v) \in S /\ Len(q) \in Nat
  BY DEF Put, Entry, Entries
<1>2. /\ r \in Seq(S) /\ Len(r) < Capacity /\ KeysDiffer(r) /\ k \notin Keys(r)
      /\ Keys(r) \cup {k} = IF k \in Keys(q) \/ Len(q) < Capacity THEN Keys(q) \cup {k}
                            ELSE (Keys(q) \ {Last(q).key}) \cup {k}
      /\ k \notin Keys(q) /\ Len(q) >= Capacity => Last(q).key \in Keys(q)
      /\ \A d \in Keys(r) : d \in Keys(q) /\ Find(r, d) = Find(q, d)
  <2>1. CASE k \in Keys(q)
    <3>1. r = Others(q, k)
      BY <2>1
    <3>2. /\ r \in Seq(S) /\ Len(r) = Len(q) - 1 /\ KeysDiffer(r) /\ Keys(r) = Keys(q) \ {k}
          /\ \A d \in Keys(q) \ {k} : Find(r, d) = Find(q, d)
      BY <2>1, <3>1, OthersFacts
    <3> HIDE DEF r, S
    <3> QED BY <1>1, <2>1, <3>2
  <2>2. CASE k \notin Keys(q) /\ Len(q) >= Capacity
    <3>1. r = Front(q) /\ q # <<>>
      BY <2>2
    <3>2. /\ r \in Seq(S) /\ Len(r) = Len(q) - 1 /\ KeysDiffer(r)
          /\ Keys(r) = Keys(q) \ {Last(q).key} /\ Last(q).key \in Keys(q)
          /\ \A d \in Keys(r) : Find(r, d) = Find(q, d)
      BY <3>1, FrontFacts
    <3> HIDE DEF r, S
    <3> QED BY <1>1, <2>2, <3>2
  <2>3. CASE k \notin Keys(q) /\ Len(q) < Capacity
    <3>1. r = q
      BY <1>1, <2>3
    <3> HIDE DEF r, S
    <3> QED BY <1>1, <2>3, <3>1 DEF S
  <2> QED BY <1>1, <2>1, <2>2, <2>3
<1> HIDE DEF r, S
<1>3. /\ t \in Seq(S) /\ Len(t) = Len(r) + 1 /\ KeysDiffer(t) /\ Keys(t) = Keys(r) \cup {k}
      /\ Find(t, k) = v /\ \A d \in Keys(r) : Find(t, d) = Find(r, d)
  BY <1>1, <1>2, InFrontFacts
<1>4. Len(t) <= Capacity
  <2>1. Len(r) \in Nat
    BY <1>2
  <2> QED BY <1>2, <1>3, <2>1
<1>5. \A d \in Keys(t) \ {k} : d \in Keys(q) /\ Find(t, d) = Find(q, d)
  BY <1>2, <1>3
<1> HIDE DEF t
<1> QED BY <1>1, <1>2, <1>3, <1>4, <1>5 DEF S

-----------------------------------------------------------------------------
(* The invariant.                                                          *)

Sock == ToSet(inbox)
Loop == {hand} \ {Nobody}
Pool == ToSet(queue)
Serving == {c \in Clients : turn # Idle /\ turn.client = c}
Replied == {c \in Clients : reply[c] # "none"}
Waiting == {c \in Clients : request[c] # "none"}

\* Each request is in one place, and only questions get past the filters.
Control ==
  /\ Sock \cup Loop \cup Pool \cup Serving \cup Replied = Waiting
  /\ Sock \cap (Loop \cup Pool \cup Serving \cup Replied) = {}
  /\ Loop \cap (Pool \cup Serving \cup Replied) = {}
  /\ Pool \cap (Serving \cup Replied) = {}
  /\ Serving \cap Replied = {}
  /\ IsInjective(inbox) /\ IsInjective(queue)
  /\ \A c \in Loop \cup Pool \cup Serving : request[c] = "question"

\* A question that is under way has not been answered.
Numbered ==
  \A c \in Clients : /\ answered[c] <= asked[c]
                     /\ request[c] = "question" /\ reply[c] = "none" => answered[c] < asked[c]

\* Whole exchanges, the last of them number n or an earlier one.
Memory(messages, n) == WellFormed(messages) /\ messages[Len(messages)].of <= n

\* What loadSessionMemory would find for c.
Recall(c) == IF c \in Keys(cache) THEN Find(cache, c) ELSE <<System>>

\* What the turn read is what the cache still holds, and the turn may call
\* once more.
Remembering ==
  /\ KeysDiffer(cache)
  /\ \A c \in Keys(cache) : Memory(Find(cache, c), answered[c])
  /\ turn # Idle /\ turn.phase # "begun" => turn.messages = Recall(turn.client)
  /\ turn # Idle /\ turn.phase \in {"begun", "model"} => turn.calls < MaxToolCalls

IInv == TypeOK /\ Control /\ Numbered /\ Remembering

LEMMA InvariantImplies ==
  ASSUME IInv
  PROVE  OneRequestEach /\ MemoriesWellFormed
<1>1. UNION {Places[a] : a \in DOMAIN Places} = Sock \cup Loop \cup Pool \cup Serving \cup Replied
  BY DEF Places, Sock, Loop, Pool, Serving, Replied
<1>2. \A a, b \in DOMAIN Places : a # b => Places[a] \cap Places[b] = {}
  BY DEF IInv, Control, Places, Sock, Loop, Pool, Serving, Replied
<1>3. OneRequestEach
  BY <1>1, <1>2 DEF IInv, Control, OneRequestEach, Waiting
<1>4. MemoriesWellFormed
  BY FindFacts DEF IInv, Remembering, Memory, MemoriesWellFormed
<1> QED BY <1>3, <1>4

LEMMA InitInvariant == Init => IInv
<1> SUFFICES ASSUME Init PROVE IInv
  OBVIOUS
<1>1. TypeOK
  <2>1. /\ token \in [Clients -> {"none", "live", "expired", "revoked"}]
        /\ request \in [Clients -> Requests \cup {"none"}]
        /\ reply \in [Clients -> Replies \cup {"none"}]
        /\ asked \in [Clients -> 0..MaxQuestions] /\ answered \in [Clients -> 0..MaxQuestions]
    BY DEF Init
  <2>2. /\ inbox \in Seq(Clients) /\ queue \in Seq(Clients)
        /\ hand \in Clients \cup {Nobody} /\ turn \in Turns \cup {Idle}
        /\ cache \in Seq([key : Clients, value : Seq(Messages)]) /\ Len(cache) <= Capacity
    BY DEF Init
  <2>3. redis \in {"up", "failing"} /\ stuck \in BOOLEAN /\ routed \in BOOLEAN
    BY DEF Init
  <2> QED BY <2>1, <2>2, <2>3 DEF TypeOK
<1>2. Control
  BY ToSetEmpty DEF Init, Control, Sock, Loop, Pool, Serving, Replied, Waiting, IsInjective
<1>3. Numbered /\ Remembering
  BY DEF Init, Numbered, Remembering, KeysDiffer, Keys
<1> QED BY <1>1, <1>2, <1>3 DEF IInv

\* The places of requests hold clients.
LEMMA PlaceTypes ==
  ASSUME TypeOK
  PROVE  /\ Sock \subseteq Clients /\ Loop \subseteq Clients /\ Pool \subseteq Clients
         /\ inbox \in Seq(Clients) /\ queue \in Seq(Clients)
         /\ hand # Nobody => hand \in Clients /\ Loop = {hand}
         /\ turn # Idle => turn \in Turns /\ turn.client \in Clients /\ Serving = {turn.client}
         /\ turn = Idle => Serving = {}
<1>1. \A q \in Seq(Clients) : ToSet(q) \subseteq Clients
  BY DEF ToSet
<1> QED BY <1>1 DEF TypeOK, Sock, Loop, Pool, Serving, Turns

\* A step that leaves the cache alone, and the turn or ends it.
LEMMA MemoryUntouched ==
  ASSUME IInv, UNCHANGED <<cache, answered>>, turn' = turn \/ turn' = Idle
  PROVE  Remembering'
BY DEF IInv, Remembering, Recall

-----------------------------------------------------------------------------
(* The client.                                                             *)

LEMMA SendKeeps ==
  ASSUME IInv, NEW c \in Clients, NEW r \in Requests, Send(c, r),
         asked' \in [Clients -> 0..MaxQuestions],
         \A d \in Clients : asked[d] <= asked'[d],
         r = "question" => asked[c] < asked'[c]
  PROVE  IInv'
<1>1. /\ c \notin Waiting /\ inbox' = Append(inbox, c) /\ inbox \in Seq(Clients)
      /\ request' = [request EXCEPT ![c] = r] /\ r # "none"
      /\ UNCHANGED <<token, reply, hand, queue, turn, cache, answered, redis, stuck, routed>>
  BY PlaceTypes DEF IInv, Send, Waiting, Requests, services
<1>2. /\ c \notin Sock \cup Loop \cup Pool \cup Serving \cup Replied
      /\ IsInjective(inbox)
  BY <1>1 DEF IInv, Control
<1>3. /\ Sock' = Sock \cup {c} /\ IsInjective(inbox') /\ inbox' \in Seq(Clients)
  BY <1>1, <1>2, AppendFacts DEF Sock
<1>4. /\ UNCHANGED <<Loop, Pool, Serving, Replied>>
  BY <1>1 DEF Loop, Pool, Serving, Replied
<1>5. request' \in [Clients -> Requests \cup {"none"}] /\ Waiting' = Waiting \cup {c}
  BY <1>1 DEF IInv, TypeOK, Waiting
<1>6. \A d \in Clients \ {c} : request'[d] = request[d]
  BY <1>1 DEF IInv, TypeOK
<1>7. TypeOK'
  BY <1>1, <1>3, <1>5 DEF IInv, TypeOK
<1>8. Control'
  <2>1. \A d \in Loop' \cup Pool' \cup Serving' : request'[d] = "question"
    BY <1>2, <1>4, <1>6, PlaceTypes DEF IInv, Control, Serving
  <2> QED BY <1>1, <1>2, <1>3, <1>4, <1>5, <2>1 DEF IInv, Control
<1>9. Numbered'
  BY <1>1, <1>6 DEF IInv, Numbered, TypeOK
<1> QED BY <1>1, <1>7, <1>8, <1>9, MemoryUntouched DEF IInv

LEMMA AsksKeep ==
  ASSUME IInv, NEW c \in Clients, SendLogin(c) \/ SendLogout(c) \/ SendQuestion(c)
  PROVE  IInv'
<1>0. /\ asked \in [Clients -> 0..MaxQuestions] /\ \A d \in Clients : asked[d] <= asked[d]
      /\ {"login", "logout", "question"} = Requests
  BY DEF IInv, TypeOK, Requests
<1>1. CASE SendLogin(c)
  BY <1>0, <1>1, SendKeeps DEF SendLogin
<1>2. CASE SendLogout(c)
  BY <1>0, <1>2, SendKeeps DEF SendLogout
<1>3. CASE SendQuestion(c)
  <2>1. PICK n \in 1..MaxQuestions : /\ \A d \in Clients : asked[d] < n
                                     /\ asked' = [asked EXCEPT ![c] = n]
    BY <1>3 DEF SendQuestion
  <2>2. /\ asked' \in [Clients -> 0..MaxQuestions] /\ asked[c] < asked'[c]
        /\ \A d \in Clients : asked[d] <= asked'[d]
    BY <2>1 DEF IInv, TypeOK
  <2> QED BY <1>3, <2>2, SendKeeps DEF SendQuestion, Requests
<1> QED BY <1>1, <1>2, <1>3

LEMMA HearKeeps ==
  ASSUME IInv, NEW c \in Clients, Hear(c)
  PROVE  IInv'
<1>1. /\ reply[c] # "none" /\ reply' = [reply EXCEPT ![c] = "none"]
      /\ request' = [request EXCEPT ![c] = "none"]
      /\ UNCHANGED <<asked, inbox, hand, queue, turn, cache, answered, redis, stuck, routed>>
      /\ token' \in [Clients -> {"none", "live", "expired", "revoked"}]
  BY DEF Hear, IInv, TypeOK, services
<1>2. c \in Replied /\ c \notin Sock \cup Loop \cup Pool \cup Serving
  BY <1>1 DEF IInv, Control, Replied
<1>3. UNCHANGED <<Sock, Loop, Pool, Serving>>
  BY <1>1 DEF Sock, Loop, Pool, Serving
<1>4. /\ Replied' = Replied \ {c} /\ Waiting' = Waiting \ {c}
      /\ \A d \in Clients \ {c} : request'[d] = request[d] /\ reply'[d] = reply[d]
      /\ request'[c] = "none"
  BY <1>1 DEF IInv, TypeOK, Replied, Waiting
<1>5. TypeOK'
  BY <1>1 DEF IInv, TypeOK
<1>6. Control'
  <2>1. \A d \in Loop' \cup Pool' \cup Serving' : request'[d] = "question"
    BY <1>2, <1>3, <1>4, PlaceTypes DEF IInv, Control, Serving
  <2> QED BY <1>1, <1>2, <1>3, <1>4, <2>1 DEF IInv, Control
<1>7. Numbered'
  BY <1>1, <1>4 DEF IInv, Numbered
<1> QED BY <1>1, <1>5, <1>6, <1>7, MemoryUntouched DEF IInv

LEMMA TokenExpiresKeeps ==
  ASSUME IInv, NEW c \in Clients, TokenExpires(c)
  PROVE  IInv'
<1>1. /\ token' \in [Clients -> {"none", "live", "expired", "revoked"}]
      /\ UNCHANGED <<request, reply, asked, inbox, hand, queue, turn, cache, answered,
                     redis, stuck, routed>>
  BY DEF TokenExpires, IInv, TypeOK, services
<1>2. TypeOK'
  BY <1>1 DEF IInv, TypeOK
<1>3. Control' /\ Numbered'
  BY <1>1 DEF IInv, Control, Numbered, Sock, Loop, Pool, Serving, Replied, Waiting
<1> QED BY <1>1, <1>2, <1>3, MemoryUntouched DEF IInv

-----------------------------------------------------------------------------
(* The receive loop.                                                       *)

LEMMA ReceivedFacts ==
  ASSUME IInv, NEW c \in Clients, Received(c)
  PROVE  /\ c \in Sock /\ Sock' = Sock \ {c} /\ Loop = {}
         /\ c \notin Loop \cup Pool \cup Serving \cup Replied
         /\ inbox' \in Seq(Clients) /\ IsInjective(inbox')
<1>1. inbox \in Seq(Clients) /\ inbox # <<>> /\ IsInjective(inbox)
  BY DEF IInv, TypeOK, Control, Received
<1>2. c \in Sock /\ Sock' = Sock \ {c} /\ inbox' \in Seq(Clients) /\ IsInjective(inbox')
  BY <1>1, TailFacts DEF Received, Sock
<1> QED BY <1>2 DEF Received, Loop, IInv, Control

\* A filter answers the request.
LEMMA FilterAnswers ==
  ASSUME IInv, NEW c \in Clients, Received(c), NEW r \in Replies, Answer(c, r),
         token' \in [Clients -> {"none", "live", "expired", "revoked"}],
         redis' \in {"up", "failing"},
         UNCHANGED <<request, asked, hand, queue, turn, cache, answered, stuck, routed>>
  PROVE  IInv'
<1>1. /\ c \in Sock /\ Sock' = Sock \ {c} /\ Loop = {}
      /\ c \notin Loop \cup Pool \cup Serving \cup Replied
      /\ inbox' \in Seq(Clients) /\ IsInjective(inbox')
  BY ReceivedFacts
<1>2. UNCHANGED <<Loop, Pool, Serving, Waiting>>
  BY DEF Loop, Pool, Serving, Waiting
<1>3. reply' = [reply EXCEPT ![c] = r] /\ r # "none"
  BY DEF Answer, Replies
<1>4. /\ reply' \in [Clients -> Replies \cup {"none"}] /\ Replied' = Replied \cup {c}
      /\ \A d \in Clients : reply'[d] = "none" => reply[d] = "none"
  BY <1>3 DEF IInv, TypeOK, Replied
<1>5. TypeOK'
  BY <1>1, <1>4 DEF IInv, TypeOK
<1>6. Control'
  BY <1>1, <1>2, <1>4 DEF IInv, Control
<1>7. Numbered'
  BY <1>4 DEF IInv, Numbered
<1> QED BY <1>5, <1>6, <1>7, MemoryUntouched DEF IInv

LEMMA FilterKeeps ==
  ASSUME IInv, NEW c \in Clients, Filter(c)
  PROVE  IInv'
<1>1. CASE LoginFilter(c)
  <2>1. PICK r \in {"welcome", "unauthorized"} : Answer(c, r)
    BY <1>1 DEF LoginFilter
  <2> QED BY <1>1, <2>1, FilterAnswers DEF LoginFilter, Replies, IInv, TypeOK, services
<1>2. CASE JwtAuthFilter(c)
  BY <1>2, FilterAnswers DEF JwtAuthFilter, Replies, IInv, TypeOK, services
<1>3. CASE LogoutFilter(c)
  <2>1. /\ token' \in [Clients -> {"none", "live", "expired", "revoked"}]
        /\ redis' \in {"up", "failing"}
    BY <1>3 DEF LogoutFilter, IInv, TypeOK
  <2>2. PICK r \in {"goodbye", "redis error"} : Answer(c, r)
    BY <1>3 DEF LogoutFilter
  <2> QED BY <1>3, <2>1, <2>2, FilterAnswers DEF LogoutFilter, Replies
<1>4. CASE PassQuestion(c)
  <2>1. /\ c \in Sock /\ Sock' = Sock \ {c} /\ Loop = {}
        /\ c \notin Loop \cup Pool \cup Serving \cup Replied
        /\ inbox' \in Seq(Clients) /\ IsInjective(inbox')
    BY <1>4, ReceivedFacts DEF PassQuestion
  <2>2. /\ hand' = c /\ request[c] = "question" /\ c # Nobody
        /\ UNCHANGED <<token, request, reply, asked, queue, turn, cache, answered,
                       redis, stuck, routed>>
    BY <1>4 DEF PassQuestion, client, services
  <2>3. Loop' = {c} /\ UNCHANGED <<Pool, Serving, Replied, Waiting>>
    BY <2>2 DEF Loop, Pool, Serving, Replied, Waiting
  <2>4. TypeOK'
    BY <2>1, <2>2 DEF IInv, TypeOK
  <2>5. Control'
    BY <2>1, <2>2, <2>3 DEF IInv, Control
  <2>6. Numbered'
    BY <2>2 DEF IInv, Numbered
  <2> QED BY <2>2, <2>4, <2>5, <2>6, MemoryUntouched DEF IInv
<1> QED BY <1>1, <1>2, <1>3, <1>4 DEF Filter

\* A step of the services alone.
LEMMA ServicesKeep ==
  ASSUME IInv, FilterHangs \/ RedisChanges
  PROVE  IInv'
<1>1. /\ UNCHANGED <<token, request, reply, asked, inbox, hand, queue, turn, cache, answered>>
      /\ redis' \in {"up", "failing"} /\ stuck' \in BOOLEAN /\ routed' = routed
  BY DEF FilterHangs, RedisChanges, client, IInv, TypeOK
<1>2. TypeOK' /\ Numbered'
  BY <1>1 DEF IInv, TypeOK, Numbered
<1>3. Control'
  BY <1>1 DEF IInv, Control, Sock, Loop, Pool, Serving, Replied, Waiting
<1> QED BY <1>1, <1>2, <1>3, MemoryUntouched DEF IInv

LEMMA DispatchKeeps ==
  ASSUME IInv, Dispatch
  PROVE  IInv'
<1>1. /\ hand \in Clients /\ Loop = {hand} /\ hand' = Nobody
      /\ queue' = Append(queue, hand) /\ queue \in Seq(Clients)
      /\ UNCHANGED <<token, request, reply, asked, inbox, turn, cache, answered,
                     redis, stuck, routed>>
  BY PlaceTypes DEF Dispatch, client, services, IInv
<1>2. hand \notin Pool /\ IsInjective(queue)
  BY <1>1 DEF IInv, Control
<1>3. Pool' = Pool \cup {hand} /\ IsInjective(queue') /\ queue' \in Seq(Clients)
  BY <1>1, <1>2, AppendFacts DEF Pool
<1>4. Loop' = {} /\ UNCHANGED <<Sock, Serving, Replied, Waiting>>
  BY <1>1 DEF Loop, Sock, Serving, Replied, Waiting
<1>5. TypeOK'
  BY <1>1, <1>3 DEF IInv, TypeOK
<1>6. Control'
  BY <1>1, <1>3, <1>4 DEF IInv, Control
<1>7. Numbered'
  BY <1>1 DEF IInv, Numbered
<1> QED BY <1>1, <1>5, <1>6, <1>7, MemoryUntouched DEF IInv

-----------------------------------------------------------------------------
(* One more exchange.                                                      *)

\* A system prompt and whole exchanges in order, however many.
Whole(messages) ==
  /\ Len(messages) % 2 = 1 /\ messages[1] = System
  /\ \A i \in DOMAIN messages :
       i > 1 => LET n == messages[i].of
                IN IF i % 2 = 0
                   THEN messages[i] = User(n) /\ (i = 2 \/ n > messages[i - 1].of)
                   ELSE messages[i] = Assistant(messages[i - 1].of)

LEMMA MessageFacts ==
  /\ \A m \in Messages : m.of \in Nat
  /\ System \in Messages /\ System.of = 0
  /\ \A n \in 1..MaxQuestions : User(n) \in Messages /\ Assistant(n) \in Messages
  /\ \A n \in Nat : User(n).of = n /\ Assistant(n).of = n
<1>1. \A n \in Nat : User(n).of = n /\ Assistant(n).of = n
  BY DEF User, Assistant
<1>2. System.of = 0
  BY DEF System
<1>3. /\ \A m \in Messages : m = System \/ \E n \in 1..MaxQuestions : m = User(n) \/ m = Assistant(n)
      /\ System \in Messages
      /\ \A n \in 1..MaxQuestions : User(n) \in Messages /\ Assistant(n) \in Messages
  BY DEF Messages
<1>4. ASSUME NEW m \in Messages PROVE m.of \in Nat
  BY <1>1, <1>2, <1>3
<1> QED BY <1>1, <1>2, <1>3, <1>4

Longer(messages, n) == messages \o <<User(n), Assistant(n)>>
Cut(messages) == <<Head(messages)>> \o SubSeq(messages, 4, Len(messages))

LEMMA LongerFacts ==
  ASSUME NEW m \in Seq(Messages), NEW n \in 1..MaxQuestions
  PROVE  LET more == Longer(m, n)
         IN /\ more \in Seq(Messages) /\ Len(more) = Len(m) + 2 /\ Len(m) \in Nat
            /\ DOMAIN more = 1..(Len(m) + 2) /\ DOMAIN m = 1..Len(m)
            /\ \A i \in 1..Len(m) : more[i] = m[i]
            /\ more[Len(m) + 1] = User(n) /\ more[Len(m) + 2] = Assistant(n)
<1>1. <<User(n), Assistant(n)>> \in Seq(Messages)
  BY MessageFacts
<1>2. PICK x \in Messages : x = User(n)
  BY MessageFacts
<1>3. PICK y \in Messages : y = Assistant(n)
  BY MessageFacts
<1> DEFINE more == m \o <<x, y>>
<1>4. /\ more \in Seq(Messages) /\ Len(more) = Len(m) + 2 /\ Len(m) \in Nat
      /\ DOMAIN more = 1..(Len(m) + 2) /\ DOMAIN m = 1..Len(m)
      /\ \A i \in 1..Len(m) : more[i] = m[i]
      /\ more[Len(m) + 1] = x /\ more[Len(m) + 2] = y
  OBVIOUS
<1>5. more = Longer(m, n)
  BY <1>2, <1>3 DEF Longer
<1> HIDE DEF more
<1>6. /\ \A i \in 1..Len(m) : more[i] = m[i]
      /\ more[Len(m) + 1] = User(n) /\ more[Len(m) + 2] = Assistant(n)
  BY <1>2, <1>3, <1>4
<1> QED BY <1>4, <1>5, <1>6

LEMMA ConsFacts ==
  ASSUME NEW S, NEW h \in S, NEW t \in Seq(S), NEW c, c = <<h>> \o t
  PROVE  /\ c \in Seq(S) /\ Len(c) = Len(t) + 1 /\ DOMAIN c = 1..(Len(t) + 1)
         /\ c[1] = h /\ \A i \in 1..Len(t) : c[i + 1] = t[i]
OBVIOUS

LEMMA CutFacts ==
  ASSUME NEW m \in Seq(Messages), Len(m) > 3
  PROVE  /\ Cut(m) \in Seq(Messages) /\ Len(Cut(m)) = Len(m) - 2 /\ Len(m) \in Nat
         /\ DOMAIN Cut(m) = 1..(Len(m) - 2) /\ Cut(m)[1] = m[1]
         /\ \A i \in 2..(Len(m) - 2) : Cut(m)[i] = m[i + 2]
<1> DEFINE t == SubSeq(m, 4, Len(m))
           h == Head(m)
<1>1. Len(m) \in Nat /\ DOMAIN m = 1..Len(m) /\ h = m[1] /\ h \in Messages
  OBVIOUS
<1>2. /\ t \in Seq(Messages) /\ Len(t) = Len(m) - 3
      /\ \A i \in 1..(Len(m) - 3) : t[i] = m[i + 3]
  BY <1>1
<1> HIDE DEF t, h
<1> DEFINE c == <<h>> \o t
<1>b. h \in Messages /\ t \in Seq(Messages) /\ c = <<h>> \o t
  BY <1>1, <1>2
<1>a. /\ c \in Seq(Messages) /\ Len(c) = Len(t) + 1 /\ DOMAIN c = 1..(Len(t) + 1)
      /\ c[1] = h /\ \A i \in 1..Len(t) : c[i + 1] = t[i]
  <2> HIDE DEF c
  <2> QED BY <1>b, ConsFacts
<1>3. /\ c \in Seq(Messages) /\ Len(c) = Len(m) - 2 /\ DOMAIN c = 1..(Len(m) - 2)
      /\ c[1] = h /\ \A i \in 2..(Len(m) - 2) : c[i] = t[i - 1]
  <2> HIDE DEF c
  <2>1. \A i \in 2..(Len(m) - 2) : i - 1 \in 1..Len(t) /\ (i - 1) + 1 = i
    BY <1>1, <1>2
  <2> QED BY <1>1, <1>2, <1>a, <2>1
<1>4. ASSUME NEW i \in 2..(Len(m) - 2) PROVE c[i] = m[i + 2]
  <2>1. i - 1 \in 1..(Len(m) - 3) /\ (i - 1) + 3 = i + 2
    BY <1>1
  <2> QED BY <1>2, <1>3, <2>1
<1>5. Cut(m) = c
  BY DEF Cut, t, h
<1> HIDE DEF c
<1> QED BY <1>1, <1>3, <1>4, <1>5

LEMMA LongerWhole ==
  ASSUME NEW m \in Seq(Messages), NEW n \in 1..MaxQuestions, Whole(m),
         m[Len(m)].of < n
  PROVE  Whole(Longer(m, n))
<1> DEFINE more == Longer(m, n)
<1>1. /\ more \in Seq(Messages) /\ Len(more) = Len(m) + 2 /\ Len(m) \in Nat
      /\ DOMAIN more = 1..(Len(m) + 2) /\ DOMAIN m = 1..Len(m)
      /\ \A i \in 1..Len(m) : more[i] = m[i]
      /\ more[Len(m) + 1] = User(n) /\ more[Len(m) + 2] = Assistant(n)
  BY LongerFacts
<1> HIDE DEF more
<1>2. Len(m) % 2 = 1 /\ Len(m) >= 1 /\ m[1] = System /\ more[1] = System
  BY <1>1 DEF Whole
<1>3. ASSUME NEW i \in 1..(Len(m) + 2), i > 1
      PROVE  IF i % 2 = 0
             THEN more[i] = User(more[i].of) /\ (i = 2 \/ more[i].of > more[i - 1].of)
             ELSE more[i] = Assistant(more[i - 1].of)
  <2>1. CASE i \in 1..Len(m)
    <3>1. more[i] = m[i] /\ more[i - 1] = m[i - 1]
      BY <1>1, <1>3, <2>1
    <3> QED BY <1>1, <1>3, <2>1, <3>1 DEF Whole
  <2>2. CASE i = Len(m) + 1
    <3>1. i % 2 = 0 /\ i - 1 = Len(m) /\ more[i - 1] = m[Len(m)] /\ more[i] = User(n)
      BY <1>1, <1>2, <2>2
    <3> QED BY <3>1, MessageFacts
  <2>3. CASE i = Len(m) + 2
    <3>1. i % 2 = 1 /\ more[i - 1] = User(n) /\ more[i] = Assistant(n)
      BY <1>1, <1>2, <2>3
    <3> QED BY <3>1, MessageFacts
  <2> QED BY <1>1, <2>1, <2>2, <2>3
<1>4. Len(more) % 2 = 1
  BY <1>1, <1>2
<1>5. Whole(more)
  BY <1>1, <1>2, <1>3, <1>4 DEF Whole
<1> QED BY <1>5 DEF more

LEMMA CutWhole ==
  ASSUME NEW m \in Seq(Messages), Len(m) > 3, Whole(m)
  PROVE  Whole(Cut(m)) /\ Cut(m)[Len(Cut(m))] = m[Len(m)]
<1> DEFINE c == Cut(m)
<1>1. /\ c \in Seq(Messages) /\ Len(c) = Len(m) - 2 /\ Len(m) \in Nat
      /\ DOMAIN c = 1..(Len(m) - 2) /\ c[1] = m[1] /\ DOMAIN m = 1..Len(m)
      /\ \A i \in 2..(Len(m) - 2) : c[i] = m[i + 2]
  BY CutFacts
<1> HIDE DEF c
<1>2. ASSUME NEW i \in 1..(Len(m) - 2), i > 1
      PROVE  IF i % 2 = 0
             THEN c[i] = User(c[i].of) /\ (i = 2 \/ c[i].of > c[i - 1].of)
             ELSE c[i] = Assistant(c[i - 1].of)
  <2>1. c[i] = m[i + 2] /\ (i # 2 => c[i - 1] = m[i + 1])
    BY <1>1, <1>2
  <2>2. /\ i + 2 \in DOMAIN m /\ i + 2 > 1 /\ i + 2 # 2 /\ (i + 2) - 1 = i + 1
        /\ (i + 2) % 2 = i % 2 /\ (i = 2 => i % 2 = 0)
    BY <1>1
  <2>3. IF (i + 2) % 2 = 0
        THEN m[i + 2] = User(m[i + 2].of) /\ m[i + 2].of > m[i + 1].of
        ELSE m[i + 2] = Assistant(m[i + 1].of)
    BY <2>2 DEF Whole
  <2> QED BY <2>1, <2>2, <2>3
<1>3. Len(c) % 2 = 1 /\ c[1] = System
  BY <1>1 DEF Whole
<1>4. Whole(c)
  BY <1>1, <1>2, <1>3 DEF Whole
<1>5. c[Len(c)] = m[Len(m)]
  BY <1>1
<1> QED BY <1>4, <1>5 DEF c

LEMMA SystemWhole == Whole(<<System>>) /\ <<System>> \in Seq(Messages)
<1>1. Len(<<System>>) = 1 /\ DOMAIN <<System>> = 1..1 /\ <<System>>[1] = System
  OBVIOUS
<1>2. 1 % 2 = 1
  OBVIOUS
<1> QED BY <1>1, <1>2, MessageFacts DEF Whole

LEMMA RememberFacts ==
  ASSUME NEW m \in Seq(Messages), NEW k \in Nat, NEW n \in 1..MaxQuestions, k < n,
         m = <<System>> \/ Memory(m, k)
  PROVE  Remember(m, n) \in Seq(Messages) /\ Memory(Remember(m, n), n)
<1>1. /\ Whole(m) /\ Len(m) \in 1..(MaxMessages - 1) /\ m[Len(m)].of < n
  <2>1. CASE m = <<System>>
    <3>1. Len(m) = 1 /\ m[1] = System
      BY <2>1
    <3> QED BY <2>1, <3>1, SystemWhole, MessageFacts
  <2>2. CASE Memory(m, k)
    <3>1. Whole(m) /\ Len(m) \in 1..(MaxMessages - 1) /\ m[Len(m)].of <= k
      BY <2>2 DEF Memory, WellFormed, Whole
    <3>2. m[Len(m)] \in Messages
      BY <3>1
    <3>3. m[Len(m)].of \in Nat
      BY <3>2, MessageFacts
    <3> QED BY <3>1, <3>3
  <2> QED BY <2>1, <2>2
<1> DEFINE more == Longer(m, n)
           cut == Cut(more)
<1>2. /\ more \in Seq(Messages) /\ Len(more) = Len(m) + 2
      /\ more[Len(more)] = Assistant(n) /\ Whole(more)
  BY <1>1, LongerFacts, LongerWhole
<1>3. more[Len(more)].of = n
  BY <1>2, MessageFacts
<1> HIDE DEF more
<1>4. Remember(m, n) = IF Len(more) > MaxMessages THEN cut ELSE more
  BY DEF more, Remember, Longer, Cut
<1>5. Len(more) % 2 = 1 /\ Len(more) \in Nat
  BY <1>1, <1>2 DEF Whole
<1>6. CASE Len(more) > MaxMessages
  <2>1. Len(more) = MaxMessages + 1 /\ Len(more) > 3
    BY <1>1, <1>2, <1>6
  <2>2. /\ cut \in Seq(Messages) /\ Len(cut) = MaxMessages - 1
        /\ Whole(cut) /\ cut[Len(cut)].of = n
    BY <1>2, <1>3, <2>1, CutFacts, CutWhole
  <2> HIDE DEF cut
  <2>3. Len(cut) \in 3..(MaxMessages - 1)
    BY <2>2
  <2>4. Memory(cut, n)
    BY <2>2, <2>3 DEF Memory, WellFormed, Whole
  <2> QED BY <1>4, <1>6, <2>2, <2>4
<1>7. CASE ~(Len(more) > MaxMessages)
  <2>1. Len(more) \in 3..(MaxMessages - 1)
    BY <1>1, <1>2, <1>5, <1>7
  <2>2. Memory(more, n)
    BY <1>2, <1>3, <2>1 DEF Memory, WellFormed, Whole
  <2> QED BY <1>2, <1>4, <1>7, <2>2
<1> QED BY <1>6, <1>7

-----------------------------------------------------------------------------
(* The turn.                                                               *)

\* A step within a turn moves no request.
LEMMA WithinTurn ==
  ASSUME IInv, turn # Idle, turn' # Idle, turn'.client = turn.client,
         UNCHANGED <<request, reply, asked, inbox, hand, queue, answered>>
  PROVE  Control' /\ Numbered'
<1>1. UNCHANGED <<Sock, Loop, Pool, Serving, Replied, Waiting>>
  BY DEF Sock, Loop, Pool, Serving, Replied, Waiting
<1>2. Control'
  BY <1>1 DEF IInv, Control
<1>3. Numbered'
  BY DEF IInv, Numbered
<1> QED BY <1>2, <1>3

\* The end of a turn moves its client's request to the answered ones.
LEMMA TurnEnds ==
  ASSUME IInv, turn # Idle, NEW r \in Replies, EndTurn(r),
         UNCHANGED <<request, inbox, hand, queue>>
  PROVE  /\ Control' /\ reply' \in [Clients -> Replies \cup {"none"}]
         /\ \A d \in Clients : reply'[d] = "none" => reply[d] = "none" /\ d # turn.client
<1> DEFINE c == turn.client
<1>1. /\ c \in Clients /\ Serving = {c} /\ r # "none"
      /\ reply' = [reply EXCEPT ![c] = r] /\ turn' = Idle
      /\ reply \in [Clients -> Replies \cup {"none"}]
  BY PlaceTypes DEF IInv, TypeOK, EndTurn, Answer, Replies
<1> HIDE DEF c
<1>2. /\ reply' \in [Clients -> Replies \cup {"none"}] /\ Replied' = Replied \cup {c}
      /\ \A d \in Clients : reply'[d] = "none" => reply[d] = "none" /\ d # c
  BY <1>1 DEF Replied
<1>3. Serving' = {} /\ UNCHANGED <<Sock, Loop, Pool, Waiting>>
  BY <1>1 DEF Sock, Loop, Pool, Serving, Waiting
<1>4. Control'
  BY <1>1, <1>2, <1>3 DEF IInv, Control
<1> QED BY <1>2, <1>4 DEF c

\* A turn that ends without an answer of the model.
LEMMA TurnFails ==
  ASSUME IInv, turn # Idle, EndTurn("failure"), routed' \in BOOLEAN,
         UNCHANGED <<token, request, asked, inbox, hand, queue, cache, answered, redis, stuck>>
  PROVE  IInv'
<1>1. /\ Control' /\ reply' \in [Clients -> Replies \cup {"none"}]
      /\ \A d \in Clients : reply'[d] = "none" => reply[d] = "none"
  BY TurnEnds DEF Replies
<1>2. turn' = Idle
  BY DEF EndTurn
<1>3. TypeOK'
  BY <1>1, <1>2 DEF IInv, TypeOK
<1>4. Numbered'
  BY <1>1 DEF IInv, Numbered
<1> QED BY <1>1, <1>2, <1>3, <1>4, MemoryUntouched DEF IInv

LEMMA BeginTurnKeeps ==
  ASSUME IInv, BeginTurn
  PROVE  IInv'
<1> DEFINE c == Head(queue)
<1>1. /\ turn = Idle /\ queue # <<>> /\ queue' = Tail(queue) /\ queue \in Seq(Clients)
      /\ turn' = [phase |-> "begun", client |-> c, messages |-> Null,
                  calls |-> 0, retries |-> 0]
      /\ UNCHANGED <<token, request, reply, asked, inbox, hand, cache, answered,
                     redis, stuck, routed>>
      /\ IsInjective(queue)
  BY DEF BeginTurn, client, services, IInv, TypeOK, Control
<1>2. /\ c \in Pool /\ Pool' = Pool \ {c} /\ queue' \in Seq(Clients) /\ IsInjective(queue')
  BY <1>1, TailFacts DEF Pool
<1>3. c \in Clients
  BY <1>2, PlaceTypes DEF IInv
<1> HIDE DEF c
<1>4. /\ turn' \in Turns /\ turn'.client = c /\ turn' # Idle /\ turn'.phase = "begun"
      /\ turn'.calls = 0
  <2>1. Null \in Seq(Messages)
    BY DEF Null
  <2>2. turn'.phase = "begun"
    BY <1>1
  <2>3. turn' # Idle
    BY <2>2 DEF Idle
  <2> QED BY <1>1, <1>3, <2>1, <2>2, <2>3 DEF Turns
<1>5. Serving = {} /\ Serving' = {c} /\ UNCHANGED <<Sock, Loop, Replied, Waiting>>
  BY <1>1, <1>3, <1>4 DEF Sock, Loop, Replied, Waiting, Serving
<1>6. TypeOK'
  BY <1>1, <1>2, <1>4 DEF IInv, TypeOK
<1>7. Control'
  BY <1>1, <1>2, <1>5 DEF IInv, Control
<1>8. Numbered'
  BY <1>1 DEF IInv, Numbered
<1>9. Remembering'
  BY <1>1, <1>4 DEF IInv, Remembering
<1> QED BY <1>6, <1>7, <1>8, <1>9 DEF IInv

\* What the turn's client would be given has the type of a memory.
LEMMA RecallTypes ==
  ASSUME IInv, NEW c \in Clients
  PROVE  Recall(c) \in Seq(Messages) /\ (Recall(c) = <<System>> \/ Memory(Recall(c), answered[c]))
<1>1. \A i \in DOMAIN cache : cache[i].value \in Seq(Messages)
  <2>1. cache \in Seq([key : Clients, value : Seq(Messages)])
    BY DEF IInv, TypeOK
  <2>2. \A i \in DOMAIN cache : cache[i] \in [key : Clients, value : Seq(Messages)]
    BY <2>1, ElementOf
  <2> QED BY <2>2
<1>2. CASE c \in Keys(cache)
  <2>1. Place(cache, c) \in DOMAIN cache /\ Recall(c) = cache[Place(cache, c)].value
    BY <1>2, PlaceFacts DEF Recall
  <2> QED BY <1>1, <1>2, <2>1 DEF Recall, IInv, Remembering
<1>3. CASE c \notin Keys(cache)
  BY <1>3, SystemWhole DEF Recall
<1> QED BY <1>2, <1>3

LEMMA PrepareKeeps ==
  ASSUME IInv, Prepare
  PROVE  IInv'
<1>1. turn # Idle /\ turn \in Turns /\ turn.client \in Clients /\ turn.phase = "begun"
  BY PlaceTypes DEF IInv, Prepare, Idle
<1>2. PICK c \in Clients : c = turn.client
  BY <1>1
<1> DEFINE found == IF Find(cache, c) = Null THEN <<System>> ELSE Find(cache, c)
<1>3. /\ cache' = Touch(cache, c)
      /\ UNCHANGED <<token, request, reply, asked, inbox, hand, queue, answered,
                     redis, stuck, routed>>
      /\ turn' = [turn EXCEPT !.phase = "model", !.messages = found]
  BY <1>2 DEF Prepare, client, services
<1>4. found = Recall(c)
  <2>1. CASE c \in Keys(cache)
    <3>1. Len(Find(cache, c)) \in 3..(MaxMessages - 1)
      BY <2>1 DEF IInv, Remembering, Memory, WellFormed
    <3>2. Find(cache, c) # Null
      BY <3>1 DEF Null
    <3> QED BY <2>1, <3>2 DEF Recall
  <2>2. CASE c \notin Keys(cache)
    BY <2>2 DEF Recall, Find
  <2> QED BY <2>1, <2>2
<1>5. Recall(c) \in Seq(Messages)
  BY RecallTypes
<1> HIDE DEF found
<1>6. /\ turn' \in Turns /\ turn'.client = c /\ turn'.phase = "model"
      /\ turn'.messages = Recall(c) /\ turn'.calls = turn.calls
  BY <1>1, <1>2, <1>3, <1>4, <1>5 DEF Turns
<1>7. turn' # Idle
  BY <1>6 DEF Idle
<1>8. /\ cache' \in Seq(Entries(Clients, Seq(Messages))) /\ Len(cache') = Len(cache)
      /\ KeysDiffer(cache') /\ Keys(cache') = Keys(cache)
      /\ \A d \in Keys(cache) : Find(cache', d) = Find(cache, d)
  <2>1. cache \in Seq(Entries(Clients, Seq(Messages))) /\ KeysDiffer(cache)
    BY DEF IInv, TypeOK, Remembering, Entries
  <2> QED BY <1>3, <2>1, TouchFacts
<1>9. (IF c \in Keys(cache') THEN Find(cache', c) ELSE <<System>>) = Recall(c)
  BY <1>8 DEF Recall
<1>10. TypeOK'
  BY <1>3, <1>6, <1>8 DEF IInv, TypeOK, Entries
<1>11. Control' /\ Numbered'
  BY <1>1, <1>2, <1>3, <1>6, <1>7, WithinTurn
<1>12. Remembering'
  <2>1. \A d \in Keys(cache') : Memory(Find(cache', d), answered'[d])
    BY <1>3, <1>8 DEF IInv, Remembering
  <2>2. turn'.messages = (IF turn'.client \in Keys(cache') THEN Find(cache', turn'.client)
                          ELSE <<System>>)
    BY <1>6, <1>9
  <2>3. turn'.calls < MaxToolCalls
    BY <1>1, <1>6 DEF IInv, Remembering
  <2> QED BY <1>8, <2>1, <2>2, <2>3 DEF Remembering, Recall
<1> QED BY <1>10, <1>11, <1>12 DEF IInv

\* The answer of a question that had none yet: what the memory becomes.
LEMMA AnswerFacts ==
  ASSUME IInv, ModelAnswers, NEW c, c = turn.client, NEW n, n = asked[c],
         NEW more, more = Remember(turn.messages, n)
  PROVE  /\ turn # Idle /\ c \in Clients
         /\ cache' = Put(cache, c, more) /\ answered' = [answered EXCEPT ![c] = n]
         /\ answered[c] \in Nat /\ n \in 1..MaxQuestions /\ answered[c] < n
         /\ turn.messages = Recall(c) /\ more \in Seq(Messages) /\ Memory(more, n)
         /\ cache' \in Seq(Entries(Clients, Seq(Messages))) /\ Len(cache') <= Capacity
         /\ KeysDiffer(cache') /\ Find(cache', c) = more
         /\ Keys(cache') = IF c \in Keys(cache) \/ Len(cache) < Capacity
                           THEN Keys(cache) \cup {c}
                           ELSE (Keys(cache) \ {Last(cache).key}) \cup {c}
         /\ c \notin Keys(cache) /\ Len(cache) >= Capacity => Last(cache).key \in Keys(cache)
         /\ \A d \in Keys(cache') \ {c} : d \in Keys(cache) /\ Find(cache', d) = Find(cache, d)
<1>1. turn # Idle /\ turn.phase = "model" /\ c \in Clients
  BY PlaceTypes DEF IInv, ModelAnswers, Idle
<1>2. cache' = Put(cache, c, more) /\ answered' = [answered EXCEPT ![c] = n]
  BY DEF ModelAnswers
<1>3. answered[c] \in Nat /\ n \in 1..MaxQuestions /\ answered[c] < n
  <2>1. c \in Serving /\ c \notin Replied /\ request[c] = "question"
    BY <1>1 DEF Serving, IInv, Control
  <2>2. answered[c] \in 0..MaxQuestions /\ n \in 0..MaxQuestions
    BY <1>1 DEF IInv, TypeOK
  <2> QED BY <1>1, <2>1, <2>2 DEF IInv, Numbered, Replied
<1>4. /\ turn.messages = Recall(c) /\ turn.messages \in Seq(Messages)
      /\ turn.messages = <<System>> \/ Memory(turn.messages, answered[c])
  BY <1>1, RecallTypes DEF IInv, Remembering
<1>5. more \in Seq(Messages) /\ Memory(more, n)
  BY <1>3, <1>4, RememberFacts
<1>6. /\ cache \in Seq(Entries(Clients, Seq(Messages)))
      /\ Len(cache) <= Capacity /\ KeysDiffer(cache)
  BY DEF IInv, TypeOK, Remembering, Entries
<1> DEFINE t == Put(cache, c, more)
<1>7. /\ t \in Seq(Entries(Clients, Seq(Messages))) /\ Len(t) <= Capacity
      /\ KeysDiffer(t) /\ Find(t, c) = more
      /\ Keys(t) = IF c \in Keys(cache) \/ Len(cache) < Capacity
                        THEN Keys(cache) \cup {c}
                        ELSE (Keys(cache) \ {Last(cache).key}) \cup {c}
      /\ c \notin Keys(cache) /\ Len(cache) >= Capacity => Last(cache).key \in Keys(cache)
      /\ \A d \in Keys(t) \ {c} : d \in Keys(cache) /\ Find(t, d) = Find(cache, d)
  <2>1. /\ t \in Seq(Entries(Clients, Seq(Messages))) /\ Len(t) <= Capacity
        /\ KeysDiffer(t) /\ Find(t, c) = more
    BY <1>1, <1>5, <1>6, PutFacts
  <2>2. /\ c \notin Keys(cache) /\ Len(cache) >= Capacity => Last(cache).key \in Keys(cache)
        /\ \A d \in Keys(t) \ {c} : d \in Keys(cache) /\ Find(t, d) = Find(cache, d)
    BY <1>1, <1>5, <1>6, PutFacts
  <2>3. Keys(t) = IF c \in Keys(cache) \/ Len(cache) < Capacity
                  THEN Keys(cache) \cup {c}
                  ELSE (Keys(cache) \ {Last(cache).key}) \cup {c}
    <3>1. CASE c \in Keys(cache) \/ Len(cache) < Capacity
      <4>1. Keys(t) = Keys(cache) \cup {c}
        BY <1>1, <1>5, <1>6, <3>1, PutFacts
      <4> QED BY <3>1, <4>1
    <3>2. CASE ~(c \in Keys(cache) \/ Len(cache) < Capacity)
      <4>1. Keys(t) = (Keys(cache) \ {Last(cache).key}) \cup {c}
        BY <1>1, <1>5, <1>6, <3>2, PutFacts
      <4> QED BY <3>2, <4>1
    <3> QED BY <3>1, <3>2
  <2> HIDE DEF t
  <2> QED BY <2>1, <2>2, <2>3
<1> HIDE DEF t
<1>8. cache' = t
  BY <1>2 DEF t
<1> QED BY <1>1, <1>2, <1>3, <1>4, <1>5, <1>7, <1>8

LEMMA KeysAreClients ==
  ASSUME IInv
  PROVE  Keys(cache) \subseteq Clients
<1>1. \A i \in DOMAIN cache : cache[i] \in [key : Clients, value : Seq(Messages)]
  BY ElementOf DEF IInv, TypeOK
<1>2. \A i \in DOMAIN cache : cache[i].key \in Clients
  BY <1>1
<1> QED BY <1>2 DEF Keys

LEMMA ModelAnswersKeeps ==
  ASSUME IInv, ModelAnswers
  PROVE  IInv'
<1>1. PICK c : c = turn.client
  OBVIOUS
<1>2. PICK n : n = asked[c]
  OBVIOUS
<1>3. PICK more : more = Remember(turn.messages, n)
  OBVIOUS
<1>4. /\ turn # Idle /\ c \in Clients /\ answered' = [answered EXCEPT ![c] = n]
      /\ n \in 1..MaxQuestions /\ answered[c] < n /\ Memory(more, n)
      /\ cache' \in Seq(Entries(Clients, Seq(Messages))) /\ Len(cache') <= Capacity
      /\ KeysDiffer(cache') /\ Find(cache', c) = more
      /\ \A d \in Keys(cache') \ {c} : d \in Keys(cache) /\ Find(cache', d) = Find(cache, d)
  BY <1>1, <1>2, <1>3, AnswerFacts
<1>5. /\ turn' = Idle /\ EndTurn("answer")
      /\ UNCHANGED <<token, request, asked, inbox, hand, queue, redis, stuck, routed>>
  BY DEF ModelAnswers, EndTurn, services
<1>6. /\ Control' /\ reply' \in [Clients -> Replies \cup {"none"}]
      /\ \A d \in Clients : reply'[d] = "none" => reply[d] = "none" /\ d # c
  BY <1>1, <1>4, <1>5, TurnEnds DEF Replies
<1>7. /\ answered' \in [Clients -> 0..MaxQuestions] /\ answered'[c] = n
      /\ \A d \in Clients \ {c} : answered'[d] = answered[d]
  BY <1>4 DEF IInv, TypeOK
<1>8. TypeOK'
  BY <1>4, <1>5, <1>6, <1>7 DEF IInv, TypeOK, Entries
<1>9. Numbered'
  <2> SUFFICES ASSUME NEW d \in Clients
               PROVE  /\ answered'[d] <= asked'[d]
                      /\ request'[d] = "question" /\ reply'[d] = "none"
                           => answered'[d] < asked'[d]
    BY DEF Numbered
  <2>1. CASE d = c
    BY <1>2, <1>4, <1>5, <1>7, <2>1, <1>6
  <2>2. CASE d # c
    BY <1>5, <1>6, <1>7, <2>2 DEF IInv, Numbered
  <2> QED BY <2>1, <2>2
<1>10. Remembering'
  <2>1. \A d \in Keys(cache') : Memory(Find(cache', d), answered'[d])
    <3> SUFFICES ASSUME NEW d \in Keys(cache') PROVE Memory(Find(cache', d), answered'[d])
      OBVIOUS
    <3>1. CASE d = c
      BY <1>4, <1>7, <3>1
    <3>2. CASE d # c
      <4>1. d \in Keys(cache) /\ Find(cache', d) = Find(cache, d)
        BY <1>4, <3>2
      <4>2. d \in Clients
        BY <4>1, KeysAreClients
      <4> QED BY <1>7, <3>2, <4>1, <4>2 DEF IInv, Remembering
    <3> QED BY <3>1, <3>2
  <2> QED BY <1>4, <1>5, <2>1 DEF Remembering
<1> QED BY <1>6, <1>8, <1>9, <1>10 DEF IInv

\* A step of the turn from the model to a tool or back, or into a wait without end.
LEMMA TurnGoesOn ==
  ASSUME IInv, turn # Idle, turn.phase # "begun",
         turn' \in Turns, turn'.client = turn.client, turn'.messages = turn.messages,
         turn'.phase \in {"tool", "model", "hung"},
         turn'.phase = "model" => turn'.calls < MaxToolCalls, routed' \in BOOLEAN,
         UNCHANGED <<token, request, reply, asked, inbox, hand, queue, cache, answered,
                     redis, stuck>>
  PROVE  IInv'
<1>1. turn' # Idle
  BY DEF Idle
<1>2. Control' /\ Numbered'
  BY <1>1, WithinTurn
<1>3. TypeOK'
  BY DEF IInv, TypeOK
<1>4. Remembering'
  BY <1>1 DEF IInv, Remembering, Recall
<1> QED BY <1>2, <1>3, <1>4 DEF IInv

LEMMA TurnKeeps ==
  ASSUME IInv, Turn
  PROVE  IInv'
<1>1. /\ turn # Idle => turn \in Turns
      /\ routed \in BOOLEAN
  BY PlaceTypes DEF IInv, TypeOK
<1>2. CASE BeginTurn
  BY <1>2, BeginTurnKeeps
<1>3. CASE Prepare
  BY <1>3, PrepareKeeps
<1>4. CASE Throw
  BY <1>1, <1>4, TurnFails DEF Throw, services
<1>5. CASE ModelFails
  BY <1>1, <1>5, TurnFails DEF ModelFails, Idle, services
<1>6. CASE ModelAnswers
  BY <1>6, ModelAnswersKeeps
<1>7. CASE ModelCalls
  <2>1. /\ turn.phase = "model" /\ turn' = [turn EXCEPT !.phase = "tool", !.calls = @ + 1]
    BY <1>7 DEF ModelCalls
  <2>2. turn # Idle /\ turn \in Turns
    BY <1>1, <2>1 DEF Idle
  <2>3. turn.calls \in 0..MaxToolCalls /\ turn.calls < MaxToolCalls
    BY <2>1, <2>2 DEF Turns, IInv, Remembering
  <2>4. PICK k \in 0..MaxToolCalls : k = turn.calls + 1
    BY <2>3
  <2>5. turn' = [turn EXCEPT !.phase = "tool", !.calls = k]
    BY <2>1, <2>4
  <2>6. /\ turn' \in Turns /\ turn'.client = turn.client /\ turn'.messages = turn.messages
        /\ turn'.phase = "tool" /\ turn'.calls = k
    BY <2>2, <2>5 DEF Turns
  <2>7. /\ turn.phase = "model"
        /\ UNCHANGED <<token, request, reply, asked, inbox, hand, queue, cache, answered,
                       redis, stuck, routed>>
    BY <1>7 DEF ModelCalls, client, services
  <2> QED BY <1>1, <2>2, <2>6, <2>7, TurnGoesOn
<1>8. CASE CallTool
  <2>1. PICK failed \in BOOLEAN :
          LET reviewed == failed /\ turn.retries < MaxRetry
              next == [turn EXCEPT !.phase = "model",
                                   !.retries = IF reviewed THEN @ + 1 ELSE @]
          IN IF turn.calls < MaxToolCalls
             THEN turn' = next /\ UNCHANGED reply
             ELSE EndTurn("failure")
    BY <1>8 DEF CallTool
  <2>2. /\ turn.phase = "tool" /\ routed' \in BOOLEAN
        /\ UNCHANGED <<token, request, asked, inbox, hand, queue, cache, answered, redis, stuck>>
    BY <1>1, <1>8 DEF CallTool
  <2>3. turn # Idle /\ turn \in Turns
    BY <1>1, <2>2 DEF Idle
  <2>4. CASE turn.calls < MaxToolCalls
    <3>1. PICK k \in 0..MaxRetry : k = IF failed /\ turn.retries < MaxRetry
                                      THEN turn.retries + 1 ELSE turn.retries
      BY <2>3 DEF Turns
    <3>2. turn' = [turn EXCEPT !.phase = "model", !.retries = k] /\ UNCHANGED reply
      BY <2>1, <2>4, <3>1
    <3>3. /\ turn' \in Turns /\ turn'.client = turn.client /\ turn'.messages = turn.messages
          /\ turn'.phase = "model" /\ turn'.calls = turn.calls
      BY <2>3, <3>2 DEF Turns
    <3> QED BY <2>2, <2>3, <2>4, <3>2, <3>3, TurnGoesOn
  <2>5. CASE ~(turn.calls < MaxToolCalls)
    BY <2>1, <2>2, <2>3, <2>5, TurnFails
  <2> QED BY <2>4, <2>5
<1>9. CASE CallHangs
  <2>1. turn.phase = "tool" /\ turn' = [turn EXCEPT !.phase = "hung"]
    BY <1>9 DEF CallHangs
  <2>2. turn # Idle /\ turn \in Turns
    BY <1>1, <2>1 DEF Idle
  <2>3. /\ turn' \in Turns /\ turn'.client = turn.client /\ turn'.messages = turn.messages
        /\ turn'.phase = "hung"
    BY <2>1, <2>2 DEF Turns
  <2>4. UNCHANGED <<token, request, reply, asked, inbox, hand, queue, cache, answered,
                    redis, stuck, routed>>
    BY <1>9 DEF CallHangs, client, services
  <2> QED BY <1>1, <2>1, <2>2, <2>3, <2>4, TurnGoesOn
<1> QED BY <1>2, <1>3, <1>4, <1>5, <1>6, <1>7, <1>8, <1>9 DEF Turn

-----------------------------------------------------------------------------
(* The theorems.                                                           *)

LEMMA StepInvariant == IInv /\ [Next]_vars => IInv'
<1> SUFFICES ASSUME IInv, [Next]_vars PROVE IInv'
  OBVIOUS
<1>1. ASSUME NEW c \in Clients,
             \/ SendLogin(c) \/ SendLogout(c) \/ SendQuestion(c)
             \/ Hear(c) \/ TokenExpires(c) \/ Filter(c)
      PROVE  IInv'
  BY <1>1, AsksKeep, HearKeeps, TokenExpiresKeeps, FilterKeeps
<1>2. CASE Dispatch
  BY <1>2, DispatchKeeps
<1>3. CASE Turn
  BY <1>3, TurnKeeps
<1>4. CASE UNCHANGED vars
  <2>1. UNCHANGED <<token, request, reply, asked, inbox, hand, queue, turn, cache, answered,
                    redis, stuck, routed>>
    BY <1>4 DEF vars, client, services
  <2>2. TypeOK' /\ Numbered'
    BY <2>1 DEF IInv, TypeOK, Numbered
  <2>3. Control'
    BY <2>1 DEF IInv, Control, Sock, Loop, Pool, Serving, Replied, Waiting
  <2> QED BY <2>1, <2>2, <2>3, MemoryUntouched DEF IInv
<1>5. CASE FilterHangs \/ RedisChanges
  BY <1>5, ServicesKeep
<1> QED BY <1>1, <1>2, <1>3, <1>4, <1>5 DEF Next

\* The inductive invariant holds throughout.
THEOREM Invariant == Spec => []IInv
<1>1. Init => IInv
  BY InitInvariant
<1>2. IInv /\ [Next]_vars => IInv'
  BY StepInvariant
<1> QED BY <1>1, <1>2, PTL DEF Spec

\* The types, with the limits a turn and the cache keep to: no more tool calls
\* than MaxToolCalls, no more reviews than MaxRetry, no more memories than fit.
THEOREM TypeCorrect == Spec => []TypeOK
<1>1. IInv => TypeOK
  BY DEF IInv
<1> QED BY <1>1, Invariant, PTL

\* A client that waits has its request in one place, from its send to the
\* answer it hears, and a client that does not wait has none anywhere.
THEOREM RequestsInOnePlace == Spec => []OneRequestEach
<1>1. IInv => OneRequestEach
  BY InvariantImplies
<1> QED BY <1>1, Invariant, PTL

\* Every memory is the system prompt and whole exchanges in the order of their
\* questions, and shorter than the limit, whatever turns fail or evict.
THEOREM MemoriesAreWhole == Spec => []MemoriesWellFormed
<1>1. IInv => MemoriesWellFormed
  BY InvariantImplies
<1> QED BY <1>1, Invariant, PTL

-----------------------------------------------------------------------------
(* The memory keeps Conversation.                                          *)

LEMMA ExchangesFacts ==
  ASSUME NEW m \in Seq(Messages), NEW e \in Nat, Len(m) = 2 * e + 1
  PROVE  /\ Exchanges(m) \in Seq(Nat) /\ Len(Exchanges(m)) = e
         /\ \A i \in 1..e : Exchanges(m)[i] = m[2 * i].of
<1> DEFINE x == [i \in 1..e |-> m[2 * i].of]
<1>1. (Len(m) - 1) \div 2 = e
  OBVIOUS
<1>2. \A i \in 1..e : 2 * i \in 1..Len(m)
  OBVIOUS
<1>3. \A i \in 1..e : m[2 * i].of \in Nat
  BY <1>2, ElementOfSeq, MessageFacts
<1>4. x \in Seq(Nat) /\ Len(x) = e
  BY <1>3
<1>5. Exchanges(m) = x
  BY <1>1 DEF Exchanges
<1> QED BY <1>4, <1>5

\* The last w elements, all of them when there are no more.
LEMMA LastOfFacts ==
  ASSUME NEW s \in Seq(Nat), NEW w \in Nat, NEW l \in Nat, l = Len(s)
  PROVE  /\ l <= w => Talk!LastOf(s, w) = s
         /\ l > w => /\ Talk!LastOf(s, w) \in Seq(Nat) /\ Len(Talk!LastOf(s, w)) = w
                     /\ \A i \in 1..w : Talk!LastOf(s, w)[i] = s[l - w + i]
<1>1. CASE l <= w
  <2>1. ~(l > w)
    BY <1>1
  <2>2. Talk!LastOf(s, w) = SubSeq(s, 1, l)
    BY <2>1, Zenon DEF Talk!LastOf
  <2>3. SubSeq(s, 1, l) = s
    OBVIOUS
  <2> QED BY <2>1, <2>2, <2>3
<1>2. CASE l > w
  <2>0. l - w + 1 \in 1..(l + 1) /\ l - w + 1 \in Nat
    BY <1>2
  <2>1. PICK a \in Nat : a = l - w + 1 /\ a \in 1..(l + 1)
    BY <2>0
  <2>2. Talk!LastOf(s, w) = SubSeq(s, a, l)
    BY <1>2, <2>1, Zenon DEF Talk!LastOf
  <2> DEFINE t == SubSeq(s, a, l)
  <2>a. t = Talk!LastOf(s, w)
    BY <2>2
  <2>b. \A i \in 1..(l - a + 1) : a + i - 1 \in 1..l
    BY <2>1
  <2>c. t \in Seq(Nat) /\ Len(t) = l - a + 1
    BY <2>1
  <2>d. \A i \in 1..(l - a + 1) : t[i] = s[a + i - 1]
    BY <2>1
  <2> HIDE DEF t
  <2>3. t \in Seq(Nat) /\ Len(t) = l - a + 1 /\ \A i \in 1..(l - a + 1) : t[i] = s[a + i - 1]
    BY <2>c, <2>d
  <2>4. l - a + 1 = w /\ \A i \in 1..w : a + i - 1 = l - w + i
    BY <2>1
  <2>5. t \in Seq(Nat) /\ Len(t) = w /\ \A i \in 1..w : t[i] = s[l - w + i]
    BY <2>3, <2>4
  <2> QED BY <1>2, <2>a, <2>5
<1> QED BY <1>1, <1>2

\* Saving an exchange and cutting the messages is adding to the exchanges and
\* keeping the last of them: twenty messages are nine exchanges.
LEMMA ExchangesRemembered ==
  ASSUME NEW m \in Seq(Messages), NEW k \in Nat, NEW n \in 1..MaxQuestions, k < n,
         m = <<System>> \/ Memory(m, k)
  PROVE  /\ Exchanges(m) \in Seq(Nat)
         /\ Exchanges(Remember(m, n))
              = Talk!LastOf(Append(Exchanges(m), n), (MaxMessages - 1) \div 2)
<1>1. Len(m) \in 1..(MaxMessages - 1) /\ Len(m) % 2 = 1
  <2>1. CASE m = <<System>>
    BY <2>1, SystemWhole DEF Whole
  <2>2. CASE Memory(m, k)
    BY <2>2 DEF Memory, WellFormed
  <2> QED BY <2>1, <2>2
<1>2. PICK e \in Nat : Len(m) = 2 * e + 1
  <2>1. Len(m) = 2 * (Len(m) \div 2) + 1 /\ Len(m) \div 2 \in Nat
    BY <1>1
  <2> QED BY <2>1
<1>3. PICK w \in Nat : MaxMessages = 2 * w + 2 /\ (MaxMessages - 1) \div 2 = w
  <2>1. MaxMessages = 2 * ((MaxMessages - 1) \div 2) + 2 /\ (MaxMessages - 1) \div 2 \in Nat
    OBVIOUS
  <2> QED BY <2>1
<1>4. e <= w
  BY <1>1, <1>2, <1>3
<1>5. PICK x \in Seq(Nat) : /\ x = Exchanges(m) /\ Len(x) = e
                           /\ \A i \in 1..e : x[i] = m[2 * i].of
  BY <1>2, ExchangesFacts
<1>a. n \in Nat /\ User(n).of = n
  BY MessageFacts
<1>b. PICK f \in Nat : f = e + 1
  OBVIOUS
<1>6. PICK s \in Seq(Nat) : /\ s = Append(x, n) /\ Len(s) = f /\ s[f] = n
                           /\ \A i \in 1..e : s[i] = x[i]
  <2> DEFINE s == Append(x, n)
  <2>1. /\ s \in Seq(Nat) /\ Len(s) = Len(x) + 1 /\ s[Len(x) + 1] = n
        /\ \A i \in 1..Len(x) : s[i] = x[i]
    BY <1>a
  <2> HIDE DEF s
  <2>2. s \in Seq(Nat) /\ Len(s) = f /\ s[f] = n /\ \A i \in 1..e : s[i] = x[i]
    BY <1>5, <1>b, <2>1
  <2> QED BY <2>2 DEF s
<1> DEFINE more == Longer(m, n)
           cut == Cut(more)
<1>7. /\ more \in Seq(Messages) /\ Len(more) = 2 * f + 1
      /\ \A i \in 1..(2 * e + 1) : more[i] = m[i]
      /\ more[2 * f] = User(n)
  <2>1. /\ more \in Seq(Messages) /\ Len(more) = Len(m) + 2
        /\ \A i \in 1..Len(m) : more[i] = m[i]
        /\ more[Len(m) + 1] = User(n)
    BY LongerFacts
  <2>2. Len(m) + 2 = 2 * f + 1 /\ Len(m) + 1 = 2 * f
    BY <1>2, <1>b
  <2> HIDE DEF more
  <2> QED BY <1>2, <2>1, <2>2
<1>8. Remember(m, n) = IF Len(more) > MaxMessages THEN cut ELSE more
  BY DEF Remember, Longer, Cut
<1> HIDE DEF more
<1>c. /\ Exchanges(more) \in Seq(Nat) /\ Len(Exchanges(more)) = f
      /\ \A i \in 1..f : Exchanges(more)[i] = more[2 * i].of
  BY <1>7, ExchangesFacts
<1>9. Exchanges(more) = s
  <2>1. ASSUME NEW i \in 1..f PROVE more[2 * i].of = s[i]
    <3>1. CASE i = f
      BY <1>6, <1>7, <1>a, <3>1
    <3>2. CASE i # f
      <4>1. i \in 1..e /\ 2 * i \in 1..(2 * e + 1)
        BY <1>b, <3>2
      <4>2. more[2 * i] = m[2 * i] /\ s[i] = x[i] /\ x[i] = m[2 * i].of
        BY <1>5, <1>6, <1>7, <4>1
      <4> QED BY <4>2
    <3> QED BY <3>1, <3>2
  <2>2. \A i \in 1..Len(Exchanges(more)) : Exchanges(more)[i] = s[i]
    BY <1>c, <2>1
  <2> QED BY <1>6, <1>c, <2>2, SeqEqual
<1>10. CASE Len(more) > MaxMessages
  <2>1. e = w /\ Len(more) > 3 /\ Len(more) - 2 = 2 * e + 1 /\ f > w
    BY <1>1, <1>2, <1>3, <1>4, <1>7, <1>b, <1>10
  <2>2. /\ cut \in Seq(Messages) /\ Len(cut) = 2 * e + 1
        /\ \A i \in 2..(2 * e + 1) : cut[i] = more[i + 2]
    BY <1>7, <2>1, CutFacts
  <2> HIDE DEF cut
  <2>3. /\ Exchanges(cut) \in Seq(Nat) /\ Len(Exchanges(cut)) = e
        /\ \A i \in 1..e : Exchanges(cut)[i] = cut[2 * i].of
    BY <2>2, ExchangesFacts
  <2>4. ASSUME NEW i \in 1..e PROVE Exchanges(cut)[i] = s[i + 1]
    <3>1. 2 * i \in 2..(2 * e + 1) /\ 2 * i + 2 = 2 * (i + 1) /\ i + 1 \in 1..f
      BY <1>b
    <3>2. Exchanges(cut)[i] = cut[2 * i].of /\ cut[2 * i] = more[2 * (i + 1)]
      BY <2>2, <2>3, <3>1
    <3>3. s[i + 1] = more[2 * (i + 1)].of
      BY <1>9, <1>c, <3>1
    <3> QED BY <3>2, <3>3
  <2> DEFINE kept == Talk!LastOf(s, w)
  <2>a. kept \in Seq(Nat) /\ Len(kept) = w /\ \A i \in 1..w : kept[i] = s[f - w + i]
    <3>1. f = Len(s) /\ f > w
      BY <1>6, <2>1
    <3> QED BY <3>1, LastOfFacts
  <2> HIDE DEF kept
  <2>5. kept \in Seq(Nat) /\ Len(kept) = e /\ \A i \in 1..e : kept[i] = s[f - w + i]
    BY <2>1, <2>a
  <2>6. \A i \in 1..e : f - w + i = i + 1
    BY <1>b, <2>1
  <2>7. \A i \in 1..Len(Exchanges(cut)) : Exchanges(cut)[i] = kept[i]
    BY <2>3, <2>4, <2>5, <2>6
  <2>8. Exchanges(cut) = kept
    BY <2>3, <2>5, <2>7, SeqEqual
  <2> QED BY <1>3, <1>5, <1>6, <1>8, <1>10, <2>8 DEF kept
<1>11. CASE ~(Len(more) > MaxMessages)
  <2>1. f <= w
    BY <1>3, <1>7, <1>11
  <2>2. Talk!LastOf(s, w) = s
    BY <1>6, <2>1, LastOfFacts
  <2> QED BY <1>3, <1>5, <1>6, <1>8, <1>9, <1>11, <2>2
<1> QED BY <1>10, <1>11

\* As many keys as entries.
LEMMA KeysCount ==
  ASSUME NEW S, NEW q \in Seq(S), KeysDiffer(q)
  PROVE  IsFiniteSet(Keys(q)) /\ Cardinality(Keys(q)) = Len(q)
<1> DEFINE f == [i \in 1..Len(q) |-> q[i].key]
<1>1. Len(q) \in Nat /\ DOMAIN q = 1..Len(q)
  OBVIOUS
<1>2. f \in Bijection(1..Len(q), Keys(q))
  BY <1>1 DEF Bijection, Injection, Surjection, IsInjective, Keys, KeysDiffer
<1>3. IsFiniteSet(1..Len(q)) /\ Cardinality(1..Len(q)) = Len(q)
  BY <1>1, FS_Interval
<1>4. ExistsBijection(1..Len(q), Keys(q))
  BY <1>2 DEF ExistsBijection
<1> QED BY <1>3, <1>4, FS_Bijection

LEMMA ConversationFacts ==
  ASSUME IInv
  PROVE  /\ conversation \in [Clients -> Seq(Nat)]
         /\ \A c \in Clients : conversation[c] = Exchanges(Recall(c))
         /\ \A c \in Clients : c \in Keys(cache) <=> conversation[c] # <<>>
         /\ Talk!Remembered = Keys(cache)
         /\ IsFiniteSet(Keys(cache)) /\ Cardinality(Keys(cache)) = Len(cache)
         /\ Len(cache) \in Nat
<1>1. Exchanges(<<System>>) = <<>> /\ <<>> \in Seq(Nat)
  <2>1. /\ <<System>> \in Seq(Messages) /\ Len(<<System>>) = 2 * 0 + 1
    BY SystemWhole
  <2>2. Exchanges(<<System>>) \in Seq(Nat) /\ Len(Exchanges(<<System>>)) = 0
    BY <2>1, ExchangesFacts
  <2> QED BY <2>2, EmptySeq
<1>2. ASSUME NEW c \in Clients
      PROVE  /\ Exchanges(Recall(c)) \in Seq(Nat)
             /\ c \in Keys(cache) => Exchanges(Recall(c)) # <<>>
  <2>1. CASE c \notin Keys(cache)
    BY <1>1, <2>1 DEF Recall
  <2>2. CASE c \in Keys(cache)
    <3>1. Recall(c) \in Seq(Messages) /\ Memory(Recall(c), answered[c])
      BY <2>2, RecallTypes DEF Recall, IInv, Remembering
    <3>2. Len(Recall(c)) \in 3..(MaxMessages - 1) /\ Len(Recall(c)) % 2 = 1
      BY <3>1 DEF Memory, WellFormed
    <3>3. PICK e \in Nat : Len(Recall(c)) = 2 * e + 1 /\ e > 0
      <4>1. PICK l \in Nat : l = Len(Recall(c)) /\ l >= 3 /\ l % 2 = 1
        BY <3>2
      <4>2. l = 2 * (l \div 2) + 1 /\ l \div 2 \in Nat /\ l \div 2 > 0
        BY <4>1
      <4> QED BY <4>1, <4>2
    <3>4. Exchanges(Recall(c)) \in Seq(Nat) /\ Len(Exchanges(Recall(c))) = e
      BY <3>1, <3>3, ExchangesFacts
    <3> QED BY <3>3, <3>4, EmptySeq
  <2> QED BY <2>1, <2>2
<1>3. \A c \in Clients : conversation[c] = Exchanges(Recall(c))
  BY <1>1 DEF conversation, Recall
<1>4. \A c \in Clients : c \notin Keys(cache) => conversation[c] = <<>>
  BY DEF conversation
<1>5. conversation \in [Clients -> Seq(Nat)]
  <2>1. conversation = [c \in Clients |-> conversation[c]]
    BY DEF conversation
  <2> HIDE DEF conversation
  <2>2. \A c \in Clients : conversation[c] \in Seq(Nat)
    BY <1>2, <1>3
  <2> QED BY <2>1, <2>2
<1>6. Talk!Remembered = Keys(cache)
  <2>1. Talk!Remembered = {c \in Clients : conversation[c] # <<>>}
    BY DEF Talk!Remembered
  <2> QED BY <1>2, <1>3, <1>4, <2>1, KeysAreClients
<1>7. IsFiniteSet(Keys(cache)) /\ Cardinality(Keys(cache)) = Len(cache)
  BY KeysCount DEF IInv, TypeOK, Remembering
<1>8. Len(cache) \in Nat
  BY DEF IInv, TypeOK
<1> QED BY <1>2, <1>3, <1>4, <1>5, <1>6, <1>7, <1>8

LEMMA SameCardinality == \A S : Talk!Cardinality(S) = Cardinality(S)
BY Zenon DEF Talk!Cardinality, Cardinality

\* An answer is one exchange more, in place of a client's when there is no room.
LEMMA AnswerIsExchange ==
  ASSUME IInv, ModelAnswers
  PROVE  Talk!Next
<1>1. PICK c : c = turn.client
  OBVIOUS
<1>2. PICK n : n = asked[c]
  OBVIOUS
<1>3. PICK more : more = Remember(turn.messages, n)
  OBVIOUS
<1>4. /\ turn # Idle /\ c \in Clients
      /\ answered' = [answered EXCEPT ![c] = n]
      /\ answered[c] \in Nat /\ n \in 1..MaxQuestions /\ answered[c] < n
      /\ turn.messages = Recall(c) /\ Find(cache', c) = more
      /\ Keys(cache') = IF c \in Keys(cache) \/ Len(cache) < Capacity
                        THEN Keys(cache) \cup {c}
                        ELSE (Keys(cache) \ {Last(cache).key}) \cup {c}
      /\ c \notin Keys(cache) /\ Len(cache) >= Capacity => Last(cache).key \in Keys(cache)
      /\ \A d \in Keys(cache') \ {c} : d \in Keys(cache) /\ Find(cache', d) = Find(cache, d)
  BY <1>1, <1>2, <1>3, AnswerFacts
<1> DEFINE old == conversation
           added == Talk!LastOf(Append(old[c], n), (MaxMessages - 1) \div 2)
           kept == [old EXCEPT ![c] = added]
<1>5. Exchanges(more) = added
  <2>1. /\ Recall(c) \in Seq(Messages)
        /\ Recall(c) = <<System>> \/ Memory(Recall(c), answered[c])
        /\ old[c] = Exchanges(Recall(c))
    BY <1>4, RecallTypes, ConversationFacts
  <2>2. Exchanges(Remember(Recall(c), n))
          = Talk!LastOf(Append(Exchanges(Recall(c)), n), (MaxMessages - 1) \div 2)
    BY <1>4, <2>1, ExchangesRemembered
  <2> QED BY <1>3, <1>4, <2>1, <2>2
<1>6. /\ old \in [Clients -> Seq(Nat)] /\ Talk!Remembered = Keys(cache)
      /\ IsFiniteSet(Keys(cache)) /\ Cardinality(Keys(cache)) = Len(cache)
      /\ Len(cache) \in Nat
  BY ConversationFacts
<1>7. \A d \in Clients : old[d] = IF d \in Keys(cache) THEN Exchanges(Find(cache, d)) ELSE <<>>
  BY DEF conversation
<1>8. /\ conversation' = [d \in Clients |-> conversation'[d]]
      /\ \A d \in Clients : conversation'[d] = IF d \in Keys(cache')
                                             THEN Exchanges(Find(cache', d)) ELSE <<>>
  BY DEF conversation
<1> HIDE DEF old, added
<1>9. answered'[c] = n
  BY <1>4 DEF IInv, TypeOK
<1>10. Cardinality(Keys(cache) \cup {c}) = IF c \in Keys(cache) THEN Len(cache) ELSE Len(cache) + 1
  BY <1>6, FS_AddElement
<1>11. conversation'[c] = added
  BY <1>4, <1>5, <1>8
<1>12. CASE c \in Keys(cache) \/ Len(cache) < Capacity
  <2>1. Cardinality(Talk!Remembered \cup {c}) <= Capacity
    <3>1. Len(cache) <= Capacity
      BY DEF IInv, TypeOK
    <3> QED BY <1>6, <1>10, <1>12, <3>1
  <2>2. \A d \in Clients \ {c} : conversation'[d] = old[d]
    BY <1>4, <1>7, <1>8, <1>12
  <2>3. conversation' = kept
    BY <1>6, <1>8, <1>11, <2>2
  <2>4. conversation' = [conversation EXCEPT ![c] =
                           Talk!LastOf(Append(conversation[c], n), (MaxMessages - 1) \div 2)]
    BY <2>3 DEF old, added
  <2>5. Talk!Exchange(c, n)
    BY <1>4, <2>1, <2>4, SameCardinality DEF Talk!Exchange
  <2> QED BY <1>4, <1>9, <2>5 DEF Talk!Next
<1>13. CASE ~(c \in Keys(cache) \/ Len(cache) < Capacity)
  <2> DEFINE d == Last(cache).key
  <2>1. ~(Cardinality(Talk!Remembered \cup {c}) <= Capacity)
    BY <1>6, <1>10, <1>13
  <2>2. d \in Keys(cache) /\ d # c /\ d \in Clients /\ Keys(cache') = (Keys(cache) \ {d}) \cup {c}
    BY <1>4, <1>6, <1>13, KeysAreClients
  <2> HIDE DEF d
  <2>3. conversation'[d] = <<>>
    BY <1>8, <2>2
  <2>4. \A e \in Clients \ {c, d} : conversation'[e] = old[e]
    BY <1>4, <1>7, <1>8, <2>2
  <2>5. conversation' = [kept EXCEPT ![d] = <<>>]
    BY <1>6, <1>8, <1>11, <2>2, <2>3, <2>4
  <2>6. d \in Talk!Remembered \ {c}
    BY <1>6, <2>2
  <2>7. conversation' = [[conversation EXCEPT ![c] =
                             Talk!LastOf(Append(conversation[c], n), (MaxMessages - 1) \div 2)]
                          EXCEPT ![d] = <<>>]
    BY <2>5 DEF old, added
  <2>8. Talk!Exchange(c, n)
    BY <1>4, <2>1, <2>6, <2>7, SameCardinality DEF Talk!Exchange
  <2> QED BY <1>4, <1>9, <2>8 DEF Talk!Next
<1> QED BY <1>12, <1>13

\* A step that answers nobody leaves what is remembered as it is.
LEMMA OthersRememberAlike ==
  ASSUME IInv, [Next]_vars, ~ModelAnswers
  PROVE  UNCHANGED Talk!vars
<1>1. CASE UNCHANGED <<cache, answered>>
  BY <1>1 DEF Talk!vars, conversation
<1>2. CASE Prepare
  <2>1. PICK c : c = turn.client
    OBVIOUS
  <2>2. cache' = Touch(cache, c) /\ answered' = answered
    BY <1>2, <2>1 DEF Prepare
  <2>3. cache \in Seq(Entries(Clients, Seq(Messages))) /\ KeysDiffer(cache)
    BY DEF IInv, TypeOK, Remembering, Entries
  <2>4. Keys(cache') = Keys(cache) /\ \A d \in Keys(cache) : Find(cache', d) = Find(cache, d)
    BY <2>2, <2>3, TouchFacts
  <2>5. conversation' = conversation
    BY <2>4 DEF conversation
  <2> QED BY <2>2, <2>5 DEF Talk!vars
<1>3. ASSUME NEW c \in Clients,
             \/ SendLogin(c) \/ SendLogout(c) \/ SendQuestion(c)
             \/ Hear(c) \/ TokenExpires(c) \/ Filter(c)
      PROVE  UNCHANGED <<cache, answered>>
  BY <1>3 DEF SendLogin, SendLogout, SendQuestion, Send, Hear, TokenExpires, Filter,
              LoginFilter, JwtAuthFilter, LogoutFilter, PassQuestion
<1>4. CASE Dispatch \/ BeginTurn \/ Throw \/ ModelFails \/ ModelCalls \/ CallTool
  BY <1>1, <1>4 DEF Dispatch, BeginTurn, Throw, ModelFails, ModelCalls, CallTool
<1>6. CASE CallHangs \/ FilterHangs \/ RedisChanges
  BY <1>1, <1>6 DEF CallHangs, FilterHangs, RedisChanges
<1>5. CASE UNCHANGED vars
  BY <1>1, <1>5 DEF vars
<1> QED BY <1>1, <1>2, <1>3, <1>4, <1>5, <1>6 DEF Next, Turn

\* The cache, with its capacity, its order of use and its messages cut to fit,
\* keeps the promise of Conversation: each client it remembers is remembered by
\* its latest answered exchanges, none skipped, and it forgets only for room.
THEOREM RemembersConversation == Spec => KeepsConversation
<1>1. Init => Talk!Init
  BY DEF Init, Talk!Init, conversation, Keys
<1>2. IInv /\ [Next]_vars => [Talk!Next]_(Talk!vars)
  BY AnswerIsExchange, OthersRememberAlike
<1> QED BY <1>1, <1>2, Invariant, PTL DEF Spec, KeepsConversation, Talk!Spec
=============================================================================
