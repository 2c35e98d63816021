----------------------- MODULE ServiceRegistryProofs -----------------------
(***************************************************************************)
(* Proofs about ConsistentHash and ServiceRegistry, for any number of      *)
(* providers, points on the ring and faults: what the ring holds after     *)
(* nodes were added, how keys move when one more is, what alone can leave  *)
(* a call without a provider to go to, and, if restarts wait out the old   *)
(* session, that a provider that serves is listed.                         *)
(***************************************************************************)
EXTENDS ServiceRegistry, SequenceLemmas, FiniteSetTheorems, TLAPS

USE RegistryAssumption

\* Where the virtual nodes of the providers may be.
Places == [Providers -> SUBSET Points]

-----------------------------------------------------------------------------
(* The ring.                                                               *)

LEMMA MinFacts ==
  ASSUME NEW T, T \subseteq Nat, T # {}
  PROVE  Min(T) \in T /\ \A y \in T : Min(T) <= y
BY Least DEF Min

\* upper_bound and the wrap-around find a point that is taken.
LEMMA GetNodeFacts ==
  ASSUME NEW r \in Rings, NEW x \in Points
  PROVE  /\ Taken(r) = {} => GetNode(r, x) = Nobody
         /\ Taken(r) # {} => \E y \in Taken(r) : GetNode(r, x) = r[y]
<1> DEFINE above == {y \in Taken(r) : y > x}
<1>1. Taken(r) \subseteq Nat /\ above \subseteq Taken(r)
  BY DEF Taken, Points
<1>2. CASE Taken(r) = {}
  BY <1>2 DEF GetNode
<1>3. CASE above # {}
  <2>1. Min(above) \in above
    BY <1>1, <1>3, MinFacts
  <2>2. Taken(r) # {} /\ GetNode(r, x) = r[Min(above)]
    BY <1>1, <1>3 DEF GetNode
  <2> QED BY <1>1, <2>1, <2>2
<1>4. CASE Taken(r) # {} /\ above = {}
  <2>1. Min(Taken(r)) \in Taken(r)
    BY <1>1, <1>4, MinFacts
  <2>2. GetNode(r, x) = r[Min(Taken(r))]
    BY <1>4 DEF GetNode
  <2> QED BY <1>4, <2>1, <2>2
<1> QED BY <1>2, <1>3, <1>4

\* A ring with a node on it has a provider for every key, one without none.
LEMMA GetNodeType ==
  ASSUME NEW r \in Rings, NEW x \in Points
  PROVE  /\ GetNode(r, x) \in Providers \cup {Nobody}
         /\ Taken(r) # {} => GetNode(r, x) \in Providers
BY GetNodeFacts DEF Rings, Taken

LEMMA AddNodeType ==
  ASSUME NEW r \in Rings, NEW a \in Places, NEW n \in Providers
  PROVE  /\ AddNode(a, r, n) \in Rings
         /\ Taken(AddNode(a, r, n)) = Taken(r) \cup a[n]
BY DEF AddNode, Rings, Taken, Places

\* y is the first of T above x or, with none above x, the first of T.
IsNext(T, x, y) ==
  /\ y \in T
  /\ \A z \in T : z > x => y > x /\ y <= z
  /\ (\A z \in T : ~(z > x)) => \A z \in T : y <= z

LEMMA GetNodeNext ==
  ASSUME NEW r \in Rings, NEW x \in Points, Taken(r) # {}
  PROVE  \E y : IsNext(Taken(r), x, y) /\ GetNode(r, x) = r[y]
<1> DEFINE above == {y \in Taken(r) : y > x}
<1>1. Taken(r) \subseteq Nat /\ above \subseteq Taken(r)
  BY DEF Taken, Points
<1>2. CASE above # {}
  <2>1. Min(above) \in above /\ \A z \in above : Min(above) <= z
    BY <1>1, <1>2, MinFacts
  <2>2. GetNode(r, x) = r[Min(above)]
    BY <1>1, <1>2 DEF GetNode
  <2> QED BY <2>1, <2>2 DEF IsNext
<1>3. CASE above = {}
  <2>1. Min(Taken(r)) \in Taken(r) /\ \A z \in Taken(r) : Min(Taken(r)) <= z
    BY <1>1, MinFacts
  <2>2. GetNode(r, x) = r[Min(Taken(r))]
    BY <1>3 DEF GetNode
  <2> QED BY <1>3, <2>1, <2>2 DEF IsNext
<1> QED BY <1>2, <1>3

LEMMA NextUnique ==
  ASSUME NEW T, T \subseteq Nat, NEW x \in Nat, NEW y, NEW z, IsNext(T, x, y), IsNext(T, x, z)
  PROVE  y = z
<1>1. y \in Nat /\ z \in Nat
  BY DEF IsNext
<1>2. y <= z /\ z <= y
  BY DEF IsNext
<1> QED BY <1>1, <1>2

\* Adding a node to the ring moves keys to that node and no key between two
\* others, also where its points coincide with theirs: ConsistentHash::AddNode
\* and GetNode, for any ring and any points.
THEOREM KeysMoveToNewNodeOnly ==
  ASSUME NEW r \in Rings, NEW a \in Places, NEW n \in Providers, NEW x \in Points
  PROVE  GetNode(AddNode(a, r, n), x) \in {n, GetNode(r, x)}
<1> DEFINE new == AddNode(a, r, n)
<1>1. new \in Rings /\ Taken(new) = Taken(r) \cup a[n] /\ Taken(new) \subseteq Nat /\ x \in Nat
  BY AddNodeType DEF Taken, Points
<1>2. \A y \in Points : new[y] = IF y \in a[n] THEN n ELSE r[y]
  BY DEF AddNode
<1> HIDE DEF new
<1>3. CASE Taken(new) = {}
  <2>1. Taken(r) = {}
    BY <1>1, <1>3
  <2>2. GetNode(new, x) = Nobody /\ GetNode(r, x) = Nobody
    BY <1>1, <1>3, <2>1, GetNodeFacts
  <2> QED BY <2>2 DEF new
<1>4. CASE Taken(new) # {}
  <2>1. PICK y : IsNext(Taken(new), x, y) /\ GetNode(new, x) = new[y]
    BY <1>1, <1>4, GetNodeNext
  <2>2. y \in Taken(new) /\ y \in Points
    BY <2>1 DEF IsNext, Taken
  <2>3. CASE y \in a[n]
    BY <1>2, <2>1, <2>2, <2>3 DEF new
  <2>4. CASE y \notin a[n]
    <3>1. y \in Taken(r) /\ new[y] = r[y] /\ Taken(r) \subseteq Nat
      BY <1>1, <1>2, <2>2, <2>4
    <3>2. IsNext(Taken(r), x, y)
      BY <1>1, <2>1, <3>1 DEF IsNext
    <3>3. PICK z : IsNext(Taken(r), x, z) /\ GetNode(r, x) = r[z]
      BY <3>1, GetNodeNext
    <3>4. z = y
      BY <1>1, <3>1, <3>2, <3>3, NextUnique
    <3> QED BY <2>1, <3>1, <3>3, <3>4 DEF new
  <2> QED BY <2>3, <2>4
<1> QED BY <1>3, <1>4

-----------------------------------------------------------------------------
(* Filling the ring.                                                       *)

\* r is the ring after the first i of nodes: a point belongs to the last of
\* them that has it.
HeldAfter(i, a, nodes, r) ==
  /\ r \in Rings
  /\ \A x \in Points :
       /\ x \in Taken(r) <=> \E j \in 1..i : x \in a[nodes[j]]
       /\ \A j \in 1..i : x \in a[nodes[j]] /\ (\A k \in (j + 1)..i : x \notin a[nodes[k]])
                            => r[x] = nodes[j]

\* The rings a list leaves behind, one for each of its prefixes up to n.
Step(a, nodes, f, i) == IF i = 0 THEN EmptyRing ELSE AddNode(a, f[i - 1], nodes[i])
Builds(a, nodes, n, f) == f = [i \in 0..n |-> Step(a, nodes, f, i)]

LEMMA BuildExists ==
  ASSUME NEW a, NEW nodes, NEW m \in Nat
  PROVE  \E f : Builds(a, nodes, m, f)
<1> DEFINE T == {n \in Nat : \E f : Builds(a, nodes, n, f)}
<1>1. 0 \in T
  <2> DEFINE f == [i \in 0..0 |-> EmptyRing]
  <2>1. \A i \in 0..0 : i = 0 /\ Step(a, nodes, f, i) = EmptyRing
    BY DEF Step
  <2>2. f = [i \in 0..0 |-> Step(a, nodes, f, i)]
    BY <2>1
  <2> QED BY <2>2 DEF Builds
<1>2. ASSUME NEW n \in Nat, n \in T PROVE n + 1 \in T
  <2>1. PICK f : Builds(a, nodes, n, f)
    BY <1>2
  <2> DEFINE g == [i \in 0..(n + 1) |-> IF i <= n THEN f[i] ELSE AddNode(a, f[n], nodes[n + 1])]
  <2>2. ASSUME NEW i \in 0..(n + 1) PROVE g[i] = Step(a, nodes, g, i)
    <3>1. CASE i = 0
      BY <2>1, <3>1 DEF Builds, Step
    <3>2. CASE i \in 1..n
      <4>1. i \in 0..n /\ i - 1 \in 0..n /\ i # 0 /\ i <= n /\ i - 1 <= n
        BY <3>2
      <4>2. f[i] = Step(a, nodes, f, i)
        BY <2>1, <4>1 DEF Builds
      <4>3. g[i] = f[i] /\ g[i - 1] = f[i - 1]
        BY <4>1
      <4> QED BY <4>1, <4>2, <4>3 DEF Step
    <3>3. CASE i = n + 1
      <4>1. g[i] = AddNode(a, f[n], nodes[i]) /\ g[i - 1] = f[n] /\ i # 0
        BY <3>3
      <4> HIDE DEF g
      <4> QED BY <4>1 DEF Step
    <3> QED BY <3>1, <3>2, <3>3
  <2>3. g = [i \in 0..(n + 1) |-> Step(a, nodes, g, i)]
    <3>1. DOMAIN g = 0..(n + 1) /\ g = [i \in 0..(n + 1) |-> g[i]]
      OBVIOUS
    <3> HIDE DEF g
    <3> QED BY <2>2, <3>1
  <2> HIDE DEF g
  <2> QED BY <2>3 DEF Builds
<1>3. Nat \subseteq T
  <2> HIDE DEF T
  <2> QED BY <1>1, <1>2, Induction
<1> QED BY <1>3

\* AddAll is the last of the rings its recursion goes through.
LEMMA AddAllBuilds ==
  ASSUME NEW a, NEW nodes, Len(nodes) \in Nat
  PROVE  \E f : Builds(a, nodes, Len(nodes), f) /\ AddAll(a, nodes) = f[Len(nodes)]
<1> DEFINE P(f) == f = [i \in 0..Len(nodes) |->
                          IF i = 0 THEN EmptyRing ELSE AddNode(a, f[i - 1], nodes[i])]
<1>1. \E f : P(f)
  <2>1. PICK f : Builds(a, nodes, Len(nodes), f)
    BY BuildExists
  <2>2. P(f)
    BY <2>1 DEF Builds, Step
  <2> HIDE DEF P
  <2> QED BY <2>2
<1>2. P(CHOOSE f : P(f))
  BY <1>1
<1>3. AddAll(a, nodes) = (CHOOSE f : P(f))[Len(nodes)]
  BY DEF AddAll
<1> QED BY <1>2, <1>3 DEF Builds, Step

\* Every point of the ring belongs to the node that was added last among those
\* that have it, and the ring has the points of all of them and no others: what
\* the loop over the listed providers, each calling ConsistentHash::AddNode,
\* leaves for any list.
THEOREM LastAdderHoldsPoint ==
  ASSUME NEW a \in Places, NEW nodes \in Seq(Providers)
  PROVE  HeldAfter(Len(nodes), a, nodes, AddAll(a, nodes))
<1>1. Len(nodes) \in Nat /\ \A i \in 1..Len(nodes) : nodes[i] \in Providers
  OBVIOUS
<1>2. PICK f : Builds(a, nodes, Len(nodes), f) /\ AddAll(a, nodes) = f[Len(nodes)]
  BY <1>1, AddAllBuilds
<1>3. \A i \in 0..Len(nodes) : f[i] = Step(a, nodes, f, i)
  BY <1>2 DEF Builds
<1> DEFINE T == {n \in Nat : n <= Len(nodes) => HeldAfter(n, a, nodes, f[n])}
<1>4. 0 \in T
  <2>1. f[0] = EmptyRing
    BY <1>1, <1>3 DEF Step
  <2> QED BY <2>1 DEF HeldAfter, EmptyRing, Rings, Taken
<1>5. ASSUME NEW n \in Nat, n \in T PROVE n + 1 \in T
  <2> SUFFICES ASSUME n + 1 <= Len(nodes) PROVE HeldAfter(n + 1, a, nodes, f[n + 1])
    OBVIOUS
  <2>1. n + 1 \in 1..Len(nodes) /\ n + 1 \in 0..Len(nodes) /\ HeldAfter(n, a, nodes, f[n])
    BY <1>1, <1>5
  <2>2. f[n + 1] = AddNode(a, f[n], nodes[n + 1]) /\ nodes[n + 1] \in Providers
    BY <1>1, <1>3, <2>1 DEF Step
  <2>3. f[n + 1] \in Rings
    BY <2>1, <2>2, AddNodeType DEF HeldAfter
  <2>4. \A x \in Points : f[n + 1][x] = IF x \in a[nodes[n + 1]] THEN nodes[n + 1] ELSE f[n][x]
    BY <2>2 DEF AddNode
  <2>5. ASSUME NEW x \in Points
        PROVE  x \in Taken(f[n + 1]) <=> \E j \in 1..(n + 1) : x \in a[nodes[j]]
    <3>1. x \in Taken(f[n + 1]) <=> x \in Taken(f[n]) \/ x \in a[nodes[n + 1]]
      BY <2>1, <2>2, AddNodeType DEF HeldAfter
    <3>2. 1..(n + 1) = 1..n \cup {n + 1}
      OBVIOUS
    <3> QED BY <2>1, <3>1, <3>2 DEF HeldAfter
  <2>6. ASSUME NEW x \in Points, NEW j \in 1..(n + 1), x \in a[nodes[j]],
               \A k \in (j + 1)..(n + 1) : x \notin a[nodes[k]]
        PROVE  f[n + 1][x] = nodes[j]
    <3>1. CASE j = n + 1
      BY <2>4, <2>6, <3>1
    <3>2. CASE j # n + 1
      <4>1. j \in 1..n /\ n + 1 \in (j + 1)..(n + 1) /\ (j + 1)..n \subseteq (j + 1)..(n + 1)
        BY <3>2
      <4> QED BY <2>1, <2>4, <2>6, <4>1 DEF HeldAfter
    <3> QED BY <3>1, <3>2
  <2> QED BY <2>3, <2>5, <2>6 DEF HeldAfter
<1>6. Nat \subseteq T
  <2> HIDE DEF T
  <2> QED BY <1>4, <1>5, Induction
<1> QED BY <1>1, <1>2, <1>6

LEMMA AddAllFacts ==
  ASSUME NEW a \in Places, NEW N \in SUBSET Providers, NEW nodes \in SetToSeqs(N)
  PROVE  /\ AddAll(a, nodes) \in Rings
         /\ N # {} /\ (\A p \in Providers : a[p] # {}) => Taken(AddAll(a, nodes)) # {}
<1>1. IsFiniteSet(N) /\ Cardinality(N) \in Nat
  BY FS_Subset, FS_CardinalityType
<1>2. nodes \in [1..Cardinality(N) -> N]
  BY DEF SetToSeqs
<1>3. nodes \in Seq(Providers) /\ Len(nodes) = Cardinality(N)
  BY <1>1, <1>2
<1>4. HeldAfter(Len(nodes), a, nodes, AddAll(a, nodes))
  BY <1>3, LastAdderHoldsPoint
<1>5. ASSUME N # {}, \A p \in Providers : a[p] # {} PROVE Taken(AddAll(a, nodes)) # {}
  <2>1. Cardinality(N) # 0
    BY <1>1, <1>5, FS_EmptySet
  <2>2. 1 \in 1..Len(nodes) /\ nodes[1] \in Providers
    BY <1>1, <1>2, <1>3, <2>1
  <2>3. PICK x \in a[nodes[1]] : x \in Points
    BY <1>5, <2>2 DEF Places
  <2> QED BY <1>4, <2>2, <2>3 DEF HeldAfter
<1> QED BY <1>4, <1>5 DEF HeldAfter

-----------------------------------------------------------------------------
(* The registry and the gateway.                                           *)

\* Where virtual nodes are never changes, and each provider has some.
Placed == at \in Places /\ \A p \in Providers : at[p] # {}

\* What holds of a provider's own state: Create is under way only for a path;
\* only a provider that serves, in an open session, holds its node in its own
\* name; and while restarts wait, a provider whose node is held for its last
\* process is down, and one that serves holds its node.
Sound(p) ==
  /\ absent[p] => step[p] \in Paths
  /\ owner[p] = "own" => step[p] = "serving" /\ session[p] = "open"
  /\ Patient => /\ owner[p] = "old" => step[p] = "down"
                /\ step[p] = "serving" /\ session[p] = "open" /\ ~unsure[p]
                     => owner[p] = "own"

IInv == TypeOK /\ Placed /\ \A p \in Providers : Sound(p)

LEMMA InitInvariant == Init => IInv
<1> SUFFICES ASSUME Init PROVE IInv
  OBVIOUS
<1>1. Cardinality(Providers) \in Nat /\ 0 \in 0..Cardinality(Providers)
  BY FS_CardinalityType
<1>2. TypeOK
  BY <1>1 DEF Init, TypeOK, Paths, EmptyRing, Rings
<1>3. Placed
  BY DEF Init, Placed, Places
<1> QED BY <1>2, <1>3 DEF Init, IInv, Sound, Paths

\* What p does leaves the other providers and the gateway alone.
ActsAlone(p) ==
  /\ UNCHANGED caller
  /\ \A q \in Providers \ {p} :
       /\ step'[q] = step[q] /\ absent'[q] = absent[q] /\ unsure'[q] = unsure[q]
       /\ session'[q] = session[q] /\ owner'[q] = owner[q]

LEMMA OthersStaySound ==
  ASSUME IInv, NEW p \in Providers, ActsAlone(p), TypeOK', Sound(p)'
  PROVE  IInv'
<1>1. Placed'
  BY DEF IInv, Placed, ActsAlone, caller
<1>2. ASSUME NEW q \in Providers \ {p} PROVE Sound(q)'
  BY DEF IInv, Sound, ActsAlone
<1> QED BY <1>1, <1>2 DEF IInv

LEMMA StartKeeps ==
  ASSUME IInv, NEW p \in Providers, Start(p)
  PROVE  IInv'
<1> USE DEF IInv, TypeOK, Start, Fault
<1>1. ActsAlone(p)
  BY DEF ActsAlone
<1>2. TypeOK'
  BY DEF Sound, Paths, caller
<1>3. Sound(p)'
  BY DEF Sound, Paths
<1> QED BY ONLY <1>1, <1>2, <1>3, IInv, p \in Providers, OthersStaySound

LEMMA ExistsKeeps ==
  ASSUME IInv, NEW p \in Providers, Exists(p)
  PROVE  IInv'
<1> USE DEF IInv, TypeOK, Exists, Advance, After, There
<1>1. ActsAlone(p)
  <2>1. /\ step' = [step EXCEPT ![p] = After[@]] \/ step' = step
        /\ absent' = [absent EXCEPT ![p] = FALSE] \/ absent' = [absent EXCEPT ![p] = TRUE]
        /\ UNCHANGED <<unsure, session, owner, caller>>
    BY DEF Exists
  <2> QED BY ONLY <2>1, TypeOK DEF TypeOK, ActsAlone
<1>2. TypeOK'
  <2>1. After[step[p]] \in Paths \cup {"serving"}
    BY DEF Paths
  <2>2. step' = step \/ step' = [step EXCEPT ![p] = After[step[p]]]
    OBVIOUS
  <2>3. step' \in [Providers -> Paths \cup {"down", "hung", "serving"}]
    BY ONLY <2>1, <2>2, TypeOK DEF TypeOK
  <2>4. absent' = [absent EXCEPT ![p] = FALSE] \/ absent' = [absent EXCEPT ![p] = TRUE]
    OBVIOUS
  <2>5. absent' \in [Providers -> BOOLEAN]
    BY ONLY <2>4, TypeOK DEF TypeOK
  <2> QED BY <2>3, <2>5 DEF caller
<1>3. Sound(p)'
  BY DEF Sound, Paths
<1> QED BY ONLY <1>1, <1>2, <1>3, IInv, p \in Providers, OthersStaySound

LEMMA ExistsFailsKeeps ==
  ASSUME IInv, NEW p \in Providers, ExistsFails(p)
  PROVE  IInv'
<1> USE DEF IInv, TypeOK, ExistsFails, Advance, After, Fault
<1>1. ActsAlone(p)
  BY DEF ActsAlone
<1>2. TypeOK'
  BY DEF Sound, Paths, caller
<1>3. Sound(p)'
  BY DEF Sound, Paths
<1> QED BY ONLY <1>1, <1>2, <1>3, IInv, p \in Providers, OthersStaySound

LEMMA CreateKeeps ==
  ASSUME IInv, NEW p \in Providers, Create(p)
  PROVE  IInv'
<1> USE DEF IInv, TypeOK, Create, Creatable, There, MakeNode, Advance, After
<1>1. ActsAlone(p)
  <2>1. /\ step' = [step EXCEPT ![p] = After[@]] /\ absent' = [absent EXCEPT ![p] = FALSE]
        /\ owner' = [owner EXCEPT ![p] = "own"] \/ owner' = owner
        /\ UNCHANGED <<unsure, session, caller>>
    BY DEF Create
  <2> QED BY ONLY <2>1, TypeOK DEF TypeOK, ActsAlone
<1>2. TypeOK'
  <2>1. step[p] \in Paths /\ step[p] \in {"service", "method", "node"}
    BY DEF Sound, Paths
  <2>2. /\ step' \in [Providers -> Paths \cup {"down", "hung", "serving"}]
        /\ absent' \in [Providers -> BOOLEAN]
    BY <2>1 DEF Paths
  <2>3. shared' \subseteq shared \cup ({step[p]} \ {"node"})
    BY <2>1
  <2>4. /\ shared' \subseteq Paths \ {"node"}
        /\ owner' = [owner EXCEPT ![p] = "own"] \/ owner' = owner
    BY <2>1, <2>3
  <2>5. owner' \in [Providers -> {"none", "own", "old"}]
    BY ONLY <2>4, TypeOK DEF TypeOK
  <2> QED BY <2>2, <2>4, <2>5 DEF caller
<1>3. Sound(p)'
  BY DEF Sound, Paths
<1> QED BY ONLY <1>1, <1>2, <1>3, IInv, p \in Providers, OthersStaySound

LEMMA CreateRefusedKeeps ==
  ASSUME IInv, NEW p \in Providers, CreateRefused(p)
  PROVE  IInv'
<1> USE DEF IInv, TypeOK, CreateRefused, Gone, Orphaned
<1>1. ActsAlone(p)
  BY DEF ActsAlone
<1>2. TypeOK'
  BY DEF Sound, Paths, caller
<1>3. Sound(p)'
  BY DEF Sound, Paths
<1> QED BY ONLY <1>1, <1>2, <1>3, IInv, p \in Providers, OthersStaySound

LEMMA CreateUnansweredKeeps ==
  ASSUME IInv, NEW p \in Providers, CreateUnanswered(p)
  PROVE  IInv'
<1> USE DEF IInv, TypeOK, CreateUnanswered, Creatable, There, Gone, Fault
<1>1. ActsAlone(p)
  <2>1. /\ step' = [step EXCEPT ![p] = "down"] /\ absent' = [absent EXCEPT ![p] = FALSE]
        /\ session' = [session EXCEPT ![p] = "none"]
        /\ \A q \in Providers \ {p} : owner'[q] = owner[q]
        /\ UNCHANGED <<unsure, caller>>
    BY DEF CreateUnanswered
  <2> QED BY ONLY <2>1, TypeOK DEF TypeOK, ActsAlone
<1>2. TypeOK'
  <2>1. step[p] \in Paths /\ step[p] \in {"service", "method", "node"}
    BY DEF Sound, Paths
  <2>2. /\ step' \in [Providers -> Paths \cup {"down", "hung", "serving"}]
        /\ absent' \in [Providers -> BOOLEAN]
    BY <2>1 DEF Paths
  <2>3. shared' \subseteq shared \cup ({step[p]} \ {"node"})
    BY <2>1
  <2>4. /\ shared' \subseteq Paths \ {"node"}
        /\ owner' \in [Providers -> {"none", "own", "old"}]
    BY <2>1, <2>3
  <2> QED BY <2>2, <2>4 DEF caller
<1>3. Sound(p)'
  BY DEF Sound, Paths
<1> QED BY ONLY <1>1, <1>2, <1>3, IInv, p \in Providers, OthersStaySound

LEMMA CrashKeeps ==
  ASSUME IInv, NEW p \in Providers, Crash(p)
  PROVE  IInv'
<1> USE DEF IInv, TypeOK, Crash, Gone, Orphaned, Fault
<1>1. ActsAlone(p)
  BY DEF ActsAlone
<1>2. TypeOK'
  BY DEF Sound, Paths, caller
<1>3. Sound(p)'
  BY DEF Sound, Paths
<1> QED BY ONLY <1>1, <1>2, <1>3, IInv, p \in Providers, OthersStaySound

LEMMA LoseSessionKeeps ==
  ASSUME IInv, NEW p \in Providers, LoseSession(p)
  PROVE  IInv'
<1> USE DEF IInv, TypeOK, LoseSession, Fault
<1>1. ActsAlone(p)
  BY DEF ActsAlone
<1>2. TypeOK'
  BY DEF Sound, Paths, caller
<1>3. Sound(p)'
  BY DEF Sound, Paths
<1> QED BY ONLY <1>1, <1>2, <1>3, IInv, p \in Providers, OthersStaySound

LEMMA ExpireOldKeeps ==
  ASSUME IInv, NEW p \in Providers, ExpireOld(p)
  PROVE  IInv'
<1> USE DEF IInv, TypeOK, ExpireOld
<1>1. ActsAlone(p)
  BY DEF ActsAlone
<1>2. TypeOK'
  BY DEF Sound, Paths, caller
<1>3. Sound(p)'
  BY DEF Sound, Paths
<1> QED BY ONLY <1>1, <1>2, <1>3, IInv, p \in Providers, OthersStaySound

\* What CallMethod does to the ring: leave it, or fill it with what is listed.
\* It stays empty only if nobody is listed or ZooKeeper did not answer.
LEMMA UseRingFacts ==
  ASSUME IInv, UseRing
  PROVE  /\ ring' \in Rings /\ faults' \in 0..MaxFaults
         /\ \/ Taken(ring') # {}
            \/ Taken(ring) = {} /\ (Listed = {} \/ faults' # faults)
<1>1. CASE Taken(ring) # {}
  BY <1>1 DEF UseRing, IInv, TypeOK
<1>2. CASE Taken(ring) = {}
  <2>1. PICK nodes \in {Listed, {}} : GetChildren(nodes) /\ Fill(nodes)
    BY <1>2 DEF UseRing
  <2>2. nodes \in SUBSET Providers
    BY <2>1 DEF Listed
  <2>3. PICK order \in SetToSeqs(nodes) : ring' = AddAll(at, order)
    BY <2>1 DEF Fill
  <2>4. ring' \in Rings /\ (nodes # {} => Taken(ring') # {})
    BY <2>2, <2>3, AddAllFacts DEF IInv, Placed
  <2>5. /\ faults' \in 0..MaxFaults
        /\ nodes = Listed \/ faults' # faults
    BY <2>1 DEF GetChildren, Fault, IInv, TypeOK
  <2> QED BY <1>2, <2>4, <2>5
<1> QED BY <1>1, <1>2

LEMMA GatewayKeeps ==
  ASSUME IInv, Gateway \/ GatewayHangs
  PROVE  IInv'
<1>1. UNCHANGED <<provider, at>>
  BY DEF Gateway, ListProviders, AskForTools, FinishSync, CallTool, GatewayHangs
<1>2. \A nodes \in SUBSET Providers :
        Cardinality(nodes) \in 0..Cardinality(Providers) /\ Cardinality(Providers) \in Nat
  BY FS_Subset, FS_CardinalityType
<1>3. TypeOK'
  <2>1. CASE ListProviders
    <3>1. PICK nodes \in {Listed, {}} :
            /\ GetChildren(nodes)
            /\ left' = Cardinality(nodes)
            /\ steady' = {p \in nodes : step[p] = "serving"}
      BY <2>1 DEF ListProviders
    <3>2. nodes \in SUBSET Providers /\ left' \in 0..Cardinality(Providers)
      BY <1>2, <3>1 DEF Listed
    <3>3. faults' \in 0..MaxFaults
      BY <3>1 DEF GetChildren, Fault, IInv, TypeOK
    <3> QED BY <1>1, <2>1, <3>1, <3>2, <3>3 DEF ListProviders, IInv, TypeOK, provider
  <2>2. CASE AskForTools
    <3>1. ring' \in Rings /\ faults' \in 0..MaxFaults
      BY <2>2, UseRingFacts DEF AskForTools
    <3>2. 0 \in Points
      BY DEF Points
    <3>3. GetNode(ring', 0) \in Providers \cup {Nobody}
      BY <3>1, <3>2, GetNodeType
    <3>4. tools' \subseteq Providers
      BY <2>2, <3>3 DEF AskForTools, ListKey, IInv, TypeOK
    <3>5. left' \in 0..Cardinality(Providers)
      BY <1>2, <2>2 DEF AskForTools, IInv, TypeOK
    <3> QED BY <1>1, <2>2, <3>1, <3>4, <3>5 DEF AskForTools, IInv, TypeOK, provider
  <2>3. CASE FinishSync
    BY <1>1, <2>3 DEF FinishSync, IInv, TypeOK, provider
  <2>4. CASE CallTool
    <3>1. ring' \in Rings /\ faults' \in 0..MaxFaults
      BY <2>4, UseRingFacts DEF CallTool
    <3> QED BY <1>1, <2>4, <3>1 DEF CallTool, IInv, TypeOK, provider
  <2>5. CASE GatewayHangs
    BY <1>1, <2>5 DEF GatewayHangs, Fault, IInv, TypeOK, provider
  <2> QED BY <2>1, <2>2, <2>3, <2>4, <2>5 DEF Gateway
<1>4. \A p \in Providers : Sound(p)'
  BY <1>1 DEF IInv, Sound, provider
<1> QED BY <1>1, <1>3, <1>4 DEF IInv, Placed

LEMMA StepInvariant == IInv /\ [Next]_vars => IInv'
<1> SUFFICES ASSUME IInv, [Next]_vars PROVE IInv'
  OBVIOUS
<1>1. ASSUME NEW p \in Providers, Register(p) PROVE IInv'
  BY <1>1, StartKeeps, ExistsKeeps, CreateKeeps, CreateRefusedKeeps DEF Register
<1>2. ASSUME NEW p \in Providers, ExistsFails(p) PROVE IInv'
  BY <1>2, ExistsFailsKeeps
<1>3. ASSUME NEW p \in Providers, CreateUnanswered(p) PROVE IInv'
  BY <1>3, CreateUnansweredKeeps
<1>4. ASSUME NEW p \in Providers, Crash(p) PROVE IInv'
  BY <1>4, CrashKeeps
<1>5. ASSUME NEW p \in Providers, LoseSession(p) PROVE IInv'
  BY <1>5, LoseSessionKeeps
<1>6. ASSUME NEW p \in Providers, ExpireOld(p) PROVE IInv'
  BY <1>6, ExpireOldKeeps
<1>7. CASE Gateway \/ GatewayHangs
  BY <1>7, GatewayKeeps
<1>8. CASE UNCHANGED vars
  BY <1>8 DEF vars, provider, caller, IInv, TypeOK, Placed, Sound
<1> QED BY <1>1, <1>2, <1>3, <1>4, <1>5, <1>6, <1>7, <1>8 DEF Next

-----------------------------------------------------------------------------
(* The properties.                                                         *)

\* The inductive invariant holds throughout.
THEOREM Invariant == Spec => []IInv
<1>1. Init => IInv
  BY InitInvariant
<1>2. IInv /\ [Next]_vars => IInv'
  BY StepInvariant
<1> QED BY <1>1, <1>2, PTL DEF Spec

\* The variables of providers, ZooKeeper and the gateway keep their types: the
\* ring is filled with providers only, whatever the order they are listed in.
THEOREM TypeCorrect == Spec => []TypeOK
<1>1. IInv => TypeOK
  BY DEF IInv
<1> QED BY <1>1, Invariant, PTL

\* A provider that logged its registration, serves and has its session is
\* listed in the name of that session, whatever crashes, refusals and lost
\* sessions went before, if whoever restarts a provider waits for ZooKeeper to
\* end its old session (and ZooKeeper answered it about its node).
THEOREM ServingListed ==
  ASSUME Patient
  PROVE  Spec => []ServingIsListed
<1>1. IInv => ServingIsListed
  BY DEF IInv, Sound, ServingIsListed
<1> QED BY <1>1, Invariant, PTL

\* A call that does not hang in ZkClient::Start has a provider to go to, whatever
\* its key, whatever collisions there are on the ring and whatever faults went
\* before.  It goes without only while the ring has never been filled, because
\* no provider is listed or GetChildren failed.
THEOREM CallsFindAHome == Spec => CallsHaveAHome
<1>1. IInv /\ [Next]_vars =>
        [AskForTools \/ CallTool =>
           \/ \A x \in Points : GetNode(ring', x) \in Providers
           \/ Taken(ring) = {} /\ (Listed = {} \/ faults' # faults)]_vars
  <2> SUFFICES ASSUME IInv, AskForTools \/ CallTool,
                      ~(Taken(ring) = {} /\ (Listed = {} \/ faults' # faults)),
                      NEW x \in Points
               PROVE  GetNode(ring', x) \in Providers
    OBVIOUS
  <2>1. ring' \in Rings /\ Taken(ring') # {}
    BY UseRingFacts DEF AskForTools, CallTool
  <2> QED BY <2>1, GetNodeType
<1> QED BY <1>1, Invariant, PTL DEF Spec, CallsHaveAHome
=============================================================================
