--------------------------- MODULE KeyMutexProofs ---------------------------
(***************************************************************************)
(* Theorems about KeyMutex and about the two engines modelled on it, for   *)
(* any sets of calls, keys and requests.  The mutex excludes, keeps call   *)
(* order and implements FifoLock.  InventoryStock: a key never gets two    *)
(* stock levels, no section overwrites another's effect, no quantity is    *)
(* ever negative, and the engine implements StockBook.  ResourcePlanning:  *)
(* nobody is loaded beyond the capacity asked for, and a closed assignment *)
(* becomes active again only through an update that holds a stale copy.    *)
(***************************************************************************)
EXTENDS InventoryStock, ResourcePlanning, SequenceTheorems, SetSums

\* The chain: whatever a call waits for, directly or through its predecessor,
\* is exactly what was called before it for its key.
ChainInv ==
    \A c \in Calls : state[c] # "idle" =>
        /\ \A d \in earlier[c] : state[d] # "idle" /\ key[d] = key[c] /\ d # c
        /\ previous[c] = NoCall => \A d \in earlier[c] : state[d] = "settled"
        /\ previous[c] # NoCall =>
              /\ previous[c] \in earlier[c]
              /\ earlier[c] \subseteq earlier[previous[c]] \cup {previous[c]}

\* Of two calls for one key, one was made first.
OrderInv ==
    \A c, d \in Calls :
        state[c] # "idle" /\ state[d] # "idle" /\ key[c] = key[d] /\ c # d
            => c \in earlier[d] \/ d \in earlier[c]

\* A missing tail entry means that nothing of the key is pending.
TailInv ==
    \A k \in Keys : tail[k] = NoCall =>
        \A d \in Calls : state[d] # "idle" /\ key[d] = k => state[d] = "settled"

\* CallOrder is inductive together with what the chain records.
MutexInv ==
    /\ MutexTypeOK
    /\ ChainInv
    /\ OrderInv
    /\ TailInv
    /\ TailIsNewest
    /\ CallOrder
LEMMA InitMutexInv == MutexInit => MutexInv
  <1> SUFFICES ASSUME MutexInit PROVE MutexInv
    OBVIOUS
  <1>1. MutexTypeOK
    BY KeysAssumption DEF MutexInit, MutexTypeOK, CallStates
  <1>2. ChainInv /\ OrderInv /\ TailInv /\ TailIsNewest /\ CallOrder
    BY DEF MutexInit, ChainInv, OrderInv, TailInv, TailIsNewest, CallOrder
  <1>3. QED
    BY <1>1, <1>2 DEF MutexInv

LEMMA RunExclusiveKeepsInv ==
    ASSUME MutexInv, NEW c \in Calls, NEW k \in Keys, RunExclusive(c, k)
    PROVE  MutexInv'
  <1> USE DEF MutexInv, MutexTypeOK, CallStates
  <1>1. MutexTypeOK'
    BY DEF RunExclusive
  <1>2. ASSUME NEW d \in Calls, state[d] # "idle"
        PROVE  /\ d # c /\ state'[d] = state[d] /\ key'[d] = key[d]
               /\ previous'[d] = previous[d] /\ earlier'[d] = earlier[d]
               /\ c \notin earlier[d]
    BY <1>2 DEF RunExclusive, ChainInv
  <1>3. ASSUME NEW d \in Calls, d # c, state'[d] # "idle"
        PROVE  state[d] # "idle"
    BY <1>3 DEF RunExclusive
  <1>4. /\ state'[c] = "queued" /\ key'[c] = k /\ previous'[c] = tail[k]
        /\ earlier'[c] = {d \in Calls : state[d] # "idle" /\ key[d] = k}
        /\ tail' = [tail EXCEPT ![k] = c] /\ state[c] = "idle"
    BY DEF RunExclusive
  <1>5. ChainInv'
    <2> SUFFICES ASSUME NEW d \in Calls, state'[d] # "idle"
                 PROVE  ChainInv!(d)!2'
      BY DEF ChainInv
    <2>1. CASE d = c
      <3>1. \A e \in earlier'[c] : state'[e] # "idle" /\ key'[e] = k /\ e # c
        BY <1>2, <1>4
      <3>2. CASE tail[k] = NoCall
        BY <2>1, <3>1, <3>2, <1>2, <1>4 DEF TailInv
      <3>3. CASE tail[k] # NoCall
        <4>1. tail[k] \in Calls /\ state[tail[k]] # "idle" /\ key[tail[k]] = k
          BY <3>3 DEF TailIsNewest
        <4>2. earlier'[c] \subseteq earlier'[tail[k]] \cup {tail[k]}
          BY <3>3, <4>1, <1>2, <1>4 DEF TailIsNewest
        <4>3. QED
          BY <2>1, <3>1, <3>3, <4>1, <4>2, <1>4, NoCallAssumption
      <3>4. QED
        BY <3>2, <3>3
    <2>2. CASE d # c
      <3>1. state[d] # "idle"
        BY <2>2, <1>3
      <3>2. \A e \in earlier[d] : e \in Calls /\ state[e] # "idle"
        BY <3>1 DEF ChainInv
      <3>3. previous[d] # NoCall =>
               previous[d] \in earlier[d] /\ earlier'[previous[d]] = earlier[previous[d]]
        BY <3>1, <3>2, <1>2 DEF ChainInv
      <3>4. \A e \in earlier[d] : state'[e] = state[e] /\ key'[e] = key[e]
        BY <3>2, <1>2
      <3>5. QED
        BY <3>1, <3>2, <3>3, <3>4, <1>2 DEF ChainInv
    <2>3. QED
      BY <2>1, <2>2
  <1>6. OrderInv'
    BY <1>2, <1>3, <1>4 DEF OrderInv
  <1>7. TailInv'
    BY <1>2, <1>3, <1>4, NoCallAssumption DEF TailInv
  <1>8. TailIsNewest'
    <2> SUFFICES ASSUME NEW j \in Keys, tail'[j] # NoCall
                 PROVE  TailIsNewest!(j)!2'
      BY DEF TailIsNewest
    <2>1. CASE j = k
      BY <2>1, <1>2, <1>3, <1>4
    <2>2. CASE j # k
      BY <2>2, <1>2, <1>3, <1>4 DEF TailIsNewest
    <2>3. QED
      BY <2>1, <2>2
  <1>9. CallOrder'
    <2> SUFFICES ASSUME NEW d \in Calls, NEW e \in earlier'[d],
                        state'[d] \in {"running", "settling", "settled"}
                 PROVE  state'[e] = "settled"
      BY DEF CallOrder
    <2>1. d # c /\ state[d] # "idle"
      BY <1>3, <1>4
    <2>2. e \in earlier[d] /\ e \in Calls /\ state[e] = "settled"
      BY <2>1, <1>2 DEF CallOrder
    <2>3. QED
      BY <2>2, <1>2
  <1>10. QED
    BY <1>1, <1>5, <1>6, <1>7, <1>8, <1>9 DEF MutexInv

LEMMA BeginKeepsInv ==
    ASSUME MutexInv, NEW c \in Calls, Begin(c)
    PROVE  MutexInv'
  <1> USE DEF MutexInv, MutexTypeOK, CallStates, Begin
  <1>1. MutexTypeOK'
    OBVIOUS
  <1>2. \A d \in Calls : /\ state'[d] = "idle" <=> state[d] = "idle"
                         /\ state'[d] = "settled" <=> state[d] = "settled"
    OBVIOUS
  <1>3. ChainInv' /\ OrderInv' /\ TailInv' /\ TailIsNewest'
    BY <1>1, <1>2 DEF ChainInv, OrderInv, TailInv, TailIsNewest
  <1>4. \A d \in earlier[c] : state[d] = "settled"
    <2>1. CASE previous[c] = NoCall
      BY <2>1 DEF ChainInv
    <2>2. CASE previous[c] # NoCall
      BY <2>2 DEF ChainInv, CallOrder
    <2>3. QED
      BY <2>1, <2>2
  <1>5. CallOrder'
    BY <1>1, <1>2, <1>4 DEF CallOrder
  <1>6. QED
    BY <1>1, <1>3, <1>5 DEF MutexInv

LEMMA FinishKeepsInv ==
    ASSUME MutexInv, NEW c \in Calls, Finish(c)
    PROVE  MutexInv'
  <1> USE DEF MutexInv, MutexTypeOK, CallStates, Finish
  <1>1. MutexTypeOK'
    OBVIOUS
  <1>2. \A d \in Calls : /\ state'[d] = "idle" <=> state[d] = "idle"
                         /\ state'[d] = "settled" <=> state[d] = "settled"
    OBVIOUS
  <1>3. ChainInv' /\ OrderInv' /\ TailInv' /\ TailIsNewest' /\ CallOrder'
    BY <1>1, <1>2 DEF ChainInv, OrderInv, TailInv, TailIsNewest, CallOrder
  <1>4. QED
    BY <1>1, <1>3 DEF MutexInv

LEMMA SettleKeepsInv ==
    ASSUME MutexInv, NEW c \in Calls, Settle(c)
    PROVE  MutexInv'
  <1> USE DEF MutexInv, MutexTypeOK, CallStates, Settle
  <1>1. MutexTypeOK'
    OBVIOUS
  <1>2. \A d \in Calls : /\ state'[d] = "idle" <=> state[d] = "idle"
                         /\ state'[d] = "settled" <=> state[d] = "settled" \/ d = c
    OBVIOUS
  <1>3. ChainInv' /\ OrderInv' /\ CallOrder'
    BY <1>1, <1>2 DEF ChainInv, OrderInv, CallOrder
  <1>4. \A k \in Keys : tail'[k] = tail[k] \/ (k = key[c] /\ tail[k] = c /\ tail'[k] = NoCall)
    OBVIOUS
  <1>5. TailInv'
    BY <1>2, <1>4 DEF TailInv, TailIsNewest, CallOrder
  <1>6. TailIsNewest'
    <2> SUFFICES ASSUME NEW k \in Keys, tail'[k] # NoCall
                 PROVE  TailIsNewest!(k)!2'
      BY DEF TailIsNewest
    <2>1. tail'[k] = tail[k] /\ tail[k] # c
      BY NoCallAssumption DEF TailIsNewest
    <2>2. QED
      BY <2>1, <1>2 DEF TailIsNewest
  <1>7. QED
    BY <1>1, <1>3, <1>5, <1>6 DEF MutexInv

LEMMA MutexStepKeepsInv == MutexInv /\ [MutexNext]_mutexVars => MutexInv'
  <1> SUFFICES ASSUME MutexInv, [MutexNext]_mutexVars PROVE MutexInv'
    OBVIOUS
  <1>1. ASSUME NEW c \in Calls, NEW k \in Keys, RunExclusive(c, k) PROVE MutexInv'
    BY <1>1, RunExclusiveKeepsInv
  <1>2. ASSUME NEW c \in Calls, Begin(c) PROVE MutexInv'
    BY <1>2, BeginKeepsInv
  <1>3. ASSUME NEW c \in Calls, Finish(c) PROVE MutexInv'
    BY <1>3, FinishKeepsInv
  <1>4. ASSUME NEW c \in Calls, Settle(c) PROVE MutexInv'
    BY <1>4, SettleKeepsInv
  <1>5. CASE UNCHANGED mutexVars
    BY <1>5 DEF mutexVars, MutexInv, MutexTypeOK, ChainInv, OrderInv, TailInv,
                TailIsNewest, CallOrder
  <1>6. QED
    BY <1>1, <1>2, <1>3, <1>4, <1>5 DEF MutexNext

\* Two started, unsettled calls of one key would each have been made first.
LEMMA MutexInvExcludes == MutexInv => MutualExclusion
  <1> SUFFICES ASSUME MutexInv, NEW c \in Calls, NEW d \in Calls,
                      InSection(c), InSection(d), key[c] = key[d], c # d
               PROVE  FALSE
    BY DEF MutualExclusion
  <1>1. c \in earlier[d] \/ d \in earlier[c]
    BY DEF MutexInv, OrderInv, InSection
  <1>2. QED
    BY <1>1 DEF MutexInv, CallOrder, InSection

\* Every reachable state of the chain satisfies the inductive invariant.
THEOREM MutexInvariant == MutexSpec => []MutexInv
  BY InitMutexInv, MutexStepKeepsInv, PTL DEF MutexSpec

\* The types of the mutex, for any calls and keys.
THEOREM MutexTypes == MutexSpec => []MutexTypeOK
  <1>1. MutexInv => MutexTypeOK
    BY DEF MutexInv
  <1>2. QED
    BY <1>1, MutexInvariant, PTL

\* runExclusive runs the functions of one key one at a time, however many
\* callers contend and whatever the functions' outcomes.
THEOREM MutexExcludes == MutexSpec => []MutualExclusion
  BY MutexInvExcludes, MutexInvariant, PTL

\* ... in the order of the calls, and the map entry of a key is its newest
\* pending call.
THEOREM MutexIsFair == MutexSpec => [](CallOrder /\ TailIsNewest)
  <1>1. MutexInv => CallOrder /\ TailIsNewest
    BY DEF MutexInv
  <1>2. QED
    BY <1>1, MutexInvariant, PTL

-----------------------------------------------------------------------------
(***************************************************************************)
(* The chain implements FifoLock.  The queue of a key enumerates its       *)
(* unsettled calls in call order, and there is one way only to do that: a  *)
(* position is one more than the number of calls before it.                *)
(***************************************************************************)

Enumerates(q, S, before) ==
    /\ q \in [1..Cardinality(S) -> S]
    /\ \A i, j \in DOMAIN q : i < j <=> q[i] \in before[q[j]]

LEMMA EnumerationIsOnto ==
    ASSUME NEW S, NEW before, NEW q, IsFiniteSet(S), Enumerates(q, S, before)
    PROVE  /\ Cardinality(S) \in Nat
           /\ \A i, j \in 1..Cardinality(S) : q[i] = q[j] => i = j
           /\ \A s \in S : \E i \in 1..Cardinality(S) : q[i] = s
  <1> DEFINE n == Cardinality(S)
  <1>1. n \in Nat
    BY FS_CardinalityType
  <1>2. ASSUME NEW i \in 1..n, NEW j \in 1..n, q[i] = q[j] PROVE i = j
    BY <1>1, <1>2 DEF Enumerates
  <1>3. q \in Injection(1..n, S)
    BY <1>2 DEF Injection, IsInjective, Enumerates
  <1>4. IsFiniteSet(1..n) /\ Cardinality(1..n) = n
    BY <1>1, FS_Interval
  <1>5. q \in Surjection(1..n, S)
    BY <1>3, <1>4, FS_Injection
  <1>6. QED
    BY <1>1, <1>2, <1>5 DEF Surjection

LEMMA PositionIsCount ==
    ASSUME NEW S, NEW before, NEW q, IsFiniteSet(S), Enumerates(q, S, before),
           NEW i \in 1..Cardinality(S)
    PROVE  Cardinality({s \in S : s \in before[q[i]]}) = i - 1
  <1> DEFINE n == Cardinality(S)
             T == {s \in S : s \in before[q[i]]}
             g == [j \in 1..(i - 1) |-> q[j]]
  <1>1. /\ n \in Nat /\ \A j, k \in 1..n : q[j] = q[k] => j = k
        /\ \A s \in S : \E j \in 1..n : q[j] = s
    BY EnumerationIsOnto
  <1>2. i - 1 \in Nat /\ \A j \in 1..(i - 1) : j \in 1..n /\ j < i
    BY <1>1
  <1>3. \A j \in 1..n : q[j] \in S /\ (j < i <=> q[j] \in before[q[i]])
    BY DEF Enumerates
  <1>4. \A j \in 1..(i - 1) : g[j] \in T
    BY <1>2, <1>3
  <1>5. \A s \in T : \E j \in 1..(i - 1) : g[j] = s
    <2> SUFFICES ASSUME NEW s \in T PROVE \E j \in 1..(i - 1) : g[j] = s
      OBVIOUS
    <2>1. PICK j \in 1..n : q[j] = s
      BY <1>1
    <2>2. j < i
      BY <2>1, <1>3
    <2>3. QED
      BY <2>1, <2>2, <1>1
  <1>6. \A j, k \in 1..(i - 1) : g[j] = g[k] => j = k
    BY <1>1, <1>2
  <1>7. g \in Bijection(1..(i - 1), T)
    <2>1. g \in [1..(i - 1) -> T]
      BY <1>4
    <2> HIDE DEF g, T
    <2>2. QED
      BY <2>1, <1>5, <1>6 DEF Bijection, Injection, IsInjective, Surjection
  <1>8. QED
    BY <1>2, <1>7, FS_CountingElements DEF ExistsBijection

LEMMA EnumerationIsUnique ==
    ASSUME NEW S, NEW before, NEW p, NEW q, IsFiniteSet(S),
           Enumerates(p, S, before), Enumerates(q, S, before)
    PROVE  p = q
  <1> DEFINE n == Cardinality(S)
  <1>1. p \in [1..n -> S] /\ q \in [1..n -> S]
    BY DEF Enumerates
  <1>2. ASSUME NEW i \in 1..n PROVE p[i] = q[i]
    <2>1. PICK j \in 1..n : q[j] = p[i]
      BY <1>1, EnumerationIsOnto
    <2>2. Cardinality({s \in S : s \in before[p[i]]}) = i - 1
      BY PositionIsCount
    <2>3. Cardinality({s \in S : s \in before[q[j]]}) = j - 1
      BY PositionIsCount
    <2>4. n \in Nat
      BY EnumerationIsOnto
    <2>5. QED
      BY <2>1, <2>2, <2>3, <2>4
  <1> HIDE DEF n
  <1>3. \A i \in 1..n : p[i] = q[i]
    BY <1>2
  <1>4. p = [i \in 1..n |-> p[i]] /\ q = [i \in 1..n |-> q[i]]
    BY <1>1
  <1>5. QED
    BY <1>3, <1>4

LEMMA EnumerationIs ==
    ASSUME NEW S, NEW before, NEW q, IsFiniteSet(S), Enumerates(q, S, before)
    PROVE  Enumeration(S, before) = q
  <1>1. Enumerates(Enumeration(S, before), S, before)
    BY DEF Enumeration, Enumerates
  <1>2. QED
    BY <1>1, EnumerationIsUnique

LEMMA ArrivalIsLast ==
    ASSUME NEW S, NEW before, NEW after, NEW q, NEW c, IsFiniteSet(S),
           Enumerates(q, S, before), c \notin S,
           \A s \in S : after[s] = before[s] /\ c \notin after[s],
           S \subseteq after[c], c \notin after[c]
    PROVE  Enumerates(Append(q, c), S \cup {c}, after)
  <1> DEFINE n == Cardinality(S)
             r == Append(q, c)
  <1>1. n \in Nat /\ Cardinality(S \cup {c}) = n + 1
    BY FS_CardinalityType, FS_AddElement
  <1>2. q \in [1..n -> S] /\ q \in Seq(S) /\ Len(q) = n
    BY <1>1, SeqDef DEF Enumerates
  <1>3. /\ r \in [1..(n + 1) -> S \cup {c}] /\ r[n + 1] = c
        /\ \A i \in 1..n : r[i] = q[i]
    <2>1. q \in [1..n -> S \cup {c}]
      BY <1>2
    <2>2. q \in Seq(S \cup {c})
      BY <1>1, <2>1, SeqDef
    <2>3. /\ r \in Seq(S \cup {c}) /\ Len(r) = n + 1 /\ r[n + 1] = c
          /\ \A i \in 1..n : r[i] = q[i]
      BY <2>2, <1>2, AppendProperties
    <2> HIDE DEF r
    <2>4. QED
      BY <2>3, LenProperties
  <1>4. \A i, j \in 1..n : i < j <=> r[i] \in after[r[j]]
    BY <1>2, <1>3 DEF Enumerates
  <1>5. \A i \in 1..n : r[i] \in after[r[n + 1]] /\ r[n + 1] \notin after[r[i]]
    BY <1>2, <1>3
  <1>6. \A i, j \in 1..(n + 1) : i < j <=> r[i] \in after[r[j]]
    BY <1>1, <1>3, <1>4, <1>5
  <1>7. QED
    BY <1>1, <1>3, <1>6 DEF Enumerates

LEMMA FirstIsHead ==
    ASSUME NEW S, NEW before, NEW q, NEW c \in S, IsFiniteSet(S),
           Enumerates(q, S, before), \A s \in S : s \notin before[c]
    PROVE  /\ q \in Seq(S) /\ q # <<>> /\ Head(q) = c
           /\ Enumerates(Tail(q), S \ {c}, before)
  <1> DEFINE n == Cardinality(S)
             r == Tail(q)
  <1>1. /\ n \in Nat /\ \A j, k \in 1..n : q[j] = q[k] => j = k
        /\ \A s \in S : \E j \in 1..n : q[j] = s
    BY EnumerationIsOnto
  <1>2. PICK i \in 1..n : q[i] = c
    BY <1>1
  <1>3. q \in [1..n -> S] /\ q \in Seq(S) /\ Len(q) = n
    BY <1>1, SeqDef DEF Enumerates
  <1>4. \A j \in 1..n : ~ (j < i)
    BY <1>2, <1>3 DEF Enumerates
  <1>5. i = 1 /\ n >= 1
    BY <1>1, <1>2, <1>4
  <1>6. q # <<>> /\ Head(q) = c
    BY <1>2, <1>3, <1>5
  <1>7. Cardinality(S \ {c}) = n - 1 /\ n - 1 \in Nat
    <2>1. Cardinality(S \ {c}) = n - 1
      BY FS_RemoveElement
    <2>2. QED
      BY <2>1, <1>1, <1>5
  <1>8. r \in Seq(S) /\ Len(r) = n - 1 /\ \A j \in 1..(n - 1) : r[j] = q[j + 1]
    BY <1>3, <1>6
  <1>9. \A j \in 1..(n - 1) : j + 1 \in 1..n /\ q[j + 1] \in S \ {c}
    BY <1>1, <1>2, <1>3, <1>5
  <1>10. r \in [1..(n - 1) -> S \ {c}]
    <2> HIDE DEF r
    <2>1. r \in [1..(n - 1) -> S]
      BY <1>7, <1>8, LenProperties
    <2>2. QED
      BY <2>1, <1>8, <1>9
  <1>11. \A j, k \in 1..(n - 1) : j < k <=> r[j] \in before[r[k]]
    <2>1. \A j, k \in 1..n : j < k <=> q[j] \in before[q[k]]
      BY <1>3 DEF Enumerates
    <2> HIDE DEF r
    <2>2. \A j, k \in 1..(n - 1) : j < k <=> q[j + 1] \in before[q[k + 1]]
      <3>1. \A j, k \in 1..(n - 1) : j + 1 < k + 1 <=> q[j + 1] \in before[q[k + 1]]
        BY <2>1, <1>9
      <3>2. QED
        BY <3>1, <1>1
    <2>3. QED
      BY <2>2, <1>8
  <1>12. QED
    BY <1>3, <1>6, <1>7, <1>10, <1>11 DEF Enumerates

\* The unsettled calls of every key can be so enumerated.
QueueInv == \A k \in Keys : \E q : Enumerates(q, Unsettled(k), earlier)

LEMMA UnsettledIsFinite ==
    \A k : IsFiniteSet(Unsettled(k)) /\ IsFiniteSet(Unsettled(k)')
  <1>1. \A k : Unsettled(k) \in SUBSET Calls /\ Unsettled(k)' \in SUBSET Calls
    BY DEF Unsettled
  <1>2. QED
    BY <1>1, CallsAssumption, FS_Subset

LEMMA InitialQueues == MutexInit => Lock!Init /\ QueueInv
  <1> SUFFICES ASSUME MutexInit PROVE Lock!Init /\ QueueInv
    OBVIOUS
  <1>1. ASSUME NEW k \in Keys PROVE Unsettled(k) = {}
    BY DEF MutexInit, Unsettled
  <1>2. Enumerates(<<>>, {}, earlier)
    <2>1. Cardinality({}) = 0
      BY FS_EmptySet
    <2>2. <<>> \in [1..0 -> {}]
      OBVIOUS
    <2>3. QED
      BY <2>1, <2>2 DEF Enumerates
  <1>3. Enumeration({}, earlier) = <<>>
    BY <1>2, FS_EmptySet, EnumerationIs
  <1>4. [k \in Keys |-> Enumeration(Unsettled(k), earlier)] = [k \in Keys |-> <<>>]
    BY <1>1, <1>3
  <1>5. {c \in Calls : state[c] = "running"} = {}
        /\ {c \in Calls : state[c] \in {"settling", "settled"}} = {}
    BY DEF MutexInit
  <1>6. QED
    BY <1>1, <1>2, <1>4, <1>5 DEF Lock!Init, QueueInv

\* A call of runExclusive joins the queue of its key.
LEMMA RunExclusiveArrives ==
    ASSUME MutexInv, QueueInv, NEW c \in Calls, NEW k \in Keys, RunExclusive(c, k)
    PROVE  QueueInv' /\ Lock!Arrive(c, k)
  <1> DEFINE Q(j) == Enumeration(Unsettled(j), earlier)
  <1> USE DEF MutexInv, MutexTypeOK
  <1>1. /\ state[c] = "idle" /\ state' = [state EXCEPT ![c] = "queued"]
        /\ key' = [key EXCEPT ![c] = k] /\ c \in Calls /\ c \notin earlier'[c]
        /\ \A d \in Calls : d # c => earlier'[d] = earlier[d]
        /\ \A d \in Calls : state[d] # "idle" /\ key[d] = k => d \in earlier'[c]
    BY DEF RunExclusive
  <1>2. ASSUME NEW j \in Keys
        PROVE  /\ Enumerates(Q(j), Unsettled(j), earlier)
               /\ c \notin Unsettled(j)
               /\ \A s \in Unsettled(j) : earlier'[s] = earlier[s] /\ c \notin earlier'[s]
    <2>1. PICK q : Enumerates(q, Unsettled(j), earlier)
      BY DEF QueueInv
    <2>2. Q(j) = q
      BY <2>1, UnsettledIsFinite, EnumerationIs
    <2>3. \A s \in Unsettled(j) : s \in Calls /\ s # c /\ c \notin earlier[s]
      BY <1>1 DEF Unsettled, ChainInv
    <2>4. QED
      BY <2>1, <2>2, <2>3, <1>1
  <1>3. Unsettled(k)' = Unsettled(k) \cup {c}
    BY <1>1 DEF Unsettled
  <1>4. Unsettled(k) \subseteq earlier'[c]
    BY <1>1 DEF Unsettled
  <1>5. Enumerates(Append(Q(k), c), Unsettled(k)', earlier')
    BY <1>1, <1>2, <1>3, <1>4, UnsettledIsFinite, ArrivalIsLast
  <1>6. ASSUME NEW j \in Keys, j # k
        PROVE  Unsettled(j)' = Unsettled(j) /\ Enumerates(Q(j), Unsettled(j)', earlier')
    <2>1. Unsettled(j)' = Unsettled(j)
      BY <1>1, <1>6 DEF Unsettled
    <2>2. QED
      BY <2>1, <1>2 DEF Enumerates
  <1>7. QueueInv'
    BY <1>5, <1>6 DEF QueueInv
  <1>8. Q(k)' = Append(Q(k), c) /\ \A j \in Keys : j # k => Q(j)' = Q(j)
    BY <1>5, <1>6, UnsettledIsFinite, EnumerationIs
  <1>9. ~ Lock!Queued(c)
    <2> HIDE DEF Q
    <2>1. ASSUME NEW j \in Keys, NEW i \in 1..Len(Q(j)) PROVE Q(j)[i] # c
      <3>1. Q(j) \in [1..Cardinality(Unsettled(j)) -> Unsettled(j)]
            /\ Cardinality(Unsettled(j)) \in Nat
        BY <1>2, UnsettledIsFinite, FS_CardinalityType DEF Enumerates
      <3>2. Q(j)[i] \in Unsettled(j)
        BY <3>1, <2>1
      <3>3. QED
        BY <3>2, <1>2
    <2>2. QED
      BY <2>1 DEF Lock!Queued, Q
  <1>10. QED
    <2>1. c \notin {d \in Calls : state[d] \in {"settling", "settled"}}
      BY <1>1
    <2>2. {d \in Calls : state[d] = "running"}' = {d \in Calls : state[d] = "running"}
          /\ {d \in Calls : state[d] \in {"settling", "settled"}}'
               = {d \in Calls : state[d] \in {"settling", "settled"}}
      BY <1>1
    <2> HIDE DEF Q
    <2>3. [j \in Keys |-> Q(j)]' = [[j \in Keys |-> Q(j)] EXCEPT ![k] = Append(@, c)]
      BY <1>8
    <2>4. QED
      BY <1>7, <1>9, <2>1, <2>2, <2>3 DEF Lock!Arrive, Q

\* A call that waits for nothing more, or runs, is the head of its queue.
LEMMA StartableIsHead ==
    ASSUME MutexInv, QueueInv, NEW c \in Calls, state[c] \in {"queued", "running"},
           \A d \in earlier[c] : state[d] = "settled"
    PROVE  LET q == Enumeration(Unsettled(key[c]), earlier)
           IN  /\ key[c] \in Keys /\ Lock!AtHead(c, key[c])
               /\ Enumerates(Tail(q), Unsettled(key[c]) \ {c}, earlier)
  <1> DEFINE k == key[c]
             q == Enumeration(Unsettled(k), earlier)
  <1>1. k \in Keys
    BY DEF MutexInv, MutexTypeOK
  <1>2. PICK p : Enumerates(p, Unsettled(k), earlier)
    BY <1>1 DEF QueueInv
  <1>3. Enumerates(q, Unsettled(k), earlier)
    BY <1>2, UnsettledIsFinite, EnumerationIs
  <1>4. c \in Unsettled(k) /\ \A s \in Unsettled(k) : s \notin earlier[c]
    BY DEF Unsettled
  <1> HIDE DEF q, k
  <1>5. q # <<>> /\ Head(q) = c /\ Enumerates(Tail(q), Unsettled(k) \ {c}, earlier)
    BY <1>3, <1>4, UnsettledIsFinite, FirstIsHead
  <1>6. [j \in Keys |-> Enumeration(Unsettled(j), earlier)][k] = q
    BY <1>1 DEF q
  <1>7. Lock!AtHead(c, k)
    BY <1>5, <1>6 DEF Lock!AtHead
  <1>8. QED
    BY <1>1, <1>5, <1>7 DEF q, k

\* What starts takes the lock: it is the oldest of its queue.
LEMMA BeginTakes ==
    ASSUME MutexInv, QueueInv, NEW c \in Calls, Begin(c)
    PROVE  QueueInv' /\ \E k \in Keys : Lock!Take(c, k)
  <1>1. MutexInv'
    BY BeginKeepsInv
  <1>2. \A d \in earlier[c] : state'[d] = "settled" /\ d \in Calls
    BY <1>1 DEF MutexInv, MutexTypeOK, CallOrder, Begin
  <1>3. \A d \in earlier[c] : state[d] = "settled"
    BY <1>2 DEF Begin, MutexInv, MutexTypeOK
  <1>4. PICK k \in Keys : Lock!AtHead(c, k)
    BY <1>3, StartableIsHead DEF Begin
  <1>5. \A j : Unsettled(j)' = Unsettled(j)
    BY DEF Begin, Unsettled, MutexInv, MutexTypeOK
  <1>6. earlier' = earlier
    BY DEF Begin
  <1>7. QueueInv'
    BY <1>5, <1>6 DEF QueueInv
  <1>8. [j \in Keys |-> Enumeration(Unsettled(j), earlier)]'
           = [j \in Keys |-> Enumeration(Unsettled(j), earlier)]
    BY <1>5, <1>6
  <1>9. /\ c \notin {d \in Calls : state[d] = "running"}
        /\ {d \in Calls : state[d] = "running"}'
              = {d \in Calls : state[d] = "running"} \cup {c}
        /\ {d \in Calls : state[d] \in {"settling", "settled"}}'
              = {d \in Calls : state[d] \in {"settling", "settled"}}
    BY DEF Begin, MutexInv, MutexTypeOK
  <1>10. QED
    BY <1>4, <1>7, <1>8, <1>9 DEF Lock!Take

\* What finishes, with a result or an error, leaves.
LEMMA FinishLeaves ==
    ASSUME MutexInv, QueueInv, NEW c \in Calls, Finish(c)
    PROVE  QueueInv' /\ \E k \in Keys : Lock!Leave(c, k)
  <1> DEFINE Q(j) == Enumeration(Unsettled(j), earlier)
  <1>1. \A d \in earlier[c] : state[d] = "settled"
    BY DEF MutexInv, CallOrder, Finish
  <1>2. PICK k \in Keys : k = key[c] /\ Lock!AtHead(c, k)
                           /\ Enumerates(Tail(Q(k)), Unsettled(k) \ {c}, earlier)
    BY <1>1, StartableIsHead DEF Finish
  <1>3. Unsettled(k)' = Unsettled(k) \ {c} /\ \A j : j # k => Unsettled(j)' = Unsettled(j)
    BY <1>2 DEF Finish, Unsettled, MutexInv, MutexTypeOK
  <1>4. earlier' = earlier
    BY DEF Finish
  <1>5. QueueInv'
    BY <1>2, <1>3, <1>4 DEF QueueInv
  <1>6. Q(k)' = Tail(Q(k)) /\ \A j \in Keys : j # k => Q(j)' = Q(j)
    BY <1>2, <1>3, <1>4, UnsettledIsFinite, EnumerationIs
  <1>7. /\ c \in {d \in Calls : state[d] = "running"}
        /\ {d \in Calls : state[d] = "running"}'
              = {d \in Calls : state[d] = "running"} \ {c}
        /\ {d \in Calls : state[d] \in {"settling", "settled"}}'
              = {d \in Calls : state[d] \in {"settling", "settled"}} \cup {c}
    BY DEF Finish, MutexInv, MutexTypeOK
  <1> HIDE DEF Q
  <1>8. [j \in Keys |-> Q(j)]' = [[j \in Keys |-> Q(j)] EXCEPT ![k] = Tail(@)]
    BY <1>2, <1>6
  <1>9. QED
    BY <1>2, <1>5, <1>7, <1>8 DEF Lock!Leave, Q

\* The cleanup of the map changes nothing that the lock shows.
LEMMA UnseenStep ==
    ASSUME MutexInv, QueueInv,
           UNCHANGED mutexVars \/ \E c \in Calls : Settle(c)
    PROVE  QueueInv' /\ UNCHANGED Lock!vars
  <1>1. /\ earlier' = earlier /\ \A k : Unsettled(k)' = Unsettled(k)
        /\ {d \in Calls : state[d] = "running"}' = {d \in Calls : state[d] = "running"}
        /\ {d \in Calls : state[d] \in {"settling", "settled"}}'
              = {d \in Calls : state[d] \in {"settling", "settled"}}
    BY DEF mutexVars, Settle, Unsettled, MutexInv, MutexTypeOK
  <1>2. [j \in Keys |-> Enumeration(Unsettled(j), earlier)]'
           = [j \in Keys |-> Enumeration(Unsettled(j), earlier)]
    BY <1>1
  <1>3. QED
    BY <1>1, <1>2 DEF QueueInv, Lock!vars

LEMMA MutexStepIsLockStep ==
    MutexInv /\ QueueInv /\ [MutexNext]_mutexVars => QueueInv' /\ [Lock!Next]_(Lock!vars)
  <1> SUFFICES ASSUME MutexInv, QueueInv, [MutexNext]_mutexVars
               PROVE  QueueInv' /\ [Lock!Next]_(Lock!vars)
    OBVIOUS
  <1>1. ASSUME NEW c \in Calls, NEW k \in Keys, RunExclusive(c, k)
        PROVE  QueueInv' /\ Lock!Next
    BY <1>1, RunExclusiveArrives DEF Lock!Next
  <1>2. ASSUME NEW c \in Calls, Begin(c) PROVE QueueInv' /\ Lock!Next
    BY <1>2, BeginTakes DEF Lock!Next
  <1>3. ASSUME NEW c \in Calls, Finish(c) PROVE QueueInv' /\ Lock!Next
    BY <1>3, FinishLeaves DEF Lock!Next
  <1>4. CASE UNCHANGED mutexVars \/ \E c \in Calls : Settle(c)
    BY <1>4, UnseenStep
  <1>5. QED
    BY <1>1, <1>2, <1>3, <1>4 DEF MutexNext

\* The chain of promises is a first-come-first-served lock per key, for any
\* number of calls and keys.
THEOREM MutexImplementsLock == MutexSpec => ImplementsFifoLock
  <1>1. MutexSpec => [](MutexInv /\ QueueInv)
    BY InitMutexInv, MutexStepKeepsInv, InitialQueues, MutexStepIsLockStep, PTL DEF MutexSpec
  <1>2. QED
    BY <1>1, InitialQueues, MutexStepIsLockStep, PTL
       DEF MutexSpec, ImplementsFifoLock, Lock!Spec

-----------------------------------------------------------------------------
\* The inventory stock engine.

StockTypes ==
    /\ rows \in [Keys -> Seq(Level)]
    /\ operation \in [Calls -> Operations]
    /\ slot \in [Calls -> Nat]
    /\ copy \in [Calls -> Level]
    /\ outcome \in [Calls -> Outcomes]

\* How a call's outcome and slot follow its promise chain.
PhaseInv ==
    \A c \in Calls :
        /\ outcome[c] = "none" <=> state[c] = "idle"
        /\ state[c] \in {"idle", "queued"} => slot[c] = 0
        /\ state[c] = "queued" => outcome[c] = "pending"
        /\ state[c] \in {"settling", "settled"} => outcome[c] # "pending"
        /\ slot[c] \in {0, 1}

\* NoDuplicateLevel holds because a section that finds no row creates the only
\* one: no other section of the key runs between its lookup and its save.
StockInv ==
    /\ MutexInv
    /\ StockTypes
    /\ PhaseInv
    /\ NoDuplicateLevel
    /\ CopyIsCurrent

\* What an operation that is not refused saves is a stock level: no quantity
\* of it is negative.
LEMMA UpdatedIsLevel ==
    ASSUME NEW l \in Level, NEW op \in Operation, ~ Refused(l, op)
    PROVE  Updated(l, op) \in Level
  BY DEF Level, Operation, Kinds, Refused, Updated, FloorZero, Available

LEMMA ZeroIsLevel == ZeroLevel \in Level
  BY DEF ZeroLevel, Level

LEMMA OneLevel ==
    ASSUME NEW l \in Level
    PROVE  <<l>> \in Seq(Level) /\ Len(<<l>>) = 1 /\ <<l>>[1] = l /\ <<l>> # <<>>
  OBVIOUS

LEMMA ShortRow ==
    ASSUME NEW s \in Seq(Level), Len(s) <= 1, s # <<>>
    PROVE  Len(s) = 1 /\ s[1] \in Level
  <1>1. Len(s) \in Nat \ {0}
    BY EmptySeq
  <1>2. Len(s) = 1 /\ 1 \in 1..Len(s)
    BY <1>1
  <1>3. QED
    BY <1>2, ElementOfSeq

LEMMA PutRow ==
    ASSUME NEW f \in [Keys -> Seq(Level)], NEW k \in Keys, NEW s \in Seq(Level), Len(s) = 1
    PROVE  /\ [f EXCEPT ![k] = s] \in [Keys -> Seq(Level)]
           /\ [f EXCEPT ![k] = s][k] = s
           /\ Len([f EXCEPT ![k] = s][k]) = 1
           /\ \A j \in Keys : j # k => [f EXCEPT ![k] = s][j] = f[j]
  OBVIOUS

LEMMA InitStockInv == StockInit => StockInv
  <1> SUFFICES ASSUME StockInit PROVE StockInv
    OBVIOUS
  <1>1. MutexInv
    BY InitMutexInv DEF StockInit
  <1>2. \A k \in Keys : rows[k] = <<>> \/ \E l \in SeedLevels : rows[k] = <<l>>
    BY DEF StockInit
  <1>3. rows \in [Keys -> Seq(Level)] /\ NoDuplicateLevel
    <2>1. \A k \in Keys : rows[k] \in Seq(Level) /\ Len(rows[k]) <= 1
      <3>1. SUFFICES ASSUME NEW k \in Keys
                     PROVE  rows[k] \in Seq(Level) /\ Len(rows[k]) <= 1
        OBVIOUS
      <3>2. CASE rows[k] = <<>>
        BY <3>2, EmptySeq
      <3>3. ASSUME NEW l \in SeedLevels, rows[k] = <<l>>
            PROVE  rows[k] \in Seq(Level) /\ Len(rows[k]) <= 1
        BY <3>3, OneLevel, SeedAssumption
      <3>4. QED
        BY <3>2, <3>3, <1>2
    <2>2. rows = [k \in Keys |-> rows[k]]
      BY DEF StockInit
    <2>3. QED
      BY <2>1, <2>2 DEF NoDuplicateLevel
  <1>4. StockTypes
    BY <1>3, ZeroIsLevel, OperationsAssumption DEF StockInit, StockTypes, Outcomes
  <1>5. PhaseInv /\ CopyIsCurrent
    BY DEF StockInit, MutexInit, PhaseInv, CopyIsCurrent, Deciding
  <1>6. QED
    BY <1>1, <1>3, <1>4, <1>5 DEF StockInv

\* While c is in its section no other call of its key is.
LEMMA AloneInSection ==
    ASSUME StockInv, NEW c \in Calls, NEW d \in Calls,
           state[c] = "running", state[d] = "running", key[c] = key[d]
    PROVE  c = d
  BY MutexInvExcludes DEF StockInv, MutualExclusion, InSection

LEMMA RequestKeepsInv ==
    ASSUME StockInv, NEW c \in Calls, NEW k \in Keys, NEW op \in Operations,
           Request(c, k, op)
    PROVE  StockInv'
  <1> USE DEF StockInv, Request
  <1>1. MutexInv'
    BY RunExclusiveKeepsInv
  <1>2. state' = [state EXCEPT ![c] = "queued"] /\ key' = [key EXCEPT ![c] = k] /\ state[c] = "idle"
    BY DEF RunExclusive
  <1>3. state \in [Calls -> CallStates] /\ key \in [Calls -> Keys]
    BY DEF MutexInv, MutexTypeOK
  <1>4. StockTypes'
    BY DEF StockTypes, Outcomes
  <1>5. PhaseInv'
    BY <1>2, <1>3 DEF PhaseInv, StockTypes
  <1>6. NoDuplicateLevel'
    BY DEF NoDuplicateLevel
  <1>7. CopyIsCurrent'
    BY <1>2, <1>3 DEF CopyIsCurrent, Deciding, StockTypes
  <1>8. QED
    BY <1>1, <1>4, <1>5, <1>6, <1>7

LEMMA ReadLevelKeepsInv ==
    ASSUME StockInv, NEW c \in Calls, ReadLevel(c)
    PROVE  StockInv'
  <1> USE DEF StockInv, ReadLevel
  <1>1. MutexInv'
    BY BeginKeepsInv
  <1>2. state[c] = "queued" /\ state' = [state EXCEPT ![c] = "running"] /\ key' = key
    BY DEF Begin
  <1>3. state \in [Calls -> CallStates] /\ key \in [Calls -> Keys]
    BY DEF MutexInv, MutexTypeOK
  <1>4. rows[key[c]] # <<>> => Len(rows[key[c]]) = 1 /\ rows[key[c]][1] \in Level
    <2>1. rows[key[c]] \in Seq(Level) /\ Len(rows[key[c]]) <= 1
      BY <1>3 DEF StockTypes, NoDuplicateLevel
    <2>2. QED
      BY <2>1, ShortRow
  <1>5. StockTypes'
    <2>1. CASE rows[key[c]] = <<>>
      BY <2>1 DEF StockTypes
    <2>2. CASE rows[key[c]] # <<>>
      <3>1. /\ slot' = [slot EXCEPT ![c] = 1]
            /\ copy' = [copy EXCEPT ![c] = rows[key[c]][1]]
            /\ rows[key[c]][1] \in Level
        BY <2>2, <1>4
      <3>2. 1 \in Nat
        OBVIOUS
      <3>3. slot' \in [Calls -> Nat] /\ copy' \in [Calls -> Level]
        BY <3>1, <3>2 DEF StockTypes
      <3>4. QED
        BY <3>3 DEF StockTypes
    <2>3. QED
      BY <2>1, <2>2
  <1>6. PhaseInv'
    BY <1>2, <1>3 DEF PhaseInv, StockTypes
  <1>7. NoDuplicateLevel'
    BY DEF NoDuplicateLevel
  <1>8. CopyIsCurrent'
    BY <1>2, <1>3, <1>4 DEF CopyIsCurrent, Deciding, StockTypes, PhaseInv
  <1>9. QED
    BY <1>1, <1>5, <1>6, <1>7, <1>8

LEMMA CreateLevelKeepsInv ==
    ASSUME StockInv, NEW c \in Calls, CreateLevel(c)
    PROVE  StockInv'
  <1> USE DEF StockInv, CreateLevel, Deciding
  <1>1. MutexInv'
    BY MutexStepKeepsInv
  <1>2. state \in [Calls -> CallStates] /\ key \in [Calls -> Keys] /\ state' = state /\ key' = key
    BY DEF MutexInv, MutexTypeOK, mutexVars
  <1>3. rows[key[c]] = <<>>
    BY DEF CopyIsCurrent
  <1>4. rows' = [rows EXCEPT ![key[c]] = <<ZeroLevel>>] /\ slot' = [slot EXCEPT ![c] = 1]
    <2>1. Append(<<>>, ZeroLevel) = <<ZeroLevel>> /\ Len(<<>>) + 1 = 1
      OBVIOUS
    <2>2. QED
      BY <2>1, <1>3
  <1>5. StockTypes'
    <2>1. <<ZeroLevel>> \in Seq(Level)
      BY ZeroIsLevel, OneLevel
    <2>2. rows' \in [Keys -> Seq(Level)]
      <3>1. rows \in [Keys -> Seq(Level)] /\ key[c] \in Keys
        BY <1>2 DEF StockTypes
      <3>2. Len(<<ZeroLevel>>) = 1
        OBVIOUS
      <3>3. QED
        BY ONLY <1>4, <2>1, <3>1, <3>2, PutRow
    <2>3. 1 \in Nat /\ slot' \in [Calls -> Nat] /\ copy' \in [Calls -> Level]
      BY <1>4, ZeroIsLevel DEF StockTypes
    <2>4. QED
      BY <2>2, <2>3 DEF StockTypes
  <1>6. PhaseInv'
    BY <1>2, <1>4 DEF PhaseInv, StockTypes
  <1>7. NoDuplicateLevel'
    BY <1>2, <1>4, ZeroIsLevel, OneLevel DEF NoDuplicateLevel, StockTypes
  <1>8. CopyIsCurrent'
    <2> SUFFICES ASSUME NEW d \in Calls, Deciding(d)' PROVE CopyIsCurrent!(d)!2'
      BY DEF CopyIsCurrent
    <2>1. CASE d = c
      <3>1. slot'[c] = 1 /\ copy'[c] = ZeroLevel /\ rows'[key'[c]] = <<ZeroLevel>>
        BY <1>2, <1>4 DEF StockTypes
      <3>2. Len(<<ZeroLevel>>) = 1 /\ <<ZeroLevel>>[1] = ZeroLevel
        BY ZeroIsLevel, OneLevel
      <3>3. QED
        BY ONLY <2>1, <3>1, <3>2
    <2>2. CASE d # c
      <3>1. key[d] # key[c]
        BY <2>2, <1>2, AloneInSection
      <3>2. rows'[key'[d]] = rows[key[d]] /\ slot'[d] = slot[d] /\ copy'[d] = copy[d]
        BY <2>2, <3>1, <1>2, <1>4 DEF StockTypes
      <3>3. QED
        BY <3>2, <1>2 DEF CopyIsCurrent
    <2>3. QED
      BY <2>1, <2>2
  <1>9. QED
    BY <1>1, <1>5, <1>6, <1>7, <1>8

LEMMA SaveLevelKeepsInv ==
    ASSUME StockInv, NEW c \in Calls, SaveLevel(c)
    PROVE  StockInv'
  <1> USE DEF StockInv, SaveLevel, Deciding
  <1>1. MutexInv'
    BY MutexStepKeepsInv
  <1>2. state \in [Calls -> CallStates] /\ key \in [Calls -> Keys] /\ state' = state /\ key' = key
    BY DEF MutexInv, MutexTypeOK, mutexVars
  <1>3. slot[c] = 1
    BY DEF PhaseInv
  <1>4. Updated(copy[c], operation[c]) \in Level
    BY UpdatedIsLevel, OperationsAssumption DEF StockTypes
  <1>5. rows[key[c]] \in Seq(Level) /\ Len(rows[key[c]]) = 1
    <2>1. rows[key[c]] \in Seq(Level) /\ Len(rows[key[c]]) <= 1
      BY <1>2 DEF NoDuplicateLevel, StockTypes
    <2>2. 1 <= Len(rows[key[c]])
      BY <1>3 DEF CopyIsCurrent
    <2>3. rows[key[c]] # <<>>
      BY ONLY <2>2
    <2>4. QED
      BY ONLY <2>1, <2>3, ShortRow
  <1>6. rows' = [rows EXCEPT ![key[c]] = [rows[key[c]] EXCEPT ![1] = Updated(copy[c], operation[c])]]
    BY <1>3
  <1>7. /\ rows'[key[c]] \in Seq(Level) /\ Len(rows'[key[c]]) = 1
        /\ \A k \in Keys : k # key[c] => rows'[k] = rows[k]
        /\ rows' \in [Keys -> Seq(Level)]
    <2> DEFINE saved == [rows[key[c]] EXCEPT ![1] = Updated(copy[c], operation[c])]
    <2>1. 1 \in 1..Len(rows[key[c]])
      BY <1>5
    <2>2. saved \in Seq(Level) /\ Len(saved) = 1
      BY <1>4, <1>5, <2>1, ExceptSeq
    <2>3. rows' = [rows EXCEPT ![key[c]] = saved]
      BY <1>6
    <2>4. rows \in [Keys -> Seq(Level)] /\ key[c] \in Keys
      BY <1>2 DEF StockTypes
    <2> HIDE DEF saved
    <2>5. QED
      BY ONLY <2>2, <2>3, <2>4, PutRow
  <1>8. StockTypes'
    BY <1>7 DEF StockTypes, Outcomes
  <1>9. PhaseInv'
    BY <1>2 DEF PhaseInv, StockTypes
  <1>10. NoDuplicateLevel'
    BY <1>7 DEF NoDuplicateLevel
  <1>11. CopyIsCurrent'
    <2> SUFFICES ASSUME NEW d \in Calls, Deciding(d)' PROVE CopyIsCurrent!(d)!2'
      BY DEF CopyIsCurrent
    <2>1. d # c
      BY DEF StockTypes
    <2>2. Deciding(d) /\ key[d] # key[c]
      BY <2>1, <1>2, AloneInSection DEF StockTypes
    <2>3. rows'[key'[d]] = rows[key[d]] /\ slot'[d] = slot[d] /\ copy'[d] = copy[d]
      BY <2>1, <2>2, <1>2, <1>7
    <2>4. QED
      BY <2>2, <2>3, <1>2 DEF CopyIsCurrent
  <1>12. QED
    BY <1>1, <1>8, <1>9, <1>10, <1>11

\* A section that ends writes no level.
LEMMA EndKeepsInv ==
    ASSUME StockInv, NEW c \in Calls, Refuse(c) \/ Return(c)
    PROVE  StockInv'
  <1> USE DEF StockInv
  <1>1. /\ Finish(c)
        /\ UNCHANGED <<rows, operation, slot, copy>>
        /\ \E r \in Outcomes \ {"none", "pending"} : outcome' = [outcome EXCEPT ![c] = r]
    BY DEF Refuse, Return, Outcomes, StockTypes
  <1>2. MutexInv'
    BY <1>1, FinishKeepsInv
  <1>3. state[c] = "running" /\ state' = [state EXCEPT ![c] = "settling"] /\ key' = key
    BY <1>1 DEF Finish
  <1>4. state \in [Calls -> CallStates]
    BY DEF MutexInv, MutexTypeOK
  <1>5. StockTypes' /\ NoDuplicateLevel'
    BY <1>1 DEF StockTypes, NoDuplicateLevel
  <1>6. PhaseInv'
    BY <1>1, <1>3, <1>4 DEF PhaseInv, StockTypes
  <1>7. CopyIsCurrent'
    BY <1>1, <1>3, <1>4 DEF CopyIsCurrent, Deciding, StockTypes
  <1>8. QED
    BY <1>2, <1>5, <1>6, <1>7

LEMMA ReleaseKeepsInv ==
    ASSUME StockInv, NEW c \in Calls, Release(c)
    PROVE  StockInv'
  <1> USE DEF StockInv, Release, stockOnly
  <1>1. MutexInv'
    BY SettleKeepsInv
  <1>2. state[c] = "settling" /\ state' = [state EXCEPT ![c] = "settled"] /\ key' = key
    BY DEF Settle
  <1>3. state \in [Calls -> CallStates]
    BY DEF MutexInv, MutexTypeOK
  <1>4. StockTypes' /\ NoDuplicateLevel'
    BY DEF StockTypes, NoDuplicateLevel
  <1>5. PhaseInv'
    BY <1>2, <1>3 DEF PhaseInv
  <1>6. CopyIsCurrent'
    BY <1>2, <1>3 DEF CopyIsCurrent, Deciding
  <1>7. QED
    BY <1>1, <1>4, <1>5, <1>6

LEMMA StockStepKeepsInv == StockInv /\ [StockNext]_stockVars => StockInv'
  <1> SUFFICES ASSUME StockInv, [StockNext]_stockVars PROVE StockInv'
    OBVIOUS
  <1>1. ASSUME NEW c \in Calls, NEW k \in Keys, NEW op \in Operations, Request(c, k, op)
        PROVE  StockInv'
    BY <1>1, RequestKeepsInv
  <1>2. ASSUME NEW c \in Calls, ReadLevel(c) PROVE StockInv'
    BY <1>2, ReadLevelKeepsInv
  <1>3. ASSUME NEW c \in Calls, CreateLevel(c) PROVE StockInv'
    BY <1>3, CreateLevelKeepsInv
  <1>4. ASSUME NEW c \in Calls, SaveLevel(c) PROVE StockInv'
    BY <1>4, SaveLevelKeepsInv
  <1>5. ASSUME NEW c \in Calls, Refuse(c) \/ Return(c) PROVE StockInv'
    BY <1>5, EndKeepsInv
  <1>6. ASSUME NEW c \in Calls, Release(c) PROVE StockInv'
    BY <1>6, ReleaseKeepsInv
  <1>7. CASE UNCHANGED stockVars
    <2>1. MutexInv'
      BY <1>7, MutexStepKeepsInv DEF stockVars, StockInv
    <2>2. QED
      BY <1>7, <2>1 DEF stockVars, stockOnly, mutexVars, StockInv, StockTypes, PhaseInv,
                        NoDuplicateLevel, CopyIsCurrent, Deciding
  <1>8. QED
    BY <1>1, <1>2, <1>3, <1>4, <1>5, <1>6, <1>7 DEF StockNext

\* Every reachable state of the stock engine satisfies the inductive invariant.
THEOREM StockInvariant == StockSpec => []StockInv
  BY InitStockInv, StockStepKeepsInv, PTL DEF StockSpec

\* The types of the stock engine; the quantities of Level are natural numbers,
\* so no on-hand, reserved or damaged quantity is ever negative.
THEOREM StockTypesHold == StockSpec => []StockTypeOK
  <1>1. StockInv => StockTypeOK
    BY DEF StockInv, MutexInv, StockTypes, StockTypeOK
  <1>2. QED
    BY <1>1, StockInvariant, PTL

\* However many calls race for a key's first use, it gets one stock level.
THEOREM NoDuplicates == StockSpec => []NoDuplicateLevel
  <1>1. StockInv => NoDuplicateLevel
    BY DEF StockInv
  <1>2. QED
    BY <1>1, StockInvariant, PTL

\* No section computes from a level another call has changed since it was read.
THEOREM NoLostUpdate == StockSpec => []CopyIsCurrent
  <1>1. StockInv => CopyIsCurrent
    BY DEF StockInv
  <1>2. QED
    BY <1>1, StockInvariant, PTL

-----------------------------------------------------------------------------

Opened == {k \in Keys : rows[k] # <<>>}

BookLevel == [k \in Keys |-> LevelOf(k)]

\* A deciding section holds the level of its key, or knows that there is none.
LEMMA SectionSees ==
    ASSUME StockInv, NEW c \in Calls, Deciding(c)
    PROVE  /\ key[c] \in Keys
           /\ slot[c] = 0 => key[c] \notin Opened
           /\ slot[c] # 0 => slot[c] = 1 /\ key[c] \in Opened /\ BookLevel[key[c]] = copy[c]
  <1>1. key[c] \in Keys /\ slot[c] \in {0, 1}
    BY DEF StockInv, MutexInv, MutexTypeOK, PhaseInv
  <1>2. slot[c] = 0 => rows[key[c]] = <<>>
    BY DEF StockInv, CopyIsCurrent
  <1>3. slot[c] = 1 => rows[key[c]] # <<>> /\ rows[key[c]][1] = copy[c]
    BY DEF StockInv, CopyIsCurrent
  <1>4. QED
    BY <1>1, <1>2, <1>3 DEF Opened, BookLevel, LevelOf

\* The book's arithmetic is the engine's.
LEMMA BookArithmetic ==
    /\ Book!ZeroLevel = ZeroLevel
    /\ \A op : Book!Creates(op) <=> Creates(op)
    /\ \A l, op : Book!Refused(l, op) <=> Refused(l, op)
    /\ \A l, op : Book!Updated(l, op) = Updated(l, op)
  <1>1. Book!ZeroLevel = ZeroLevel
    BY DEF Book!ZeroLevel, ZeroLevel
  <1>2. \A op : Book!Creates(op) <=> Creates(op)
    BY DEF Book!Creates, Creates
  <1>3. \A l, op : Book!Refused(l, op) <=> Refused(l, op)
    BY DEF Book!Refused, Refused, Book!Available, Available
  <1>4. \A l, op : Book!Updated(l, op) = Updated(l, op)
    BY DEF Book!Updated, Updated, Book!FloorZero, FloorZero
  <1>5. QED
    BY <1>1, <1>2, <1>3, <1>4

LEMMA InitBook == StockInit => Book!Init
  <1> SUFFICES ASSUME StockInit PROVE Book!Init
    OBVIOUS
  <1>1. \A k \in Keys : rows[k] = <<>> \/ \E l \in SeedLevels : rows[k] = <<l>>
    BY DEF StockInit
  <1>2. \A k \in Keys : LevelOf(k) \in SeedLevels \cup {ZeroLevel}
    <2>1. SUFFICES ASSUME NEW k \in Keys PROVE LevelOf(k) \in SeedLevels \cup {ZeroLevel}
      OBVIOUS
    <2>2. CASE rows[k] = <<>>
      BY <2>2 DEF LevelOf
    <2>3. ASSUME NEW l \in SeedLevels, rows[k] = <<l>>
          PROVE  LevelOf(k) \in SeedLevels \cup {ZeroLevel}
      BY <2>3 DEF LevelOf
    <2>4. QED
      BY <2>2, <2>3, <1>1
  <1>3. BookLevel \in [Keys -> SeedLevels \cup {ZeroLevel}]
    BY <1>2 DEF BookLevel
  <1>4. \A k \in Keys \ Opened : BookLevel[k] = ZeroLevel
    BY DEF BookLevel, LevelOf, Opened
  <1>5. key \in [Calls -> Keys] /\ operation \in [Calls -> Operations]
    BY KeysAssumption, OperationsAssumption DEF StockInit, MutexInit
  <1>6. Opened \in SUBSET Keys /\ outcome = [c \in Calls |-> "none"]
    BY DEF StockInit, Opened
  <1>7. QED
    BY <1>3, <1>4, <1>5, <1>6, BookArithmetic DEF Book!Init, Opened, BookLevel

\* A request maps to Ask, the creation of a row to Open, a save to Apply, a
\* refusal to Reject; getOrCreate takes effect when it returns the level it
\* found, and every other step is invisible in the book.
LEMMA StepBook == StockInv /\ [StockNext]_stockVars => [Book!Next]_Book!vars
  <1> SUFFICES ASSUME StockInv, [StockNext]_stockVars PROVE [Book!Next]_Book!vars
    OBVIOUS
  <1> DEFINE same == UNCHANGED <<rows, key, operation, outcome>>
  <1>1. ASSUME same PROVE [Book!Next]_Book!vars
    BY <1>1 DEF Book!vars, LevelOf
  <1>2. ASSUME NEW c \in Calls, NEW k \in Keys, NEW op \in Operations, Request(c, k, op)
        PROVE  Book!Next
    <2>1. /\ outcome[c] = "none"
          /\ outcome' = [outcome EXCEPT ![c] = "pending"]
          /\ key' = [key EXCEPT ![c] = k]
          /\ operation' = [operation EXCEPT ![c] = op]
          /\ rows' = rows
      BY <1>2 DEF Request, RunExclusive, StockInv, PhaseInv
    <2>2. Book!Ask(c, k, op)
      BY <2>1 DEF Book!Ask, LevelOf
    <2>3. QED
      BY <2>2 DEF Book!Next
  <1>3. ASSUME NEW c \in Calls, ReadLevel(c) \/ Release(c) PROVE same
    BY <1>3 DEF ReadLevel, Release, Begin, Settle, stockOnly
  <1>4. ASSUME NEW c \in Calls, CreateLevel(c) PROVE Book!Next
    <2>1. Deciding(c) /\ slot[c] = 0 /\ Creates(operation[c])
      BY <1>4 DEF CreateLevel
    <2>2. key[c] \in Keys /\ rows[key[c]] = <<>>
      BY <2>1, SectionSees DEF Opened
    <2>3. Append(rows[key[c]], ZeroLevel) = <<ZeroLevel>>
      BY <2>2
    <2>4. rows' = [rows EXCEPT ![key[c]] = <<ZeroLevel>>] /\ UNCHANGED <<key, operation, outcome>>
      BY <1>4, <2>3 DEF CreateLevel, mutexVars
    <2>5. DOMAIN rows = Keys
      BY DEF StockInv, StockTypes
    <2>6. Opened' = Opened \cup {key[c]}
      BY <2>2, <2>4, <2>5 DEF Opened
    <2>7. \A k \in Keys : LevelOf(k)' = LevelOf(k)
      <3>1. SUFFICES ASSUME NEW k \in Keys PROVE LevelOf(k)' = LevelOf(k)
        OBVIOUS
      <3>2. CASE k = key[c]
        BY <3>2, <2>2, <2>4, <2>5 DEF LevelOf
      <3>3. CASE k # key[c]
        BY <3>3, <2>4, <2>5 DEF LevelOf
      <3>4. QED
        BY <3>2, <3>3
    <2>8. BookLevel' = BookLevel
      BY <2>7 DEF BookLevel
    <2>9. Book!Open(c)
      BY <2>1, <2>2, <2>4, <2>6, <2>8, BookArithmetic DEF Book!Open, Deciding, Opened, BookLevel
    <2>10. QED
      BY <2>9 DEF Book!Next
  <1>5. ASSUME NEW c \in Calls, SaveLevel(c) PROVE Book!Next
    <2> DEFINE new == Updated(copy[c], operation[c])
    <2>1. Deciding(c) /\ slot[c] # 0 /\ ~ Refused(copy[c], operation[c])
      BY <1>5 DEF SaveLevel
    <2>2. key[c] \in Opened /\ slot[c] = 1 /\ BookLevel[key[c]] = copy[c] /\ key[c] \in Keys
      BY <2>1, SectionSees
    <2>3. rows' = [rows EXCEPT ![key[c]] = [rows[key[c]] EXCEPT ![1] = new]]
      BY <1>5, <2>2 DEF SaveLevel
    <2>4. /\ rows \in [Keys -> Seq(Level)]
          /\ rows[key[c]] \in Seq(Level) /\ Len(rows[key[c]]) <= 1 /\ rows[key[c]] # <<>>
      BY <2>2 DEF StockInv, StockTypes, NoDuplicateLevel, Opened
    <2>5. new \in Level
      BY <2>1, UpdatedIsLevel, OperationsAssumption DEF StockInv, StockTypes
    <2>6. [rows[key[c]] EXCEPT ![1] = new] # <<>> /\ [rows[key[c]] EXCEPT ![1] = new][1] = new
      <3>1. Len(rows[key[c]]) = 1 /\ 1 \in 1..Len(rows[key[c]])
        BY <2>4, ShortRow
      <3>2. Len([rows[key[c]] EXCEPT ![1] = new]) = 1 /\ [rows[key[c]] EXCEPT ![1] = new][1] = new
        BY <2>4, <2>5, <3>1, ExceptSeq
      <3>3. QED
        BY ONLY <3>2, EmptySeq
    <2> HIDE DEF new
    <2>7. Opened' = Opened
      BY <2>2, <2>3, <2>4, <2>6 DEF Opened
    <2>8. \A k \in Keys : LevelOf(k)' = IF k = key[c] THEN new ELSE LevelOf(k)
      BY <2>3, <2>4, <2>6 DEF LevelOf
    <2>9. BookLevel' = [BookLevel EXCEPT ![key[c]] = new]
      BY <2>8 DEF BookLevel
    <2>10. outcome' = [outcome EXCEPT ![c] = "done"] /\ UNCHANGED <<key, operation>>
      BY <1>5 DEF SaveLevel, mutexVars
    <2>11. Book!Apply(c)
      BY <2>1, <2>2, <2>7, <2>9, <2>10, BookArithmetic
         DEF Book!Apply, Deciding, Opened, BookLevel, new
    <2>12. QED
      BY <2>11 DEF Book!Next
  <1>6. ASSUME NEW c \in Calls, Refuse(c) PROVE Book!Next
    <2>1. Deciding(c) /\ UNCHANGED <<rows, key, operation>>
      BY <1>6 DEF Refuse, Finish
    <2>2. /\ key[c] \in Keys
          /\ slot[c] = 0 => key[c] \notin Opened
          /\ slot[c] # 0 => key[c] \in Opened /\ BookLevel[key[c]] = copy[c]
      BY <2>1, SectionSees
    <2>3. \/ /\ key[c] \notin Opened /\ ~ Creates(operation[c])
             /\ outcome' = [outcome EXCEPT ![c] = "notFound"]
          \/ /\ key[c] \in Opened /\ Refused(BookLevel[key[c]], operation[c])
             /\ outcome' = [outcome EXCEPT ![c] = "insufficient"]
      BY <1>6, <2>2 DEF Refuse
    <2>4. Opened' = Opened /\ BookLevel' = BookLevel
      BY <2>1 DEF Opened, BookLevel, LevelOf
    <2>5. Book!Reject(c)
      BY <2>1, <2>3, <2>4, BookArithmetic DEF Book!Reject, Deciding, Opened, BookLevel
    <2>6. QED
      BY <2>5 DEF Book!Next
  <1>7. ASSUME NEW c \in Calls, Return(c) PROVE [Book!Next]_Book!vars
    <2>1. UNCHANGED <<rows, key, operation>>
      BY <1>7 DEF Return, Finish
    <2>2. CASE UNCHANGED outcome
      BY <2>1, <2>2, <1>1
    <2>3. CASE /\ Deciding(c) /\ slot[c] # 0 /\ ~ Updates(operation[c])
               /\ outcome' = [outcome EXCEPT ![c] = "done"]
      <3>1. key[c] \in Keys /\ key[c] \in Opened
        BY <2>3, SectionSees
      <3>2. \A l : Updated(l, operation[c]) = l /\ ~ Refused(l, operation[c])
        BY <2>3 DEF Updates, Updated, Refused
      <3>3. Opened' = Opened /\ BookLevel' = BookLevel
        BY <2>1 DEF Opened, BookLevel, LevelOf
      <3>4. BookLevel' = [BookLevel EXCEPT ![key[c]] = Updated(@, operation[c])]
        BY <3>2, <3>3 DEF BookLevel
      <3>5. Book!Apply(c)
        BY <2>1, <2>3, <3>1, <3>2, <3>3, <3>4, BookArithmetic
           DEF Book!Apply, Deciding, Opened, BookLevel
      <3>6. QED
        BY <3>5 DEF Book!Next
    <2>4. QED
      BY <1>7, <2>2, <2>3 DEF Return
  <1>8. CASE UNCHANGED stockVars
    BY <1>8, <1>1 DEF stockVars, stockOnly, mutexVars
  <1> HIDE DEF same
  <1>9. QED
    BY <1>1, <1>2, <1>3, <1>4, <1>5, <1>6, <1>7, <1>8 DEF StockNext

\* The stock engine implements StockBook: whatever calls race, each takes
\* effect once, on the level the calls before it left, or is refused.
THEOREM StockImplementsBook == StockSpec => ImplementsStockBook
  <1>1. StockInv /\ [StockNext]_stockVars => [Book!Next]_Book!vars
    BY StepBook
  <1>2. QED
    BY <1>1, InitBook, StockInvariant, PTL DEF StockSpec, ImplementsStockBook, Book!Spec

LEMMA UpdatedReserves ==
    ASSUME NEW l \in Level, NEW op \in Operation, ~ Refused(l, op),
           Updated(l, op).reserved > l.reserved
    PROVE  Available(Updated(l, op)) >= 0
  BY DEF Level, Operation, Kinds, Refused, Updated, FloorZero, Available

LEMMA LevelsAreLevels == StockInv => \A k \in Keys : LevelOf(k) \in Level
  <1> SUFFICES ASSUME StockInv, NEW k \in Keys PROVE LevelOf(k) \in Level
    OBVIOUS
  <1>1. rows[k] \in Seq(Level) /\ Len(rows[k]) <= 1
    BY DEF StockInv, StockTypes, NoDuplicateLevel
  <1>2. QED
    BY <1>1, ShortRow, ZeroIsLevel DEF LevelOf

\* A reservation never takes more than is available, whatever runs at the same
\* time: the book's steps change a level only by applying an operation that is
\* not refused.
THEOREM NoOverReservation == StockSpec => ReservesOnlyAvailable
  <1> DEFINE reserves == \A k \in Keys : LevelOf(k)'.reserved > LevelOf(k).reserved =>
                             Available(LevelOf(k)') >= 0
  <1>1. StockInv /\ [StockNext]_stockVars => [reserves]_stockVars
    <2> SUFFICES ASSUME StockInv, [StockNext]_stockVars, NEW k \in Keys,
                        LevelOf(k)'.reserved > LevelOf(k).reserved
                 PROVE  Available(LevelOf(k)') >= 0
      OBVIOUS
    <2>1. LevelOf(k) \in Level
      BY LevelsAreLevels
    <2>2. BookLevel' # BookLevel
      <3>1. LevelOf(k)' # LevelOf(k)
        BY <2>1 DEF Level
      <3>2. BookLevel[k] = LevelOf(k) /\ BookLevel'[k] = LevelOf(k)'
        BY DEF BookLevel
      <3>3. QED
        BY <3>1, <3>2
    <2>3. Book!Next
      BY <2>2, StepBook DEF Book!vars, BookLevel
    <2>4. PICK c \in Calls : Book!Apply(c)
      BY <2>2, <2>3 DEF Book!Next, Book!Ask, Book!Open, Book!Reject, BookLevel
    <2>5. /\ BookLevel' = [BookLevel EXCEPT ![key[c]] = Updated(@, operation[c])]
          /\ ~ Refused(BookLevel[key[c]], operation[c])
      BY <2>4, BookArithmetic DEF Book!Apply, BookLevel
    <2>6. /\ k = key[c]
          /\ LevelOf(k)' = Updated(LevelOf(k), operation[c])
          /\ ~ Refused(LevelOf(k), operation[c])
      <3>1. BookLevel[k] = LevelOf(k) /\ BookLevel'[k] = LevelOf(k)' /\ DOMAIN BookLevel = Keys
        BY DEF BookLevel
      <3>2. LevelOf(k)' # LevelOf(k)
        BY <2>1 DEF Level
      <3>3. QED
        BY <3>1, <3>2, <2>5
    <2>7. operation[c] \in Operation
      BY OperationsAssumption DEF StockInv, StockTypes
    <2>8. QED
      BY <2>1, <2>6, <2>7, UpdatedReserves
  <1>2. QED
    BY <1>1, StockInvariant, PTL DEF StockSpec, ReservesOnlyAvailable

-----------------------------------------------------------------------------
\* The resource planning engine.

PlanningTypes ==
    /\ assignee \in [Assignments -> Keys]
    /\ assignment \in [Assignments -> Record]
    /\ ask \in [Calls -> Asks]
    /\ work \in [Calls -> Works]
    /\ current \in [Calls -> Record]
    /\ closing \in [Closers -> [step : {"idle", "read", "saved"},
                                on : Assignments, read : Record]]

\* A section is under way only while its call runs, only an assign that has
\* saved has made the assignment it is named after, and whatever is changed
\* or closed exists.
SectionInv ==
    /\ \A c \in Calls : work[c] \in {"entered", "ready"} => state[c] = "running"
    /\ \A c \in Calls : state[c] \in {"idle", "queued"} => work[c] = "none"
    /\ \A c \in Calls : Exists(c) =>
          state[c] # "idle" /\ ask[c].op = "assign" /\ work[c] = "saved"
    /\ \A c \in Calls : state[c] # "idle" /\ ask[c].op = "update" => Exists(ask[c].assignment)
    /\ \A c \in Calls : ask[c].op = "update" /\ work[c] \in {"entered", "ready"} =>
          current[c].status # "none"
    /\ \A d \in Closers : closing[d].step = "read" => Exists(closing[d].on)

PlanningInv == MutexInv /\ PlanningTypes /\ SectionInv

LEMMA AskParts ==
    ASSUME NEW r \in Asks
    PROVE  /\ r.op \in {"assign", "update"} /\ r.share \in Nat
           /\ r.op = "assign" => r.assignee \in Keys
           /\ r.op = "update" => r.assignment \in Assignments
  BY AsksAssumption DEF Ask

\* A call reaches its lock through runExclusive, whichever request it is.
LEMMA CallIsRunExclusive ==
    ASSUME PlanningInv, NEW c \in Calls, NEW r \in Asks, AssignCall(c, r) \/ UpdateCall(c, r)
    PROVE  /\ \E k \in Keys : RunExclusive(c, k)
           /\ ask' = [ask EXCEPT ![c] = r]
           /\ r.op = "update" => Exists(r.assignment)
           /\ UNCHANGED <<assignee, assignment, work, current, others, closing>>
  <1>1. CASE AssignCall(c, r)
    BY <1>1, AskParts DEF AssignCall
  <1>2. CASE UpdateCall(c, r)
    <2>1. PICK k \in Keys : k = assignee[r.assignment]
      BY <1>2, AskParts DEF UpdateCall, PlanningInv, PlanningTypes
    <2>2. RunExclusive(c, k)
      BY <1>2, <2>1 DEF UpdateCall, RunExclusive
    <2>3. QED
      BY <1>2, <2>2 DEF UpdateCall
  <1>3. QED
    BY <1>1, <1>2

\* The mutex does not see what its sections do.
LEMMA PlanningStepIsMutexStep ==
    PlanningInv /\ [PlanningNext]_planningVars => [MutexNext]_mutexVars
  <1> SUFFICES ASSUME PlanningInv, [PlanningNext]_planningVars PROVE [MutexNext]_mutexVars
    OBVIOUS
  <1>1. ASSUME NEW c \in Calls, NEW r \in Asks, AssignCall(c, r) \/ UpdateCall(c, r)
        PROVE  MutexNext
    BY <1>1, CallIsRunExclusive DEF MutexNext
  <1>2. ASSUME NEW c \in Calls,
               EnterSection(c) \/ RefuseAllocation(c) \/ ReturnAssignment(c) \/ ReleaseAssignee(c)
        PROVE  MutexNext
    BY <1>2 DEF EnterSection, RefuseAllocation, ReturnAssignment, ReleaseAssignee, MutexNext
  <1>3. ASSUME NEW c \in Calls, ReadOthers(c) \/ Save(c) PROVE UNCHANGED mutexVars
    BY <1>3 DEF ReadOthers, Save
  <1>4. ASSUME NEW d \in Closers, SaveClosed(d) \/ \E a \in Assignments : ReadToClose(d, a)
        PROVE  UNCHANGED mutexVars
    BY <1>4 DEF SaveClosed, ReadToClose
  <1>5. CASE UNCHANGED planningVars
    BY <1>5 DEF planningVars
  <1>6. QED
    BY <1>1, <1>2, <1>3, <1>4, <1>5 DEF PlanningNext

LEMMA InitPlanningInv == PlanningInit => PlanningInv
  <1> SUFFICES ASSUME PlanningInit PROVE PlanningInv
    OBVIOUS
  <1>1. MutexInv
    BY InitMutexInv DEF PlanningInit
  <1>2. PlanningTypes
    <2>1. key \in [Calls -> Keys]
      BY <1>1 DEF MutexInv, MutexTypeOK
    <2>2. NoRecord \in Record
      BY DEF NoRecord, Record
    <2>3. QED
      BY <2>1, <2>2, AsksAssumption DEF PlanningInit, PlanningTypes, Works, Assignments
  <1>3. SectionInv
    BY DEF PlanningInit, MutexInit, SectionInv, Exists, NoRecord, Assignments
  <1>4. QED
    BY <1>1, <1>2, <1>3 DEF PlanningInv

LEMMA CallKeepsInv ==
    ASSUME PlanningInv, NEW c \in Calls, NEW r \in Asks, AssignCall(c, r) \/ UpdateCall(c, r)
    PROVE  PlanningTypes' /\ SectionInv'
  <1>1. /\ state[c] = "idle" /\ state' = [state EXCEPT ![c] = "queued"]
        /\ ask' = [ask EXCEPT ![c] = r]
        /\ r.op = "update" => Exists(r.assignment)
        /\ UNCHANGED <<assignee, assignment, work, current, others, closing>>
    BY CallIsRunExclusive DEF RunExclusive
  <1>2. PlanningTypes'
    BY <1>1 DEF PlanningInv, PlanningTypes
  <1>3. ~ Exists(c) /\ work[c] = "none"
    BY <1>1 DEF PlanningInv, SectionInv
  <1>4. SectionInv'
    BY <1>1, <1>3 DEF PlanningInv, PlanningTypes, MutexInv, MutexTypeOK, SectionInv, Exists
  <1>5. QED
    BY <1>2, <1>4

LEMMA TargetIsAssignment ==
    ASSUME PlanningInv, NEW c \in Calls
    PROVE  Target(c) \in Assignments /\ (ask[c].op = "assign" => Target(c) = c)
  BY AskParts DEF Target, PlanningInv, PlanningTypes, Assignments

LEMMA TargetExists ==
    ASSUME PlanningInv, NEW c \in Calls, state[c] # "idle", ask[c].op = "update"
    PROVE  Exists(Target(c))
  BY DEF Target, PlanningInv, SectionInv

LEMMA SectionKeepsInv ==
    ASSUME PlanningInv, NEW c \in Calls, EnterSection(c) \/ ReadOthers(c)
    PROVE  PlanningTypes' /\ SectionInv'
  <1> USE DEF PlanningInv, MutexInv, MutexTypeOK
  <1>1. CASE EnterSection(c)
    <2>1. PlanningTypes'
      BY <1>1, TargetIsAssignment DEF EnterSection, PlanningTypes, Works
    <2>2. ~ Exists(c)
      BY <1>1 DEF EnterSection, Begin, SectionInv
    <2>3. ask[c].op = "update" => assignment[Target(c)].status # "none"
      BY <1>1, TargetExists DEF EnterSection, Begin, Exists
    <2>4. SectionInv'
      BY <1>1, <2>2, <2>3 DEF EnterSection, Begin, PlanningTypes, SectionInv, Exists
    <2>5. QED
      BY <2>1, <2>4
  <1>2. CASE ReadOthers(c)
    <2>1. PlanningTypes'
      BY <1>2 DEF ReadOthers, PlanningTypes, Works
    <2>2. SectionInv'
      BY <1>2 DEF ReadOthers, mutexVars, PlanningTypes, SectionInv, Exists
    <2>3. QED
      BY <2>1, <2>2
  <1>3. QED
    BY <1>1, <1>2

LEMMA SaveKeepsInv ==
    ASSUME PlanningInv, NEW c \in Calls, Save(c)
    PROVE  PlanningTypes' /\ SectionInv'
  <1> DEFINE saved == [status |-> IF ask[c].op = "assign" THEN "active" ELSE current[c].status,
                       share |-> ask[c].share]
  <1>1. PICK t \in Assignments : t = Target(c) /\ (ask[c].op = "assign" => t = c)
    BY TargetIsAssignment
  <1>2. saved \in Record
    BY AskParts DEF PlanningInv, PlanningTypes, Record
  <1>3. /\ work[c] = "ready" /\ state' = state /\ ask' = ask /\ closing' = closing
        /\ assignment' = [assignment EXCEPT ![t] = saved]
        /\ work' = [work EXCEPT ![c] = "saved"]
        /\ UNCHANGED <<current>>
    BY <1>1 DEF Save, mutexVars
  <1> HIDE DEF saved
  <1>4. PlanningTypes'
    BY <1>2, <1>3, TargetIsAssignment
       DEF Save, PlanningInv, MutexInv, MutexTypeOK, PlanningTypes, Works
  <1>5. ~ Exists(c) /\ state[c] = "running"
    BY <1>3 DEF PlanningInv, SectionInv
  <1>6. Exists(t)' /\ \A a \in Assignments : Exists(a) => Exists(a)'
    <2>1. saved.status # "none"
      BY <1>3, AskParts DEF saved, PlanningInv, PlanningTypes, SectionInv
    <2>2. QED
      BY <1>3, <2>1 DEF Exists, PlanningInv, PlanningTypes
  <1>7. \A a \in Assignments : Exists(a)' => Exists(a) \/ (a = c /\ ask[c].op = "assign")
    <2>1. ask[c].op = "update" => Exists(t)
      BY <1>1, <1>5, TargetExists
    <2>2. ask[c].op \in {"assign", "update"}
      BY AskParts DEF PlanningInv, PlanningTypes
    <2>3. QED
      BY <1>1, <1>3, <2>1, <2>2 DEF Exists, PlanningInv, PlanningTypes
  <1>8. SectionInv'
    <2>1. work \in [Calls -> Works] /\ Assignments = Calls /\ ask \in [Calls -> Asks]
      BY DEF PlanningInv, PlanningTypes, Assignments
    <2>2. \A d \in Calls : Exists(d)' =>
             state'[d] # "idle" /\ ask'[d].op = "assign" /\ work'[d] = "saved"
      BY <1>3, <1>5, <1>7, <2>1 DEF PlanningInv, SectionInv
    <2>3. \A d \in Calls : state[d] # "idle" /\ ask[d].op = "update" =>
             Exists(ask[d].assignment)'
      BY <1>3, <1>6, <2>1, AskParts DEF PlanningInv, SectionInv
    <2>4. QED
      BY <1>3, <1>5, <1>6, <2>1, <2>2, <2>3 DEF PlanningInv, PlanningTypes, SectionInv, Exists
  <1>9. QED
    BY <1>4, <1>8

\* The end of a section and the cleanup of the map leave the records alone.
LEMMA EndOfSectionKeepsInv ==
    ASSUME PlanningInv, NEW c \in Calls,
           RefuseAllocation(c) \/ ReturnAssignment(c) \/ ReleaseAssignee(c)
    PROVE  PlanningTypes' /\ SectionInv'
  <1> USE DEF PlanningInv, MutexInv, MutexTypeOK
  <1>1. CASE RefuseAllocation(c)
    <2>1. ~ Exists(c)
      BY <1>1 DEF RefuseAllocation, SectionInv
    <2>2. QED
      BY <1>1, <2>1 DEF RefuseAllocation, Finish, PlanningTypes, SectionInv, Exists, Works
  <1>2. CASE ReturnAssignment(c)
    BY <1>2 DEF ReturnAssignment, Finish, sectionVars, PlanningTypes, SectionInv, Exists
  <1>3. CASE ReleaseAssignee(c)
    <2>1. work[c] \notin {"entered", "ready"}
      BY <1>3 DEF ReleaseAssignee, Settle, SectionInv
    <2>2. QED
      BY <1>3, <2>1 DEF ReleaseAssignee, Settle, sectionVars, PlanningTypes, SectionInv, Exists
  <1>4. QED
    BY <1>1, <1>2, <1>3

LEMMA ClosingKeepsInv ==
    ASSUME PlanningInv, NEW d \in Closers,
           SaveClosed(d) \/ \E a \in Assignments : ReadToClose(d, a)
    PROVE  PlanningTypes' /\ SectionInv'
  <1> USE DEF PlanningInv, mutexVars, sectionVars
  <1>1. CASE SaveClosed(d)
    <2>1. PICK s \in Closed :
             assignment' = [assignment EXCEPT
                ![closing[d].on] = [closing[d].read EXCEPT !.status = s]]
      BY <1>1 DEF SaveClosed
    <2>2. closing[d].on \in Assignments /\ [closing[d].read EXCEPT !.status = s] \in Record
      BY DEF PlanningTypes, Record
    <2>3. PlanningTypes'
      BY <1>1, <2>1, <2>2 DEF SaveClosed, PlanningTypes
    <2>4. \A a \in Assignments : Exists(a)' <=> Exists(a)
      BY <1>1, <2>1, <2>2 DEF SaveClosed, SectionInv, PlanningTypes, Exists, Closed
    <2>5. \A a \in Calls : ask[a].op = "update" => ask[a].assignment \in Assignments
      BY AskParts DEF PlanningTypes
    <2>6. SectionInv'
      BY <1>1, <2>2, <2>4, <2>5 DEF SaveClosed, SectionInv, PlanningTypes, Assignments
    <2>7. QED
      BY <2>3, <2>6
  <1>2. ASSUME NEW a \in Assignments, ReadToClose(d, a)
        PROVE  PlanningTypes' /\ SectionInv'
    BY <1>2 DEF ReadToClose, PlanningTypes, SectionInv, Exists
  <1>3. QED
    BY <1>1, <1>2

LEMMA PlanningStepKeepsInv == PlanningInv /\ [PlanningNext]_planningVars => PlanningInv'
  <1> SUFFICES ASSUME PlanningInv, [PlanningNext]_planningVars PROVE PlanningInv'
    OBVIOUS
  <1>1. MutexInv'
    BY PlanningStepIsMutexStep, MutexStepKeepsInv DEF PlanningInv
  <1>2. PlanningTypes' /\ SectionInv'
    <2>1. ASSUME NEW c \in Calls, NEW r \in Asks, AssignCall(c, r) \/ UpdateCall(c, r)
          PROVE  PlanningTypes' /\ SectionInv'
      BY <2>1, CallKeepsInv
    <2>2. ASSUME NEW c \in Calls, EnterSection(c) \/ ReadOthers(c)
          PROVE  PlanningTypes' /\ SectionInv'
      BY <2>2, SectionKeepsInv
    <2>3. ASSUME NEW c \in Calls, Save(c) PROVE PlanningTypes' /\ SectionInv'
      BY <2>3, SaveKeepsInv
    <2>4. ASSUME NEW c \in Calls, RefuseAllocation(c) \/ ReturnAssignment(c) \/ ReleaseAssignee(c)
          PROVE  PlanningTypes' /\ SectionInv'
      BY <2>4, EndOfSectionKeepsInv
    <2>5. ASSUME NEW d \in Closers, SaveClosed(d) \/ \E a \in Assignments : ReadToClose(d, a)
          PROVE  PlanningTypes' /\ SectionInv'
      BY <2>5, ClosingKeepsInv
    <2>6. CASE UNCHANGED planningVars
      BY <2>6 DEF planningVars, mutexVars, sectionVars, PlanningInv, PlanningTypes,
                  SectionInv, Exists
    <2>7. QED
      BY <2>1, <2>2, <2>3, <2>4, <2>5, <2>6 DEF PlanningNext
  <1>3. QED
    BY <1>1, <1>2 DEF PlanningInv

\* The records of the planning engine are always well typed, and its sections
\* are those of the mutex.
THEOREM PlanningInvariant == PlanningSpec => []PlanningInv
  BY InitPlanningInv, PlanningStepKeepsInv, PTL DEF PlanningSpec

\* Everything proved of the mutex holds of the engine's use of it: it obeys
\* the mutex, and so its sections take turns per assignee in call order.
THEOREM PlanningUsesLock == PlanningSpec => ImplementsFifoLock
  <1>1. PlanningInit => MutexInit
    BY DEF PlanningInit
  <1>2. PlanningSpec => MutexSpec
    BY <1>1, PlanningInvariant, PlanningStepIsMutexStep, PTL DEF PlanningSpec, MutexSpec
  <1>3. QED
    BY <1>2, MutexImplementsLock, PTL

\* An assignment that complete or cancel has closed becomes active again only
\* through an updateAllocation that read it while it was still active.
THEOREM ReopeningIsStaleUpdate == PlanningSpec => ReopenedOnlyByUpdate
  <1> DEFINE Reopening(a) == assignment[a].status \in Closed /\ assignment'[a].status = "active"
             Stale(a) == \E c \in Calls : /\ Save(c) /\ ask[c].op = "update" /\ Target(c) = a
                                          /\ current[c].status = "active"
  <1>1. ASSUME PlanningInv, [PlanningNext]_planningVars, NEW a \in Assignments, Reopening(a)
        PROVE  Stale(a)
    <2>1. ASSUME NEW c \in Calls, Save(c) PROVE Stale(a)
      <3>1. Target(c) = a
        BY <1>1, <2>1, TargetIsAssignment DEF Save, PlanningInv, PlanningTypes, Closed
      <3>2. ask[c].op # "assign"
        <4>1. ~ Exists(c)
          BY <1>1, <2>1 DEF Save, PlanningInv, SectionInv
        <4>2. Exists(a)
          BY <1>1 DEF Exists, Closed
        <4>3. QED
          BY <3>1, <4>1, <4>2 DEF Target
      <3>3. ask[c].op = "update"
        BY <1>1, <3>2, AskParts DEF PlanningInv, PlanningTypes
      <3>4. current[c].status = "active"
        BY <1>1, <2>1, <3>1, <3>2 DEF Save, PlanningInv, PlanningTypes, Closed
      <3>5. QED
        BY <2>1, <3>1, <3>3, <3>4
    <2>2. ASSUME NEW d \in Closers, SaveClosed(d) PROVE FALSE
      BY <1>1, <2>2 DEF SaveClosed, PlanningInv, PlanningTypes, Closed, Record
    <2>3. CASE assignment' = assignment
      BY <1>1, <2>3 DEF Closed
    <2>4. QED
      BY <1>1, <2>1, <2>2, <2>3
         DEF PlanningNext, planningVars, AssignCall, UpdateCall, EnterSection, ReadOthers,
             RefuseAllocation, ReturnAssignment, ReleaseAssignee, ReadToClose
  <1>2. PlanningInv /\ [PlanningNext]_planningVars
           => [\A a \in Assignments : Reopening(a) => Stale(a)]_planningVars
    BY <1>1
  <1>3. QED
    BY <1>2, PlanningInvariant, PTL DEF PlanningSpec, ReopenedOnlyByUpdate

\* computeTotalAllocation as a sum over all assignments, those that do not
\* count contributing nothing.
Total(record, set) ==
    SumFunctionOnSet([a \in set |-> record[a].share], {a \in set : record[a].status = "active"})

Shares(record, set) ==
    [a \in Assignments |->
        IF a \in set /\ record[a].status = "active" THEN record[a].share ELSE 0]

LEMMA TotalIsSum ==
    ASSUME NEW record \in [Assignments -> Record], NEW set \in SUBSET Assignments
    PROVE  /\ Total(record, set) = SumFunctionOnSet(Shares(record, set), Assignments)
           /\ \A a \in Assignments : Shares(record, set)[a] \in Nat
           /\ Total(record, set) \in Int
  <1> DEFINE f == [a \in set |-> record[a].share]
             g == Shares(record, set)
             T == {a \in set : record[a].status = "active"}
  <1>1. IsFiniteSet(Assignments) /\ T \in SUBSET Assignments
    BY CallsAssumption DEF Assignments
  <1>2. IsFiniteSet(T)
    BY <1>1, FS_Subset
  <1>3. \A a \in Assignments : record[a].share \in Nat
    BY DEF Record
  <1>4. \A a \in Assignments : g[a] \in Nat
    BY <1>3 DEF Shares
  <1>5. \A a \in T : g[a] \in Int /\ f[a] = g[a]
    BY <1>1, <1>4 DEF Shares
  <1>6. \A a \in Assignments \ T : g[a] = 0
    BY DEF Shares
  <1>7. Total(record, set) = SumFunctionOnSet(f, T)
    BY DEF Total
  <1> HIDE DEF f, g, T
  <1>8. SumFunctionOnSet(f, T) = SumFunctionOnSet(g, T)
    BY <1>2, <1>5, SumsAgree
  <1>9. \A a \in Assignments : g[a] \in Int
    BY <1>4
  <1>10. SumFunctionOnSet(g, Assignments) = SumFunctionOnSet(g, T)
    BY <1>1, <1>6, <1>9, SumOfTheRest
  <1>11. SumFunctionOnSet(g, Assignments) \in Int
    BY <1>1, <1>9, SumIsInt
  <1>12. QED
    BY <1>4, <1>7, <1>8, <1>10, <1>11 DEF g

\* Totals of records that agree where they count are the same ...
LEMMA TotalsAgree ==
    ASSUME NEW r \in [Assignments -> Record], NEW s \in SUBSET Assignments,
           NEW q \in [Assignments -> Record], NEW t \in SUBSET Assignments,
           \A a \in Assignments : Shares(q, t)[a] = Shares(r, s)[a]
    PROVE  Total(q, t) = Total(r, s)
  <1>1. Shares(q, t) = Shares(r, s)
    BY DEF Shares
  <1>2. QED
    BY <1>1, TotalIsSum

\* ... and smaller shares have a smaller total.
LEMMA TotalShrinks ==
    ASSUME NEW r \in [Assignments -> Record], NEW s \in SUBSET Assignments,
           NEW q \in [Assignments -> Record], NEW t \in SUBSET Assignments,
           \A a \in Assignments : Shares(q, t)[a] <= Shares(r, s)[a]
    PROVE  Total(q, t) <= Total(r, s)
  <1>1. \A a \in Assignments : Shares(q, t)[a] \in Int /\ Shares(r, s)[a] \in Int
    BY TotalIsSum
  <1>2. IsFiniteSet(Assignments)
    BY CallsAssumption DEF Assignments
  <1>3. SumFunctionOnSet(Shares(q, t), Assignments) <= SumFunctionOnSet(Shares(r, s), Assignments)
    BY <1>1, <1>2, SumsAtMost
  <1>4. QED
    BY <1>3, TotalIsSum

\* An update's lock is that of its assignment, and what a section has read of
\* the assignee's other assignments is still the most they add up to: the
\* sections of the assignee wait, and closing an assignment only takes away.
CapacityInv ==
    /\ others \in [Calls -> Int]
    /\ \A c \in Calls : state[c] # "idle" /\ ask[c].op = "update" =>
          assignee[ask[c].assignment] = key[c]
    /\ \A c \in Calls : work[c] = "ready" =>
          Total(assignment, OfAssignee(key[c]) \ {Target(c)}) <= others[c]

LEMMA CapacityParts ==
    ASSUME NEW r \in Asks
    PROVE  r.share \in Nat /\ r.capacity \in Nat
  BY AsksAssumption DEF Ask

\* A step that leaves the records alone and makes no section ready.
LEMMA RecordsAlone ==
    ASSUME PlanningInv, CapacityInv, UNCHANGED <<assignee, assignment, others>>,
           \A c \in Calls : work'[c] = "ready" =>
               work[c] = "ready" /\ key'[c] = key[c] /\ ask'[c] = ask[c],
           \A c \in Calls : state'[c] # "idle" /\ ask'[c].op = "update" =>
               assignee[ask'[c].assignment] = key'[c]
    PROVE  CapacityInv'
  BY DEF CapacityInv, OfAssignee, Exists, Target

LEMMA CallKeepsCapacity ==
    ASSUME PlanningInv, CapacityInv, NEW c \in Calls, NEW r \in Asks,
           AssignCall(c, r) \/ UpdateCall(c, r)
    PROVE  CapacityInv'
  <1>1. /\ state[c] = "idle" /\ ask' = [ask EXCEPT ![c] = r]
        /\ UNCHANGED <<assignee, assignment, work, others>>
        /\ r.op \in {"assign", "update"}
        /\ r.op = "update" => key' = [key EXCEPT ![c] = assignee[r.assignment]]
        /\ \A d \in Calls \ {c} : key'[d] = key[d] /\ state'[d] = state[d]
    BY AskParts DEF AssignCall, UpdateCall, RunExclusive, PlanningInv, MutexInv, MutexTypeOK
  <1>2. work[c] = "none" /\ ask'[c] = r
    BY <1>1 DEF PlanningInv, PlanningTypes, SectionInv
  <1>3. \A d \in Calls \ {c} : ask'[d] = ask[d]
    BY <1>1 DEF PlanningInv, PlanningTypes
  <1>4. r.op = "update" => key'[c] = assignee[r.assignment]
    BY <1>1 DEF PlanningInv, MutexInv, MutexTypeOK
  <1>5. QED
    BY <1>1, <1>2, <1>3, <1>4, RecordsAlone DEF CapacityInv

LEMMA SectionKeepsCapacity ==
    ASSUME PlanningInv, CapacityInv, NEW c \in Calls,
           EnterSection(c) \/ RefuseAllocation(c) \/ ReturnAssignment(c) \/ ReleaseAssignee(c)
    PROVE  CapacityInv'
  <1>1. /\ UNCHANGED <<assignee, assignment, others, key, ask>> /\ state[c] # "idle"
        /\ \A d \in Calls \ {c} : state'[d] = state[d]
        /\ \A d \in Calls : work'[d] = "ready" => work[d] = "ready"
    BY DEF EnterSection, RefuseAllocation, ReturnAssignment, ReleaseAssignee, Begin, Finish, Settle,
           sectionVars, PlanningInv, PlanningTypes, MutexInv, MutexTypeOK
  <1>2. QED
    BY <1>1, RecordsAlone DEF CapacityInv

LEMMA ReadOthersKeepsCapacity ==
    ASSUME PlanningInv, CapacityInv, NEW c \in Calls, ReadOthers(c)
    PROVE  CapacityInv'
  <1> DEFINE n == Total(assignment, OfAssignee(key[c]) \ {Target(c)})
  <1>1. n \in Int
    BY TotalIsSum DEF PlanningInv, PlanningTypes, OfAssignee
  <1>2. others' = [others EXCEPT ![c] = n]
    BY DEF ReadOthers, ComputeTotalAllocation, Total
  <1>3. /\ UNCHANGED <<assignee, assignment, state, key, ask>>
        /\ work' = [work EXCEPT ![c] = "ready"]
    BY DEF ReadOthers, mutexVars
  <1>4. \A d \in Calls : Total(assignment, OfAssignee(key[d]) \ {Target(d)})'
                             = Total(assignment, OfAssignee(key[d]) \ {Target(d)})
    BY <1>3 DEF OfAssignee, Exists, Target
  <1>5. others'[c] = n /\ \A d \in Calls \ {c} : others'[d] = others[d] /\ work'[d] = work[d]
    BY <1>2, <1>3 DEF CapacityInv, PlanningInv, PlanningTypes
  <1>6. others' \in [Calls -> Int]
    BY <1>1, <1>2 DEF CapacityInv
  <1>7. ASSUME NEW d \in Calls, work'[d] = "ready"
        PROVE  Total(assignment, OfAssignee(key[d]) \ {Target(d)})' <= others'[d]
    <2>1. CASE d = c
      BY <1>1, <1>4, <1>5, <2>1
    <2>2. CASE d # c
      BY <1>4, <1>5, <1>7, <2>2 DEF CapacityInv
    <2>3. QED
      BY <2>1, <2>2
  <1>8. QED
    BY <1>3, <1>6, <1>7 DEF CapacityInv

\* What Save does to the records: its assignment is, and was if it existed, of
\* the assignee whose lock it holds.
LEMMA SaveChangesOne ==
    ASSUME PlanningInv, CapacityInv, NEW c \in Calls, Save(c)
    PROVE  /\ Target(c) \in Assignments
           /\ assignee' = [assignee EXCEPT ![Target(c)] = key[c]]
           /\ Exists(Target(c)) => assignee[Target(c)] = key[c]
           /\ \A a \in Assignments \ {Target(c)} : assignment'[a] = assignment[a]
           /\ assignment'[Target(c)].share = ask[c].share
           /\ work[c] = "ready" /\ state[c] = "running"
           /\ UNCHANGED <<state, key, ask, others>>
  <1>1. ask[c].op \in {"assign", "update"} /\ Target(c) \in Assignments
    BY AskParts, TargetIsAssignment DEF PlanningInv, PlanningTypes
  <1>2. work[c] = "ready" /\ state[c] = "running" /\ ~ Exists(c)
    BY DEF Save, PlanningInv, SectionInv
  <1>3. Exists(Target(c)) => assignee[Target(c)] = key[c]
    BY <1>1, <1>2 DEF Target, CapacityInv
  <1>4. QED
    BY <1>1, <1>2, <1>3 DEF Save, mutexVars, PlanningInv, PlanningTypes

\* A save changes no share of another assignee ...
LEMMA SaveElsewhere ==
    ASSUME PlanningInv, CapacityInv, NEW c \in Calls, Save(c), NEW k \in Keys, k # key[c], NEW X
    PROVE  Total(assignment, OfAssignee(k) \ X)' = Total(assignment, OfAssignee(k) \ X)
  <1>1. assignment \in [Assignments -> Record] /\ assignment' \in [Assignments -> Record]
        /\ assignee \in [Assignments -> Keys]
    BY SaveKeepsInv DEF PlanningInv, PlanningTypes
  <1>2. OfAssignee(k)' = OfAssignee(k) /\ OfAssignee(k) \subseteq Assignments \ {Target(c)}
    BY <1>1, SaveChangesOne DEF OfAssignee, Exists
  <1>3. \A a \in Assignments :
            Shares(assignment', OfAssignee(k)' \ X)[a] = Shares(assignment, OfAssignee(k) \ X)[a]
    BY <1>2, SaveChangesOne DEF Shares
  <1>4. Total(assignment', OfAssignee(k)' \ X) = Total(assignment, OfAssignee(k) \ X)
    <2> DEFINE s == OfAssignee(k) \ X
               t == OfAssignee(k)' \ X
    <2>1. s \in SUBSET Assignments /\ t \in SUBSET Assignments
      BY <1>2
    <2> HIDE DEF s, t
    <2>2. \A a \in Assignments : Shares(assignment', t)[a] = Shares(assignment, s)[a]
      BY <1>3 DEF s, t
    <2>3. Total(assignment', t) = Total(assignment, s)
      BY <1>1, <2>1, <2>2, TotalsAgree
    <2>4. QED
      BY <2>3 DEF s, t
  <1>5. QED
    BY <1>4 DEF Total

\* ... and to what the assignee's others add up to it adds its own share.
LEMMA SaveHere ==
    ASSUME PlanningInv, CapacityInv, NEW c \in Calls, Save(c)
    PROVE  /\ Total(assignment, OfAssignee(key[c]))' <= others[c] + ask[c].share
           /\ Total(assignment, OfAssignee(key[c]))' \in Int
  <1> DEFINE t == Target(c)
             k == key[c]
             f == Shares(assignment, OfAssignee(k) \ {t})
             h == Shares(assignment', OfAssignee(k)')
  <1>1. assignment \in [Assignments -> Record] /\ assignment' \in [Assignments -> Record]
        /\ assignee \in [Assignments -> Keys]
    BY SaveKeepsInv DEF PlanningInv, PlanningTypes
  <1>2. t \in Assignments /\ k' = k
    BY SaveChangesOne
  <1>3. OfAssignee(k)' \in SUBSET Assignments /\ OfAssignee(k) \in SUBSET Assignments
    BY DEF OfAssignee
  <1>4. \A a \in Assignments \ {t} : a \in OfAssignee(k)' <=> a \in OfAssignee(k)
    BY <1>1, <1>2, SaveChangesOne DEF OfAssignee, Exists
  <1>5. \A a \in Assignments \ {t} : h[a] = f[a]
    BY <1>4, SaveChangesOne DEF Shares
  <1>6. f[t] = 0 /\ h[t] \in Nat /\ h[t] <= ask[c].share
    <2>1. ask[c].share \in Nat
      BY CapacityParts DEF PlanningInv, PlanningTypes
    <2>2. QED
      BY <1>2, <2>1, SaveChangesOne DEF Shares
  <1>7. \A a \in Assignments : f[a] \in Int
    BY <1>1, <1>3, TotalIsSum
  <1>8. Total(assignment, OfAssignee(k) \ {t}) = SumFunctionOnSet(f, Assignments)
        /\ SumFunctionOnSet(f, Assignments) \in Int
    BY <1>1, <1>3, TotalIsSum
  <1>9. Total(assignment', OfAssignee(k)') = SumFunctionOnSet(h, Assignments)
    BY <1>1, <1>3, TotalIsSum
  <1>10. Total(assignment, OfAssignee(key[c]))' = Total(assignment', OfAssignee(k)')
    BY <1>2 DEF Total, OfAssignee, Exists
  <1>11. Total(assignment, OfAssignee(k) \ {t}) <= others[c] /\ others[c] \in Int
    BY SaveChangesOne DEF CapacityInv
  <1>12. ask[c].share \in Nat /\ IsFiniteSet(Assignments)
    BY CapacityParts, CallsAssumption DEF PlanningInv, PlanningTypes, Assignments
  <1> HIDE DEF f, h, t, k
  <1>13. SumFunctionOnSet(h, Assignments) = SumFunctionOnSet(f, Assignments) + (h[t] - f[t])
    BY <1>2, <1>5, <1>6, <1>7, <1>12, SumChange
  <1>14. QED
    BY <1>6, <1>8, <1>9, <1>10, <1>11, <1>12, <1>13

LEMMA SaveKeepsCapacity ==
    ASSUME PlanningInv, CapacityInv, NEW c \in Calls, Save(c)
    PROVE  CapacityInv'
  <1>1. /\ work' = [work EXCEPT ![c] = "saved"] /\ UNCHANGED <<state, key, ask, others>>
    BY SaveChangesOne DEF Save
  <1>2. ASSUME NEW d \in Calls, state[d] # "idle", ask[d].op = "update"
        PROVE  assignee'[ask[d].assignment] = key[d]
    <2>1. ask[d].assignment \in Assignments /\ Exists(ask[d].assignment)
          /\ assignee[ask[d].assignment] = key[d]
      BY <1>2, AskParts DEF PlanningInv, PlanningTypes, SectionInv, CapacityInv
    <2>2. QED
      BY <2>1, SaveChangesOne DEF PlanningInv, PlanningTypes
  <1>3. ASSUME NEW d \in Calls, work'[d] = "ready"
        PROVE  Total(assignment, OfAssignee(key[d]) \ {Target(d)})' <= others'[d]
    <2>1. d # c /\ work[d] = "ready" /\ state[d] = "running"
      BY <1>1, <1>3 DEF PlanningInv, PlanningTypes, SectionInv
    <2>2. key[d] # key[c]
      BY <2>1, SaveChangesOne, MutexInvExcludes DEF PlanningInv, MutualExclusion, InSection
    <2>3. key[d] \in Keys /\ key'[d] = key[d] /\ Target(d)' = Target(d)
      BY <1>1 DEF PlanningInv, MutexInv, MutexTypeOK, Target
    <2> DEFINE k == key[d]
               X == {Target(d)}
    <2>4. Total(assignment, OfAssignee(key[d]) \ {Target(d)})' = Total(assignment', OfAssignee(k)' \ X)
      BY <2>3 DEF Total, OfAssignee, Exists
    <2>5. Total(assignment', OfAssignee(k)' \ X) = Total(assignment, OfAssignee(k) \ X)
      BY <2>2, <2>3, SaveElsewhere DEF Total
    <2>6. QED
      BY <1>1, <2>1, <2>4, <2>5 DEF CapacityInv
  <1>4. QED
    BY <1>1, <1>2, <1>3 DEF CapacityInv

\* Closing an assignment takes from its assignee and gives nobody anything.
LEMMA ClosingShrinks ==
    ASSUME PlanningInv, NEW d \in Closers, SaveClosed(d), NEW k \in Keys, NEW X
    PROVE  Total(assignment, OfAssignee(k) \ X)' <= Total(assignment, OfAssignee(k) \ X)
  <1>1. assignment \in [Assignments -> Record] /\ assignment' \in [Assignments -> Record]
    BY ClosingKeepsInv DEF PlanningInv, PlanningTypes
  <1> DEFINE b == closing[d].on
             q == closing[d].read
  <1>2. PICK s \in Closed :
            assignment' = [assignment EXCEPT ![b] = [q EXCEPT !.status = s]]
    BY DEF SaveClosed
  <1>7. b \in Assignments /\ q \in Record /\ Exists(b)
    BY DEF SaveClosed, PlanningInv, PlanningTypes, SectionInv
  <1>3. OfAssignee(k)' = OfAssignee(k) /\ OfAssignee(k) \in SUBSET Assignments
    BY <1>1, <1>2, <1>7 DEF SaveClosed, OfAssignee, Exists, Closed, Record
  <1> HIDE DEF b, q
  <1>4. ASSUME NEW a \in Assignments
        PROVE  Shares(assignment', OfAssignee(k)' \ X)[a] <= Shares(assignment, OfAssignee(k) \ X)[a]
    <2>1. assignment[a].share \in Nat
      BY <1>1 DEF Record
    <2>2. CASE a = b
      BY <1>1, <1>2, <1>7, <2>1, <2>2 DEF Shares, Closed, Record
    <2>3. CASE a # b
      BY <1>1, <1>2, <1>3, <2>1, <2>3 DEF Shares
    <2>4. QED
      BY <2>2, <2>3
  <1>5. Total(assignment', OfAssignee(k)' \ X) <= Total(assignment, OfAssignee(k) \ X)
    BY <1>1, <1>3, <1>4, TotalShrinks
  <1>6. QED
    BY <1>5 DEF Total

LEMMA ClosingKeepsCapacity ==
    ASSUME PlanningInv, CapacityInv, NEW d \in Closers,
           SaveClosed(d) \/ \E a \in Assignments : ReadToClose(d, a)
    PROVE  CapacityInv'
  <1>1. UNCHANGED <<state, key, ask, others, work, assignee>>
    BY DEF SaveClosed, ReadToClose, mutexVars, sectionVars
  <1>2. CASE \E a \in Assignments : ReadToClose(d, a)
    BY <1>1, <1>2, RecordsAlone DEF ReadToClose, CapacityInv
  <1>3. CASE SaveClosed(d)
    <2>1. ASSUME NEW c \in Calls, work[c] = "ready"
          PROVE  Total(assignment, OfAssignee(key[c]) \ {Target(c)})' <= others[c]
      <3> DEFINE k == key[c]
                 X == {Target(c)}
      <3>1. k \in Keys /\ k' = k /\ X' = X
        BY <1>1 DEF PlanningInv, MutexInv, MutexTypeOK, Target
      <3>2. Total(assignment, OfAssignee(key[c]) \ {Target(c)})' = Total(assignment', OfAssignee(k)' \ X)
        BY <3>1 DEF Total, OfAssignee, Exists
      <3>3. Total(assignment', OfAssignee(k)' \ X) <= Total(assignment, OfAssignee(k) \ X)
        BY <1>3, <3>1, ClosingShrinks DEF Total
      <3>4. /\ Total(assignment, OfAssignee(k) \ X) <= others[c] /\ others[c] \in Int
        BY <2>1 DEF CapacityInv
      <3>5. /\ Total(assignment, OfAssignee(k) \ X) \in Int
            /\ Total(assignment', OfAssignee(k)' \ X) \in Int
        BY TotalIsSum, ClosingKeepsInv DEF PlanningInv, PlanningTypes, OfAssignee
      <3>6. QED
        BY <3>2, <3>3, <3>4, <3>5
    <2>2. QED
      BY <1>1, <2>1 DEF CapacityInv
  <1>4. QED
    BY <1>2, <1>3

LEMMA CapacityKept ==
    ASSUME PlanningInv, CapacityInv, [PlanningNext]_planningVars
    PROVE  CapacityInv'
  <1>1. CASE UNCHANGED planningVars
    BY <1>1, RecordsAlone DEF planningVars, mutexVars, sectionVars, CapacityInv
  <1>2. QED
    BY <1>1, CallKeepsCapacity, SectionKeepsCapacity, ReadOthersKeepsCapacity, SaveKeepsCapacity,
       ClosingKeepsCapacity DEF PlanningNext

\* Nobody's load grows beyond the capacity the request that makes it grow
\* allows: whatever is assigned, changed and closed meanwhile.
THEOREM LoadsStayWithinCapacity == PlanningSpec => WithinCapacity
  <1>1. PlanningInit => CapacityInv
    BY DEF PlanningInit, MutexInit, CapacityInv
  <1>2. PlanningInv /\ CapacityInv /\ [PlanningNext]_planningVars => CapacityInv'
    BY CapacityKept
  <1>3. ASSUME PlanningInv, CapacityInv, [PlanningNext]_planningVars,
               NEW k \in Keys, Load(k)' > Load(k)
        PROVE  \E c \in Calls : key[c] = k /\ Save(c) /\ Load(k)' <= ask[c].capacity
    <2>1. /\ Load(k) = Total(assignment, OfAssignee(k) \ {})
          /\ Load(k)' = Total(assignment, OfAssignee(k) \ {})'
          /\ Load(k)' = Total(assignment, OfAssignee(k))'
      BY DEF Load, ComputeTotalAllocation, Total
    <2>2. Load(k) \in Int
      BY <1>3, <2>1, TotalIsSum DEF PlanningInv, PlanningTypes, OfAssignee
    <2>3. CASE UNCHANGED <<assignment, assignee>>
      <3>1. Load(k)' = Load(k)
        BY <2>3 DEF Load, ComputeTotalAllocation, OfAssignee, Exists
      <3>2. QED
        BY <1>3, <2>2, <3>1
    <2>4. ASSUME NEW d \in Closers, SaveClosed(d)
          PROVE  FALSE
      <3>1. Load(k)' <= Load(k)
        BY <1>3, <2>1, <2>4, ClosingShrinks
      <3>2. Load(k)' \in Int
        BY <1>3, <2>1, <2>4, TotalIsSum, ClosingKeepsInv DEF PlanningInv, PlanningTypes, OfAssignee, Total
      <3>3. QED
        BY <1>3, <2>2, <3>1, <3>2
    <2>5. ASSUME NEW c \in Calls, Save(c)
          PROVE  key[c] = k /\ Load(k)' <= ask[c].capacity
      <3>1. key[c] = k
        <4>1. key[c] # k => Load(k)' = Load(k)
          BY <1>3, <2>1, <2>5, SaveElsewhere
        <4>2. QED
          BY <1>3, <2>2, <4>1
      <3>2. /\ Total(assignment, OfAssignee(key[c]))' <= others[c] + ask[c].share
            /\ Total(assignment, OfAssignee(key[c]))' \in Int
        BY <1>3, <2>5, SaveHere
      <3>3. key'[c] = key[c]
        BY <1>3, <2>5, SaveChangesOne
      <3>4. Load(k)' = Total(assignment, OfAssignee(key[c]))'
        BY <2>1, <3>1, <3>3 DEF Total, OfAssignee, Exists
      <3>5. ~ (others[c] + ask[c].share > ask[c].capacity)
        BY <2>5 DEF Save, IsOverAllocated
      <3>6. others[c] \in Int /\ ask[c].share \in Nat /\ ask[c].capacity \in Nat
        BY <1>3, CapacityParts DEF PlanningInv, PlanningTypes, CapacityInv
      <3>7. QED
        BY <3>1, <3>2, <3>4, <3>5, <3>6
    <2>6. QED
      BY <1>3, <2>3, <2>4, <2>5
         DEF PlanningNext, planningVars, AssignCall, UpdateCall, EnterSection, ReadOthers,
             RefuseAllocation, ReturnAssignment, ReleaseAssignee, ReadToClose
  <1>4. PlanningInv /\ CapacityInv /\ [PlanningNext]_planningVars
           => [\A k \in Keys : Load(k)' > Load(k) =>
                  \E c \in Calls : key[c] = k /\ Save(c) /\ Load(k)' <= ask[c].capacity]_planningVars
    BY <1>3
  <1>5. QED
    BY <1>1, <1>2, <1>4, PlanningInvariant, PTL DEF PlanningSpec, WithinCapacity
=============================================================================
