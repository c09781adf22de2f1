------------------------------ MODULE KeyMutex ------------------------------
(***************************************************************************)
(* createKeyMutex of packages/shared-kernel: a per-key chain of promises.  *)
(* A call of runExclusive links itself behind the promise the tail map     *)
(* holds for its key, runs when that promise settles, and drops the map    *)
(* entry when it settles and nothing was queued behind it.  The finance,   *)
(* inventory and project-management engines guard their read-compute-write *)
(* sequences with it.                                                      *)
(***************************************************************************)
EXTENDS SequencesExt

CONSTANTS
    Calls,   \* the calls of runExclusive, each made at most once
    Keys,    \* the lock keys, for instance "<item>::<warehouse>"
    NoCall,  \* Promise.resolve(): no predecessor; an absent tail entry
    Stuck    \* the keys whose guarded functions may never settle

ASSUME CallsAssumption == IsFiniteSet(Calls)
ASSUME KeysAssumption == Keys # {}
ASSUME NoCallAssumption == NoCall \notin Calls
ASSUME StuckAssumption == Stuck \subseteq Keys

VARIABLES
    state,    \* per call: where its promise chain is
    key,      \* per call: the key it was made for (any key while idle)
    previous, \* per call: the call whose settling it waits for
    tail,     \* per key: the newest call queued, or NoCall
    earlier   \* history: the calls of the same key made before this one

mutexVars == <<state, key, previous, tail, earlier>>

CallStates == {"idle", "queued", "running", "settling", "settled"}

MutexInit ==
    /\ state = [c \in Calls |-> "idle"]
    /\ key = [c \in Calls |-> CHOOSE k \in Keys : TRUE]
    /\ previous = [c \in Calls |-> NoCall]
    /\ tail = [k \in Keys |-> NoCall]
    /\ earlier = [c \in Calls |-> {}]

\* runExclusive(k, fn): the synchronous part of the call.
RunExclusive(c, k) ==
    /\ state[c] = "idle"
    /\ state' = [state EXCEPT ![c] = "queued"]
    /\ key' = [key EXCEPT ![c] = k]
    /\ previous' = [previous EXCEPT ![c] = tail[k]]
    /\ tail' = [tail EXCEPT ![k] = c]
    /\ earlier' = [earlier EXCEPT ![c] =
                      {d \in Calls : state[d] # "idle" /\ key[d] = k}]

\* Faulty: fn starts without waiting for the predecessor.
BeginAtOnce(c) ==
    /\ state[c] = "queued"
    /\ state' = [state EXCEPT ![c] = "running"]
    /\ UNCHANGED <<key, previous, tail, earlier>>

\* previous.then(fn, fn): fn starts, whatever the predecessor's outcome was.
Begin(c) ==
    /\ state[c] = "queued"
    /\ previous[c] # NoCall => state[previous[c]] = "settled"
    /\ state' = [state EXCEPT ![c] = "running"]
    /\ UNCHANGED <<key, previous, tail, earlier>>

\* Faulty: a rejection of fn leaves its chain unsettled.
FinishOrReject(c) ==
    /\ state[c] = "running"
    /\ \E s \in {"settling", "rejected"} : state' = [state EXCEPT ![c] = s]
    /\ UNCHANGED <<key, previous, tail, earlier>>

\* The promise fn returned is fulfilled or rejected.
Finish(c) ==
    /\ state[c] = "running"
    /\ state' = [state EXCEPT ![c] = "settling"]
    /\ UNCHANGED <<key, previous, tail, earlier>>

\* Faulty: the entry is dropped although calls are queued behind.
SettleDropsEntry(c) ==
    /\ state[c] = "settling"
    /\ state' = [state EXCEPT ![c] = "settled"]
    /\ tail' = [tail EXCEPT ![key[c]] = NoCall]
    /\ UNCHANGED <<key, previous, earlier>>

\* `settled` resolves; its first reaction drops the tail entry if it is ours.
Settle(c) ==
    /\ state[c] = "settling"
    /\ state' = [state EXCEPT ![c] = "settled"]
    /\ tail' = IF tail[key[c]] = c THEN [tail EXCEPT ![key[c]] = NoCall] ELSE tail
    /\ UNCHANGED <<key, previous, earlier>>

MutexNext ==
    \E c \in Calls :
        \/ \E k \in Keys : RunExclusive(c, k)
        \/ Begin(c)
        \/ Finish(c)
        \/ Settle(c)

MutexSpec == MutexInit /\ [][MutexNext]_mutexVars

-----------------------------------------------------------------------------

MutexTypeOK ==
    /\ state \in [Calls -> CallStates]
    /\ key \in [Calls -> Keys]
    /\ previous \in [Calls -> Calls \cup {NoCall}]
    /\ tail \in [Keys -> Calls \cup {NoCall}]
    /\ earlier \in [Calls -> SUBSET Calls]

InSection(c) == state[c] \in {"running", "settling"}

\* Two guarded functions of one key never overlap: "runs fn exclusively with
\* respect to any other runExclusive call for the same key".
MutualExclusion ==
    \A c, d \in Calls :
        InSection(c) /\ InSection(d) /\ key[c] = key[d] => c = d

\* Functions of one key run "queued in call order": when one has started,
\* every call made before it for that key has settled.
CallOrder ==
    \A c \in Calls : \A d \in earlier[c] :
        state[c] \in {"running", "settling", "settled"} => state[d] = "settled"

\* The map is bounded "to keys with in-flight or just-finished work": an entry
\* always names an unsettled call of its key, and it is the newest one.
TailIsNewest ==
    \A k \in Keys : tail[k] # NoCall =>
        /\ state[tail[k]] \notin {"idle", "settled"}
        /\ key[tail[k]] = k
        /\ \A d \in Calls : state[d] # "idle" /\ key[d] = k =>
                               d = tail[k] \/ d \in earlier[tail[k]]

\* A function that never settles holds up its own key only: every call for
\* another key eventually settles.
OtherKeysProceed ==
    \A c \in Calls :
        (state[c] = "queued" /\ key[c] \notin Stuck) ~> (state[c] = "settled")

\* The promise chain implements a first-come-first-served lock per key: its
\* queue holds the calls that wait or run ...
Unsettled(k) == {c \in Calls : key[c] = k /\ state[c] \in {"queued", "running"}}

\* ... in call order, which is how before[c] precedes c in
Enumeration(S, before) ==
    CHOOSE q \in [1..Cardinality(S) -> S] :
        \A i, j \in DOMAIN q : i < j <=> q[i] \in before[q[j]]

Lock == INSTANCE FifoLock WITH
    Clients <- Calls,
    queue <- [k \in Keys |-> Enumeration(Unsettled(k), earlier)],
    holding <- {c \in Calls : state[c] = "running"},
    gone <- {c \in Calls : state[c] \in {"settling", "settled"}}

ImplementsFifoLock == Lock!Spec
=============================================================================
