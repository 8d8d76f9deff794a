--------------------------- MODULE FuzzyMutexProofs --------------------------
(***************************************************************************)
(* Theorems about FuzzyMutexAsync, for any clients, keys and timeout.      *)
(***************************************************************************)
EXTENDS FuzzyMutex, TLAPS

(* A client that delays had not reached the timeout when it looked.        *)
DelayBound == \A c \in Clients : pc[c] = "delay" => elapsed[c] <= Timeout

IInv == TypeOK /\ DelayBound /\ MutualExclusion /\ DirectoryExact

LEMMA InvInit == Init => IInv
BY TimeoutAssumption DEF Init, IInv, TypeOK, DelayBound, MutualExclusion, DirectoryExact, Owners

(* Adding the key makes its adder the only owner; removing it takes the    *)
(* only owner away; no other step touches the owners or the dictionary.    *)
LEMMA InvStep == IInv /\ [Next]_vars => IInv'
<1> SUFFICES ASSUME IInv, [Next]_vars PROVE IInv'
  OBVIOUS
<1> USE TimeoutAssumption DEF IInv, TypeOK, DelayBound, Goto
<1>1. ASSUME NEW c \in Clients, NEW k \in Keys, LockAsync(c, k) PROVE IInv'
  <2>1. \A j \in Keys : Owners(j)' = Owners(j)
    BY <1>1 DEF LockAsync, Owners
  <2>2. TypeOK'
    BY <1>1 DEF LockAsync
  <2> QED
    BY <1>1, <2>1, <2>2 DEF LockAsync, MutualExclusion, DirectoryExact
<1>2. ASSUME NEW c \in Clients, TryAdd(c) PROVE IInv'
  <2>1. Owners(key[c]) = {}
    BY <1>2 DEF TryAdd, DirectoryExact
  <2>2. \A j \in Keys : Owners(j)' = IF j = key[c] THEN {c} ELSE Owners(j)
    BY <1>2, <2>1 DEF TryAdd, Owners
  <2>3. TypeOK'
    BY <1>2 DEF TryAdd
  <2> QED
    BY <1>2, <2>2, <2>3 DEF TryAdd, MutualExclusion, DirectoryExact
<1>3. ASSUME NEW c \in Clients, Blocked(c) \/ TimesOut(c) \/ Delay(c) \/ Catch(c) PROVE IInv'
  <2>1. \A j \in Keys : Owners(j)' = Owners(j)
    BY <1>3 DEF Blocked, TimesOut, Delay, Catch, Owners
  <2>2. CASE Delay(c)
    <3>1. elapsed[c] \in 0..Timeout /\ elapsed[c] + 1 \in 0..(Timeout + 1)
      BY <2>2 DEF Delay
    <3>2. TypeOK' /\ DelayBound'
      BY <2>2, <3>1 DEF Delay
    <3> QED
      BY <2>1, <2>2, <3>2 DEF Delay, MutualExclusion, DirectoryExact
  <2>3. CASE Blocked(c) \/ TimesOut(c) \/ Catch(c)
    BY <2>1, <2>3 DEF Blocked, TimesOut, Catch, MutualExclusion, DirectoryExact
  <2> QED
    BY <1>3, <2>2, <2>3
<1>4. ASSUME NEW c \in Clients, Dispose(c) PROVE IInv'
  <2>1. Owners(key[c]) = {c}
    BY <1>4 DEF Dispose, MutualExclusion, Owners
  <2>2. \A j \in Keys : Owners(j)' = IF j = key[c] THEN {} ELSE Owners(j)
    BY <1>4, <2>1 DEF Dispose, Owners
  <2>3. TypeOK'
    BY <1>4 DEF Dispose
  <2> QED
    BY <1>4, <2>2, <2>3 DEF Dispose, MutualExclusion, DirectoryExact
<1>5. CASE UNCHANGED vars
  BY <1>5 DEF vars, MutualExclusion, DirectoryExact, Owners
<1> QED
  BY <1>1, <1>2, <1>3, <1>4, <1>5 DEF Next, Poll

LEMMA Inductive == Spec => []IInv
BY InvInit, InvStep, PTL DEF Spec

(* The mutex's variables stay in their ranges: nobody polls for longer     *)
(* than one delay beyond the timeout.                                      *)
THEOREM Typing == Spec => []TypeOK
<1>1. IInv => TypeOK
  BY DEF IInv
<1> QED
  BY <1>1, Inductive, PTL

(* Two clients never hold the same key.                                    *)
THEOREM Exclusion == Spec => []MutualExclusion
<1>1. IInv => MutualExclusion
  BY DEF IInv
<1> QED
  BY <1>1, Inductive, PTL

(* No key is left behind in the dictionary, and none is missing.           *)
THEOREM NoKeyLeftBehind == Spec => []DirectoryExact
<1>1. IInv => DirectoryExact
  BY DEF IInv
<1> QED
  BY <1>1, Inductive, PTL

(* WasBlocked is true of a call exactly if it has been in the delay: the   *)
(* delay is only reached by being blocked, a new call starts without the   *)
(* flag and with no time elapsed, and who times out has waited before.     *)
THEOREM BlockedRemembers == Spec => []BlockedIsKnown
<1>1. Init => BlockedIsKnown
  BY DEF Init, BlockedIsKnown
<1>2. IInv /\ BlockedIsKnown /\ [Next]_vars => BlockedIsKnown'
  <2> SUFFICES ASSUME IInv, BlockedIsKnown, [Next]_vars PROVE BlockedIsKnown'
    OBVIOUS
  <2> USE DEF IInv, TypeOK, BlockedIsKnown, Goto
  <2>1. ASSUME NEW c \in Clients, NEW k \in Keys, LockAsync(c, k) PROVE BlockedIsKnown'
    BY <2>1 DEF LockAsync
  <2>2. ASSUME NEW c \in Clients, TryAdd(c) \/ Dispose(c) \/ Catch(c) PROVE BlockedIsKnown'
    BY <2>2 DEF TryAdd, Dispose, Catch
  <2>3. ASSUME NEW c \in Clients, Blocked(c) \/ TimesOut(c) PROVE BlockedIsKnown'
    BY <2>3, TimeoutAssumption DEF Blocked, TimesOut
  <2>4. ASSUME NEW c \in Clients, Delay(c) PROVE BlockedIsKnown'
    BY <2>4 DEF Delay
  <2>5. CASE UNCHANGED vars
    BY <2>5 DEF vars
  <2> QED
    BY <2>1, <2>2, <2>3, <2>4, <2>5 DEF Next, Poll
<1> QED
  BY <1>1, <1>2, Inductive, PTL DEF Spec

(* FuzzyMutexAsync implements a lock per key.                              *)
THEOREM MutexImplementsLock == Spec => ImplementsLock
<1>1. Init => Lock!Init
  BY DEF Init, Lock!Init, Owners
<1>2. IInv /\ [Next]_vars => [Lock!Next]_[k \in Keys |-> Owners(k)]
  <2> SUFFICES ASSUME IInv, [Next]_vars
               PROVE  [Lock!Next]_[k \in Keys |-> Owners(k)]
    OBVIOUS
  <2> DEFINE owners == [k \in Keys |-> Owners(k)]
  <2> USE DEF IInv, TypeOK, Goto
  <2>1. ASSUME NEW c \in Clients, TryAdd(c) PROVE Lock!Next
    <3>1. Owners(key[c]) = {}
      BY <2>1 DEF TryAdd, DirectoryExact
    <3>2. owners' = [owners EXCEPT ![key[c]] = {c}]
      BY <2>1, <3>1 DEF TryAdd, Owners
    <3>3. key[c] \in Keys /\ Lock!Acquire(c, key[c])
      BY <3>1, <3>2 DEF Lock!Acquire
    <3> QED
      BY <3>3 DEF Lock!Next
  <2>2. ASSUME NEW c \in Clients, Dispose(c) PROVE Lock!Next
    <3>1. c \in Owners(key[c])
      BY <2>2 DEF Dispose, Owners
    <3>2. owners' = [owners EXCEPT ![key[c]] = @ \ {c}]
      BY <2>2 DEF Dispose, Owners
    <3>3. key[c] \in Keys /\ Lock!Release(c, key[c])
      BY <3>1, <3>2 DEF Lock!Release
    <3> QED
      BY <3>3 DEF Lock!Next
  <2>3. ASSUME NEW c \in Clients,
               (\E k \in Keys : LockAsync(c, k)) \/ Blocked(c) \/ TimesOut(c)
                  \/ Delay(c) \/ Catch(c)
        PROVE  owners' = owners
    BY <2>3 DEF LockAsync, Blocked, TimesOut, Delay, Catch, Owners
  <2>4. CASE UNCHANGED vars
    BY <2>4 DEF vars, Owners
  <2> QED
    BY <2>1, <2>2, <2>3, <2>4 DEF Next, Poll
<1> QED
  BY <1>1, <1>2, Inductive, PTL DEF Spec, ImplementsLock, Lock!Spec
==============================================================================
