----------------------------- MODULE FuzzyMutex ------------------------------
(***************************************************************************)
(* FuzzyMutexAsync (gView.Framework/Common/FuzzyMutexAsync.cs): a lock per *)
(* string key made of one static ConcurrentDictionary.  A key is taken by  *)
(* TryAdd and given back by TryRemove; who cannot add polls after a random *)
(* delay and throws when it polled for longer than the timeout.  The       *)
(* dictionary does not know who added a key.                               *)
(***************************************************************************)
EXTENDS Naturals

CONSTANTS Clients,   \* the callers of LockAsync
          Keys,
          Timeout    \* timeoutMilliSeconds, in delays of the poll loop

ASSUME TimeoutAssumption == Timeout \in Nat

VARIABLES directory,   \* the keys of _mutexDirectory
          pc,          \* where each client is
          key,         \* the key of its call
          elapsed,     \* DateTime.Now - start, in delays
          wasBlocked   \* the clients that saw TryAdd fail in this call

vars == <<directory, pc, key, elapsed, wasBlocked>>

Init == /\ directory = {}
        /\ pc = [c \in Clients |-> "outside"]
        /\ key \in [Clients -> Keys]
        /\ elapsed = [c \in Clients |-> 0]
        /\ wasBlocked = {}

Goto(c, from, to) == pc[c] = from /\ pc' = [pc EXCEPT ![c] = to]

LockAsync(c, k) == /\ Goto(c, "outside", "try")
                   /\ key' = [key EXCEPT ![c] = k]
                   /\ elapsed' = [elapsed EXCEPT ![c] = 0]
                   /\ wasBlocked' = wasBlocked \ {c}
                   /\ UNCHANGED directory

(* Mistakes to mutate with: the ContainsKey-then-Add a TryAdd saves one    *)
(* from, with the look already behind it, ...                              *)
AddUnseen(c) == /\ Goto(c, "try", "held")
                /\ directory' = directory \cup {key[c]}
                /\ UNCHANGED <<key, elapsed, wasBlocked>>

TryAdd(c) == /\ key[c] \notin directory
             /\ Goto(c, "try", "held")
             /\ directory' = directory \cup {key[c]}
             /\ UNCHANGED <<key, elapsed, wasBlocked>>

(* ... a poll that never gives up, or does not say that it was blocked, ... *)
BlockedForever(c) == /\ key[c] \in directory
                     /\ Goto(c, "try", "delay")
                     /\ wasBlocked' = wasBlocked \cup {c}
                     /\ UNCHANGED <<directory, key, elapsed>>

BlockedSilently(c) == /\ key[c] \in directory
                      /\ elapsed[c] <= Timeout
                      /\ Goto(c, "try", "delay")
                      /\ UNCHANGED <<directory, key, elapsed, wasBlocked>>

Blocked(c) == /\ key[c] \in directory
              /\ elapsed[c] <= Timeout
              /\ Goto(c, "try", "delay")
              /\ wasBlocked' = wasBlocked \cup {c}
              /\ UNCHANGED <<directory, key, elapsed>>

(* ... a waiter that cleans up the key it could not get, ...               *)
TimesOutRemoving(c) == /\ key[c] \in directory
                       /\ elapsed[c] > Timeout
                       /\ Goto(c, "try", "thrown")
                       /\ wasBlocked' = wasBlocked \cup {c}
                       /\ directory' = directory \ {key[c]}
                       /\ UNCHANGED <<key, elapsed>>

TimesOut(c) == /\ key[c] \in directory
               /\ elapsed[c] > Timeout
               /\ Goto(c, "try", "thrown")
               /\ wasBlocked' = wasBlocked \cup {c}
               /\ UNCHANGED <<directory, key, elapsed>>

(* ... and a start that is taken anew after every delay.                   *)
DelayRestarting(c) == /\ Goto(c, "delay", "try")
                      /\ elapsed' = [elapsed EXCEPT ![c] = 0]
                      /\ UNCHANGED <<directory, key, wasBlocked>>

Delay(c) == /\ Goto(c, "delay", "try")
            /\ elapsed' = [elapsed EXCEPT ![c] = @ + 1]
            /\ UNCHANGED <<directory, key, wasBlocked>>

(* Mutex.Dispose, at the end of the caller's using block.                  *)
Dispose(c) == /\ Goto(c, "held", "outside")
              /\ directory' = directory \ {key[c]}
              /\ UNCHANGED <<key, elapsed, wasBlocked>>

(* The caller handles the FuzzyMutexAsyncExcepiton.                        *)
Catch(c) == /\ Goto(c, "thrown", "outside")
            /\ UNCHANGED <<directory, key, elapsed, wasBlocked>>

Poll(c) == TryAdd(c) \/ Blocked(c) \/ TimesOut(c) \/ Delay(c)

Next == \E c \in Clients :
          \/ \E k \in Keys : LockAsync(c, k)
          \/ Poll(c) \/ Dispose(c) \/ Catch(c)

Spec == Init /\ [][Next]_vars

(* Only the poll loop is driven on: nothing is assumed of the owners.      *)
LiveSpec == Spec /\ \A c \in Clients : WF_vars(Poll(c))

------------------------------------------------------------------------------
(* Every variable stays in its range.                                      *)
TypeOK == /\ directory \subseteq Keys
          /\ pc \in [Clients -> {"outside", "try", "delay", "held", "thrown"}]
          /\ key \in [Clients -> Keys]
          /\ elapsed \in [Clients -> 0..(Timeout + 1)]
          /\ wasBlocked \subseteq Clients

Owners(k) == {c \in Clients : pc[c] = "held" /\ key[c] = k}

(* A key never has two owners, although Dispose removes whatever entry     *)
(* the dictionary has, and giving up takes no one's key away.              *)
MutualExclusion == \A k \in Keys : \A c, d \in Owners(k) : c = d

(* The dictionary has exactly the keys that somebody owns: a key left      *)
(* behind would block its map for ever.                                    *)
DirectoryExact == \A k \in Keys : k \in directory <=> Owners(k) # {}

(* A call is flagged exactly if it has waited, and it waits, or gives up,  *)
(* only behind another one: callers skip their work when WasBlocked, and   *)
(* must neither skip what nobody else did nor do it twice.                 *)
BlockedIsKnown == \A c \in Clients :
  pc[c] # "outside" => (c \in wasBlocked <=> pc[c] = "delay" \/ elapsed[c] > 0)

(* A call of LockAsync comes to an end even if the owner never disposes.   *)
LockAsyncReturns == \A c \in Clients :
  pc[c] = "try" ~> pc[c] \in {"held", "thrown"}

Lock == INSTANCE KeyedLock WITH owners <- [k \in Keys |-> Owners(k)]

(* The mutex implements a lock per key.                                    *)
ImplementsLock == Lock!Spec
==============================================================================
