--------------------------------- MODULE Pool ---------------------------------
(***************************************************************************)
(* A producer pool from its constructor to its Close: instances are made   *)
(* one by one and recycled when one fails, callers take them round-robin   *)
(* from an atomic counter, and closing goroutines go through them while    *)
(* callers still Get. One module for the pools of all drivers: they differ *)
(* in what can fail and in how far the recycling loop goes.                *)
(*                                                                         *)
(* Registry counts a pool as one client, made at once or not at all.       *)
(***************************************************************************)
EXTENDS Integers

CONSTANTS PoolSizes, \* values of cfg.InstancePoolSize
          Wrap,      \* the counter is unsigned: 2^64 in the code
          Getters, Closers,
          MaxGets    \* bound: calls of Get

ASSUME PoolAssumption ==
  /\ PoolSizes \subseteq Int
  /\ Wrap \in Nat \ {0}
  /\ MaxGets \in Nat

Drivers == {"kafkax", "rabbitx", "redisx", "nsqx", "mqttx", "rocketx"}

\* Drivers that ping, connect or start an instance once it is made, and those
\* where making it can fail.
Checked   == {"redisx", "nsqx", "mqttx", "rocketx"}
MakeFails == Drivers \ {"redisx"}

\* Where the recycling loop is "j <= i" instead of "j < i".
ThroughFailed == {<<"redisx", "check">>, <<"nsqx", "check">>, <<"mqttx", "check">>,
                  <<"rocketx", "make">>, <<"rocketx", "check">>}

VARIABLES
  driver, size, \* whose pool it is, and p.size; they never change
  inst,     \* p.instances
  pc, i,    \* the constructor and its loop variable
  j, end,   \* the recycling loop: j < end
  counter, idx, gpc,   \* p.counter, each caller's copy, and where it is
  at,       \* the instance each closing goroutine is at
  gets, served         \* history: additions, and instances handed out

Slots == 0 .. size - 1

makeVars == <<driver, size, pc, i, j, end>>
getVars  == <<counter, idx, gpc, gets, served>>
vars     == <<makeVars, inst, getVars, at>>

\* Types; and the constructor fills the slots in order.
TypeOK ==
  /\ driver \in Drivers
  /\ size \in Nat \ {0}
  /\ inst \in [Slots -> {"nil", "live", "closed"}]
  /\ pc \in {"make", "check", "recycle", "failed", "panic", "ready"}
  /\ i \in 0 .. size /\ j \in 0 .. size /\ end \in 0 .. size
  /\ counter \in 0 .. Wrap - 1
  /\ idx \in [Getters -> 0 .. Wrap - 1]
  /\ gpc \in [Getters -> {"idle", "index"}]
  /\ at \in [Closers -> 0 .. size]
  /\ gets \in Nat
  /\ served \in [Slots -> Nat]
  /\ \A s \in Slots : inst[s] = "nil" <=> s >= i

Init ==
  /\ driver \in Drivers
  /\ \E n \in PoolSizes : size = IF n < 1 THEN 1 ELSE n
  /\ inst = [s \in Slots |-> "nil"]
  /\ pc = "make" /\ i = 0 /\ j = 0 /\ end = 0
  /\ counter = 0
  /\ idx = [g \in Getters |-> 0]
  /\ gpc = [g \in Getters |-> "idle"]
  /\ at = [c \in Closers |-> 0]
  /\ gets = 0
  /\ served = [s \in Slots |-> 0]

-----------------------------------------------------------------------------
\* pool.instances[i] = p; i++
Keep ==
  /\ inst' = [inst EXCEPT ![i] = "live"]
  /\ i' = i + 1
  /\ pc' = "make"
  /\ UNCHANGED <<driver, size, j, end, getVars, at>>

Make ==
  /\ pc = "make" /\ i < size
  /\ driver \notin Checked
  /\ Keep

MakeUnchecked ==
  /\ pc = "make" /\ i < size
  /\ driver \in Checked
  /\ pc' = "check"
  /\ UNCHANGED <<driver, size, inst, i, j, end, getVars, at>>

CheckOk == pc = "check" /\ Keep

\* Mutant of Fail: "j <= i" everywhere.
FailThrough ==
  /\ \/ pc = "make" /\ i < size /\ driver \in MakeFails
     \/ pc = "check"
  /\ pc' = "recycle"
  /\ j' = 0
  /\ end' = i + 1
  /\ UNCHANGED <<driver, size, inst, i, getVars, at>>

\* Instance i failed: the loop over those before it begins. An instance whose
\* check failed has been closed (redisx, nsqx) or was never connected; rocketx
\* leaves one that did not start as it is.
Fail ==
  /\ \/ pc = "make" /\ i < size /\ driver \in MakeFails
     \/ pc = "check"
  /\ pc' = "recycle"
  /\ j' = 0
  /\ end' = IF <<driver, pc>> \in ThroughFailed THEN i + 1 ELSE i
  /\ UNCHANGED <<driver, size, inst, i, getVars, at>>

\* Mutant of Recycle: the loop begins at 1.
RecycleSkipsFirst ==
  /\ pc = "recycle" /\ j < end
  /\ j' = j + 1
  /\ IF inst[j] = "nil" THEN pc' = "panic" /\ UNCHANGED inst
     ELSE /\ UNCHANGED pc
          /\ inst' = IF j = 0 THEN inst ELSE [inst EXCEPT ![j] = "closed"]
  /\ UNCHANGED <<driver, size, i, end, getVars, at>>

\* pool.instances[j].Close(), on a nil instance a panic.
Recycle ==
  /\ pc = "recycle" /\ j < end
  /\ j' = j + 1
  /\ IF inst[j] = "nil" THEN pc' = "panic" /\ UNCHANGED inst
     ELSE inst' = [inst EXCEPT ![j] = "closed"] /\ UNCHANGED pc
  /\ UNCHANGED <<driver, size, i, end, getVars, at>>

ReturnError ==
  /\ pc = "recycle" /\ j = end
  /\ pc' = "failed"
  /\ UNCHANGED <<driver, size, inst, i, j, end, getVars, at>>

ReturnPool ==
  /\ pc = "make" /\ i = size
  /\ pc' = "ready"
  /\ UNCHANGED <<driver, size, inst, i, j, end, getVars, at>>

-----------------------------------------------------------------------------
Serve(s) == served' = [served EXCEPT ![s] = @ + 1]

\* Get of a pool of one instance leaves the counter alone.
GetOnly(g) ==
  /\ pc = "ready" /\ gets < MaxGets
  /\ size = 1
  /\ Serve(0)
  /\ gets' = gets + 1
  /\ UNCHANGED <<makeVars, inst, counter, idx, gpc, at>>

\* idx := atomic.AddUint64(&p.counter, 1)
Add(g) ==
  /\ pc = "ready" /\ gets < MaxGets
  /\ size # 1
  /\ gpc[g] = "idle"
  /\ counter' = (counter + 1) % Wrap
  /\ idx' = [idx EXCEPT ![g] = counter']
  /\ gpc' = [gpc EXCEPT ![g] = "index"]
  /\ gets' = gets + 1
  /\ UNCHANGED <<makeVars, inst, served, at>>

\* Mutant of Index: the shared counter is read again.
IndexShared(g) ==
  /\ gpc[g] = "index"
  /\ Serve(counter % size)
  /\ gpc' = [gpc EXCEPT ![g] = "idle"]
  /\ UNCHANGED <<makeVars, inst, counter, idx, gets, at>>

\* return p.instances[idx%uint64(p.size)]
Index(g) ==
  /\ gpc[g] = "index"
  /\ Serve(idx[g] % size)
  /\ gpc' = [gpc EXCEPT ![g] = "idle"]
  /\ UNCHANGED <<makeVars, inst, counter, idx, gets, at>>

\* Mutant of CloseNext: it skips every other instance.
CloseEveryOther(c) ==
  /\ pc = "ready" /\ at[c] < size
  /\ inst' = [inst EXCEPT ![at[c]] = "closed"]
  /\ at' = [at EXCEPT ![c] = IF @ + 2 > size THEN size ELSE @ + 2]
  /\ UNCHANGED <<makeVars, getVars>>

\* One round of Close's loop, in Shutdown's goroutine or in Reload's delayed one;
\* nothing keeps the two apart.
CloseNext(c) ==
  /\ pc = "ready" /\ at[c] < size
  /\ inst' = [inst EXCEPT ![at[c]] = "closed"]
  /\ at' = [at EXCEPT ![c] = @ + 1]
  /\ UNCHANGED <<makeVars, getVars>>

Next ==
  \/ Make \/ MakeUnchecked \/ CheckOk \/ Fail \/ Recycle
  \/ ReturnError \/ ReturnPool
  \/ \E g \in Getters : GetOnly(g) \/ Add(g) \/ Index(g)
  \/ \E c \in Closers : CloseNext(c)

Spec == Init /\ [][Next]_vars

-----------------------------------------------------------------------------
\* When the constructor returns an error, or dies, every instance it made has
\* been closed: the all-or-nothing that Registry relies on.
NothingLeftOpen ==
  pc \in {"failed", "panic"} => \A s \in Slots : inst[s] # "live"

\* "Recycle the instances that were created": recycling touches no other.
RecyclesCreated == pc # "panic"

\* kafkax and rabbitx, whose loops all stop before the failed instance, do so.
StrictLoopsRecycleCreated ==
  driver \notin {t[1] : t \in ThroughFailed} => RecyclesCreated

\* Once all Gets have returned, no instance has been handed out more than once
\* more than another, whatever the interleaving; each time the counter wraps
\* may add one.
Balanced ==
  (\A g \in Getters : gpc[g] = "idle") =>
    \A s, t \in Slots : served[s] <= served[t] + 1 + gets \div Wrap

\* A closing goroutine that has gone through the pool leaves nothing open, with
\* another one beside it.
ClosedWhenDone ==
  (\E c \in Closers : at[c] = size) => \A s \in Slots : inst[s] = "closed"

\* How far the constructor and its recycling loop have got.
RecycleInv ==
  /\ pc = "check" => i < size
  /\ pc = "ready" => i = size
  /\ pc = "recycle" => /\ i < size /\ j <= end /\ i <= end
                       /\ end > i => driver \in {t[1] : t \in ThroughFailed}
                       /\ \A s \in Slots : s < j => inst[s] = "closed"
  /\ pc \in {"failed", "panic"} => \A s \in Slots : inst[s] # "live"
  /\ pc = "panic" => driver \in {t[1] : t \in ThroughFailed}

\* What a closing goroutine has passed is closed, and none starts on a pool that
\* is not made.
CloseInv ==
  \A c \in Closers :
    /\ pc # "ready" => at[c] = 0
    /\ \A s \in Slots : s < at[c] => inst[s] = "closed"

PoolInv == TypeOK /\ RecycleInv /\ CloseInv
=============================================================================
