------------------------------ MODULE PoolProofs ------------------------------
(***************************************************************************)
(* Proofs about Pool, for every pool size, counter width, number of        *)
(* callers and of closing goroutines.                                      *)
(***************************************************************************)
EXTENDS Pool, FiniteSetTheorems, TLAPS

\* The fresh pool satisfies the invariant.
LEMMA PoolInit == Init => PoolInv
BY PoolAssumption DEF Init, PoolInv, TypeOK, RecycleInv, CloseInv, Slots, Drivers

\* Every action keeps the types, the order in which slots are filled included.
LEMMA PoolTypeStep == PoolInv /\ [Next]_vars => TypeOK'
<1> SUFFICES ASSUME PoolInv, [Next]_vars PROVE TypeOK'
  OBVIOUS
<1> USE DEF PoolInv, TypeOK, Slots
<1>1. CASE Make \/ CheckOk
  <2>1. i < size /\ Keep
    BY <1>1 DEF Make, CheckOk, RecycleInv
  <2> QED
    BY <2>1 DEF Keep, getVars
<1>2. CASE MakeUnchecked \/ ReturnError \/ ReturnPool
  BY <1>2 DEF MakeUnchecked, ReturnError, ReturnPool, getVars
<1>3. CASE Fail
  BY <1>3 DEF Fail, getVars, RecycleInv
<1>4. CASE Recycle
  BY <1>4 DEF Recycle, getVars
<1>5. ASSUME NEW g \in Getters, GetOnly(g) PROVE TypeOK'
  BY <1>5 DEF GetOnly, Serve, makeVars
<1>6. ASSUME NEW g \in Getters, Add(g) PROVE TypeOK'
  <2>1. (counter + 1) % Wrap \in 0 .. Wrap - 1
    BY PoolAssumption
  <2> QED
    BY <1>6, <2>1 DEF Add, makeVars
<1>7. ASSUME NEW g \in Getters, Index(g) PROVE TypeOK'
  <2>1. idx[g] % size \in Slots
    BY PoolAssumption
  <2> QED
    BY <1>7, <2>1 DEF Index, Serve, makeVars
<1>8. ASSUME NEW c \in Closers, CloseNext(c) PROVE TypeOK'
  BY <1>8 DEF CloseNext, makeVars, getVars, CloseInv, RecycleInv
<1>9. CASE UNCHANGED vars
  BY <1>9 DEF vars, makeVars, getVars
<1> QED
  BY <1>1, <1>2, <1>3, <1>4, <1>5, <1>6, <1>7, <1>8, <1>9 DEF Next

\* Every action keeps what is known of the constructor and its recycling loop.
LEMMA RecycleStep == PoolInv /\ [Next]_vars => RecycleInv'
<1> SUFFICES ASSUME PoolInv, [Next]_vars PROVE RecycleInv'
  OBVIOUS
<1> USE DEF PoolInv, TypeOK, RecycleInv, Slots
<1>1. CASE Make \/ CheckOk
  <2>1. i < size /\ Keep
    BY <1>1 DEF Make, CheckOk
  <2> QED
    BY <2>1 DEF Keep
<1>2. CASE MakeUnchecked \/ ReturnPool
  BY <1>2 DEF MakeUnchecked, ReturnPool
<1>3. CASE ReturnError
  <2>1. \A s \in Slots : inst[s] # "live"
    BY <1>3 DEF ReturnError
  <2> QED
    BY <1>3, <2>1 DEF ReturnError
<1>4. CASE Fail
  BY <1>4 DEF Fail
<1>5. CASE Recycle
  <2>1. CASE inst[j] = "nil"
    \* Then the loop has reached the failed slot, and all before it are closed.
    <3>1. j >= i /\ end > i
      BY <1>5, <2>1 DEF Recycle
    <3>2. \A s \in Slots : inst[s] # "live"
      BY <1>5, <3>1 DEF Recycle
    <3> QED
      BY <1>5, <2>1, <3>1, <3>2 DEF Recycle
  <2>2. CASE inst[j] # "nil"
    BY <1>5, <2>2 DEF Recycle
  <2> QED
    BY <2>1, <2>2
<1>6. ASSUME NEW g \in Getters, GetOnly(g) \/ Add(g) \/ Index(g)
      PROVE  RecycleInv'
  BY <1>6 DEF GetOnly, Add, Index, makeVars
<1>7. ASSUME NEW c \in Closers, CloseNext(c) PROVE RecycleInv'
  BY <1>7 DEF CloseNext, makeVars
<1>8. CASE UNCHANGED vars
  BY <1>8 DEF vars, makeVars
<1> QED
  BY <1>1, <1>2, <1>3, <1>4, <1>5, <1>6, <1>7, <1>8 DEF Next

\* Every action keeps what is known of the closing goroutines: they do not undo
\* each other's work, and the constructor is over when they start.
LEMMA CloseStep == PoolInv /\ [Next]_vars => CloseInv'
<1> SUFFICES ASSUME PoolInv, [Next]_vars, NEW c \in Closers
             PROVE  /\ pc' # "ready" => at'[c] = 0
                    /\ \A s \in Slots' : s < at'[c] => inst'[s] = "closed"
  BY DEF CloseInv
<1> USE DEF PoolInv, TypeOK, RecycleInv, CloseInv, Slots
<1>1. CASE Make \/ CheckOk
  BY <1>1 DEF Make, CheckOk, Keep
<1>2. CASE MakeUnchecked \/ ReturnError \/ ReturnPool \/ Fail
  BY <1>2 DEF MakeUnchecked, ReturnError, ReturnPool, Fail
<1>3. CASE Recycle
  BY <1>3 DEF Recycle
<1>4. ASSUME NEW g \in Getters, GetOnly(g) \/ Add(g) \/ Index(g)
      PROVE  UNCHANGED <<pc, size, at, inst>>
  BY <1>4 DEF GetOnly, Add, Index, makeVars
<1>5. ASSUME NEW d \in Closers, CloseNext(d)
      PROVE  /\ pc' # "ready" => at'[c] = 0
             /\ \A s \in Slots' : s < at'[c] => inst'[s] = "closed"
  <2>1. CASE d = c
    BY <1>5, <2>1 DEF CloseNext, makeVars
  <2>2. CASE d # c
    BY <1>5, <2>2 DEF CloseNext, makeVars
  <2> QED
    BY <2>1, <2>2
<1>6. CASE UNCHANGED vars
  BY <1>6 DEF vars, makeVars
<1> QED
  BY <1>1, <1>2, <1>3, <1>4, <1>5, <1>6 DEF Next

\* PoolInv holds in every reachable state.
THEOREM PoolInvariance == Spec => []PoolInv
<1>1. Init => PoolInv
  BY PoolInit
<1>2. PoolInv /\ [Next]_vars => PoolInv'
  BY PoolTypeStep, RecycleStep, CloseStep DEF PoolInv
<1> QED
  BY <1>1, <1>2, PTL DEF Spec

\* All or nothing: a constructor of any driver that fails or dies leaves no
\* instance open, for every pool size.
THEOREM AllOrNothing == Spec => []NothingLeftOpen
<1>1. PoolInv => NothingLeftOpen
  BY DEF PoolInv, RecycleInv, NothingLeftOpen
<1> QED
  BY <1>1, PoolInvariance, PTL

\* The recycling loops that stop before the failed instance never touch a slot
\* that was not filled.
THEOREM StrictRecycling == Spec => []StrictLoopsRecycleCreated
<1>1. PoolInv => StrictLoopsRecycleCreated
  BY DEF PoolInv, RecycleInv, StrictLoopsRecycleCreated, RecyclesCreated
<1> QED
  BY <1>1, PoolInvariance, PTL

\* Whoever has gone through the pool leaves every instance closed, however many
\* closing goroutines there are.
THEOREM CloseIsComplete == Spec => []ClosedWhenDone
<1>1. PoolInv => ClosedWhenDone
  BY DEF PoolInv, TypeOK, CloseInv, ClosedWhenDone, Slots
<1> QED
  BY <1>1, PoolInvariance, PTL

-----------------------------------------------------------------------------
(***************************************************************************)
(* Balanced. Every addition to the counter takes a slot: the next one      *)
(* round-robin, or slot 0 when the counter wraps. What has been taken is   *)
(* what was served and what callers have added for but not indexed yet.    *)
(***************************************************************************)
InFlight(s) == {g \in Getters : gpc[g] = "index" /\ idx[g] % size = s}
Taken(s)    == served[s] + Cardinality(InFlight(s))

\* The full rounds a slot was taken in: the round in progress has got to the
\* counter's slot, and began at slot 0 before anyone took it.
Rounds(s) == Taken(s) - IF s <= counter % size THEN 1 ELSE 0

\* Wrapping cuts a round short, so slots may drift apart by one each time.
BalanceInv ==
  size # 1 =>
    /\ counter = gets % Wrap
    /\ \A s \in Slots : IsFiniteSet(InFlight(s))
    /\ \A s, t \in Slots :
         Rounds(s) - Rounds(t) <= (gets \div Wrap) + IF t = 0 /\ s # 0 THEN 1 ELSE 0

\* What counting one further does to remainder and quotient.
LEMMA CountOn ==
  ASSUME NEW n \in Nat, NEW w \in Nat \ {0}
  PROVE  /\ n % w \in 0 .. w - 1 /\ n \div w \in Nat
         /\ (n + 1) % w = IF n % w = w - 1 THEN 0 ELSE (n % w) + 1
         /\ (n + 1) \div w = (n \div w) + IF n % w = w - 1 THEN 1 ELSE 0
<1>1. /\ n = w * (n \div w) + (n % w)
      /\ n % w \in 0 .. w - 1 /\ n \div w \in Nat
  OBVIOUS
<1>2. ASSUME NEW q \in Int, NEW r \in 0 .. w - 1, n + 1 = w * q + r
      PROVE  (n + 1) % w = r /\ (n + 1) \div w = q
  BY <1>2
<1>3. CASE n % w = w - 1
  <2>1. n + 1 = w * ((n \div w) + 1) + 0
    BY <1>1, <1>3
  <2> QED BY <1>1, <1>2, <1>3, <2>1
<1>4. CASE n % w # w - 1
  <2>1. n + 1 = w * (n \div w) + ((n % w) + 1)
    BY <1>1, <1>4
  <2> QED BY <1>1, <1>2, <1>4, <2>1
<1> QED BY <1>3, <1>4

\* A small number is its own remainder.
LEMMA SmallRemainder ==
  ASSUME NEW n \in Nat, NEW w \in Nat \ {0}, n < w
  PROVE  n % w = n
OBVIOUS

\* Add takes the slot of the new count, and no other.
LEMMA AddTakes ==
  ASSUME TypeOK, BalanceInv, NEW g \in Getters, Add(g), NEW s \in Slots
  PROVE  /\ IsFiniteSet(InFlight(s)')
         /\ Taken(s) \in Nat
         /\ Taken(s)' = Taken(s) + IF counter' % size = s THEN 1 ELSE 0
<1> USE DEF TypeOK, Slots
<1>1. IsFiniteSet(InFlight(s)) /\ Cardinality(InFlight(s)) \in Nat
  BY FS_CardinalityType DEF Add, BalanceInv
<1>2. g \notin InFlight(s)
  BY DEF Add, InFlight
<1>3. InFlight(s)' = IF counter' % size = s THEN InFlight(s) \cup {g} ELSE InFlight(s)
  BY DEF Add, InFlight, makeVars
<1>4. served'[s] = served[s] /\ served[s] \in Nat
  BY DEF Add
<1>5. CASE counter' % size = s
  <2>1. /\ IsFiniteSet(InFlight(s) \cup {g})
        /\ Cardinality(InFlight(s) \cup {g}) = Cardinality(InFlight(s)) + 1
    BY <1>1, <1>2, FS_AddElement
  <2>2. InFlight(s)' = InFlight(s) \cup {g}
    BY <1>3, <1>5
  <2>3. Taken(s)' = served'[s] + Cardinality(InFlight(s)')
    BY DEF Taken
  <2> HIDE DEF TypeOK
  <2> QED BY <1>1, <1>4, <1>5, <2>1, <2>2, <2>3 DEF Taken
<1>6. CASE counter' % size # s
  BY <1>1, <1>3, <1>4, <1>6 DEF Taken
<1> QED BY <1>5, <1>6

\* Index serves the slot that its caller took.
LEMMA IndexServes ==
  ASSUME TypeOK, BalanceInv, size # 1, NEW g \in Getters, Index(g), NEW s \in Slots
  PROVE  IsFiniteSet(InFlight(s)') /\ Taken(s)' = Taken(s)
<1> USE DEF TypeOK, Slots
<1>1. IsFiniteSet(InFlight(s)) /\ Cardinality(InFlight(s)) \in Nat
  BY FS_CardinalityType DEF BalanceInv
<1>2. InFlight(s)' = InFlight(s) \ {g}
  BY DEF Index, InFlight, makeVars
<1>3. served[s] \in Nat /\ served'[s] = served[s] + IF idx[g] % size = s THEN 1 ELSE 0
  BY DEF Index, Serve
<1>4. g \in InFlight(s) <=> idx[g] % size = s
  BY DEF Index, InFlight
<1>5. /\ IsFiniteSet(InFlight(s) \ {g})
      /\ Cardinality(InFlight(s) \ {g}) =
           IF g \in InFlight(s) THEN Cardinality(InFlight(s)) - 1
                                ELSE Cardinality(InFlight(s))
  BY <1>1, FS_RemoveElement
<1> QED BY <1>1, <1>2, <1>3, <1>4, <1>5 DEF Taken

\* Every action keeps the slots in balance.
LEMMA BalanceStep == TypeOK /\ BalanceInv /\ [Next]_vars => BalanceInv'
<1> SUFFICES ASSUME TypeOK, BalanceInv, [Next]_vars, size' # 1 PROVE BalanceInv'
  BY DEF BalanceInv
<1>s. size' = size /\ driver' = driver
  BY DEF Next, Make, MakeUnchecked, CheckOk, Keep, Fail, Recycle, ReturnError,
         ReturnPool, GetOnly, Add, Index, CloseNext, makeVars, vars
<1> USE <1>s DEF Slots
<1>1. ASSUME NEW g \in Getters, Add(g) PROVE BalanceInv'
  <2> DEFINE e == counter % size
             w == gets \div Wrap
             Seen(s) == IF s <= e THEN 1 ELSE 0
  <2>t. /\ counter \in Nat /\ gets \in Nat /\ size \in Nat \ {0, 1}
        /\ Wrap \in Nat \ {0} /\ counter = gets % Wrap /\ counter < Wrap
    BY PoolAssumption DEF TypeOK, BalanceInv
  <2>1. /\ gets' = gets + 1
        /\ counter' = IF counter = Wrap - 1 THEN 0 ELSE counter + 1
        /\ counter' = gets' % Wrap
        /\ gets' \div Wrap = w + IF counter = Wrap - 1 THEN 1 ELSE 0
        /\ w \in Nat
    <3>1. counter % Wrap = counter
      BY <2>t, SmallRemainder
    <3>2. (counter + 1) % Wrap = IF counter = Wrap - 1 THEN 0 ELSE counter + 1
      BY <2>t, <3>1, CountOn
    <3>3. /\ (gets + 1) % Wrap = IF counter = Wrap - 1 THEN 0 ELSE counter + 1
          /\ (gets + 1) \div Wrap = w + IF counter = Wrap - 1 THEN 1 ELSE 0
          /\ w \in Nat
      BY <2>t, CountOn
    <3>4. gets' = gets + 1 /\ counter' = (counter + 1) % Wrap
      BY <1>1 DEF Add
    <3> QED BY <3>2, <3>3, <3>4
  <2>2. /\ e \in 0 .. size - 1
        /\ counter' % size = IF counter = Wrap - 1 \/ e = size - 1 THEN 0 ELSE e + 1
    <3>1. 0 % size = 0
      BY <2>t, SmallRemainder
    <3>2. /\ e \in 0 .. size - 1
          /\ (counter + 1) % size = IF e = size - 1 THEN 0 ELSE e + 1
      BY <2>t, CountOn
    <3> QED BY <2>1, <3>1, <3>2
  <2>3. \A s \in Slots : /\ IsFiniteSet(InFlight(s)') /\ Taken(s) \in Nat
                         /\ Taken(s)' = Taken(s) + IF counter' % size = s THEN 1 ELSE 0
    BY <1>1, AddTakes
  <2>4. \A s, t \in Slots :
          (Taken(s) - Seen(s)) - (Taken(t) - Seen(t)) <= w + IF t = 0 /\ s # 0 THEN 1 ELSE 0
    BY <2>t DEF BalanceInv, Rounds
  <2>5. ASSUME NEW s \in Slots, NEW t \in Slots
        PROVE  Rounds(s)' - Rounds(t)' <=
                 (gets' \div Wrap) + IF t = 0 /\ s # 0 THEN 1 ELSE 0
    <3> DEFINE f == counter' % size
               New(x) == Taken(x) + (IF f = x THEN 1 ELSE 0) - IF x <= f THEN 1 ELSE 0
    <3>1. Rounds(s)' = New(s) /\ Rounds(t)' = New(t)
      BY <2>3 DEF Rounds
    <3>2. /\ Taken(s) \in Nat /\ Taken(t) \in Nat
          /\ (Taken(s) - Seen(s)) - (Taken(t) - Seen(t)) <= w + IF t = 0 /\ s # 0 THEN 1 ELSE 0
      BY <2>3, <2>4
    <3>3. New(s) - New(t) <= (gets' \div Wrap) + IF t = 0 /\ s # 0 THEN 1 ELSE 0
      BY <2>1, <2>2, <2>t, <3>2
    <3> QED BY <3>1, <3>3
  <2> QED BY <2>1, <2>3, <2>5 DEF BalanceInv
<1>2. ASSUME NEW g \in Getters, Index(g) PROVE BalanceInv'
  <2>1. \A s \in Slots : IsFiniteSet(InFlight(s)') /\ Taken(s)' = Taken(s)
    BY <1>2, IndexServes
  <2>2. \A s \in Slots : Rounds(s)' = Rounds(s)
    BY <1>2, <2>1 DEF Rounds, Index
  <2> QED BY <1>2, <2>1, <2>2 DEF BalanceInv, Index
<1>3. ASSUME NEW g \in Getters, GetOnly(g) PROVE BalanceInv'
  BY <1>3 DEF GetOnly
<1>4. ASSUME UNCHANGED getVars PROVE BalanceInv'
  BY <1>4 DEF BalanceInv, Rounds, Taken, InFlight, getVars
<1> QED
  BY <1>1, <1>2, <1>3, <1>4
     DEF Next, Make, MakeUnchecked, CheckOk, Keep, Fail, Recycle, ReturnError,
         ReturnPool, CloseNext, vars

\* The counter, the callers that are between their addition and their index,
\* and what was served agree.
THEOREM BalanceInvariance == Spec => []BalanceInv
<1>1. Init => BalanceInv
  <2> SUFFICES ASSUME Init PROVE BalanceInv
    OBVIOUS
  <2>1. size \in Nat \ {0}
    BY PoolAssumption DEF Init
  <2>2. 0 % Wrap = 0 /\ 0 \div Wrap = 0 /\ 0 % size = 0
    BY <2>1, PoolAssumption
  <2>3. \A s \in Slots : InFlight(s) = {} /\ Taken(s) = 0
    BY FS_EmptySet DEF Init, InFlight, Taken
  <2>4. counter = 0 /\ gets = 0
    BY DEF Init
  <2>5. ASSUME NEW s \in Slots, NEW t \in Slots
        PROVE  Rounds(s) - Rounds(t) <= 0 + IF t = 0 /\ s # 0 THEN 1 ELSE 0
    <3>1. s \in Nat /\ t \in Nat /\ Taken(s) = 0 /\ Taken(t) = 0
      BY <2>1, <2>3 DEF Slots
    <3>2. Rounds(s) = (0 - IF s = 0 THEN 1 ELSE 0) /\ Rounds(t) = (0 - IF t = 0 THEN 1 ELSE 0)
      BY <2>2, <2>4, <3>1 DEF Rounds
    <3> QED BY <3>2
  <2> QED BY <2>2, <2>3, <2>4, <2>5, FS_EmptySet DEF BalanceInv
<1>2. TypeOK /\ BalanceInv /\ [Next]_vars => BalanceInv'
  BY BalanceStep
<1>3. PoolInv => TypeOK
  BY DEF PoolInv
<1> QED BY <1>1, <1>2, <1>3, PoolInvariance, PTL DEF Spec

\* Callers share the instances evenly for every number of them, every pool size
\* and every width of the counter.
THEOREM EvenlyShared == Spec => []Balanced
<1>1. TypeOK /\ BalanceInv => Balanced
  <2> SUFFICES ASSUME TypeOK, BalanceInv, \A g \in Getters : gpc[g] = "idle",
                      NEW s \in Slots, NEW t \in Slots
               PROVE  served[s] <= served[t] + 1 + gets \div Wrap
    BY DEF Balanced
  <2>1. /\ served[s] \in Nat /\ served[t] \in Nat /\ size \in Nat \ {0}
        /\ gets \div Wrap \in Nat
    BY CountOn, PoolAssumption DEF TypeOK
  <2>2. CASE size = 1
    BY <2>1, <2>2 DEF Slots
  <2>3. CASE size # 1
    <3>1. InFlight(s) = {} /\ InFlight(t) = {}
      BY DEF InFlight
    <3>2. Taken(s) = served[s] /\ Taken(t) = served[t]
      BY <2>1, <3>1, FS_EmptySet DEF Taken
    <3>3. counter % size \in 0 .. size - 1
      <4>1. counter \in Nat
        BY PoolAssumption DEF TypeOK
      <4> QED BY <2>1, <4>1, CountOn
    <3>4. Rounds(s) - Rounds(t) <= (gets \div Wrap) + IF t = 0 /\ s # 0 THEN 1 ELSE 0
      BY <2>3 DEF BalanceInv
    <3> QED BY <2>1, <3>2, <3>3, <3>4 DEF Rounds, Slots
  <2> QED BY <2>2, <2>3
<1>2. PoolInv => TypeOK
  BY DEF PoolInv
<1> QED BY <1>1, <1>2, PoolInvariance, BalanceInvariance, PTL
=============================================================================
