--------------------------- MODULE LoginGuardProofs -------------------------
(***************************************************************************)
(* How many wrong passwords the guard lets through on one count, and that  *)
(* it is the guard in which every attempt is one step, for every number of *)
(* attempts in flight, every threshold and every deadline.                 *)
(***************************************************************************)
EXTENDS LoginGuard, FiniteSetTheorems, TLAPS

Steps == {"idle", "fail count", "verify", "wrong", "right", "window"} \cup Locking

\* Attempts on their way to clear a count that has reached the threshold.
Clearing == { a \in Attempts : OnItsWayToLock(a) }

\* The inductive invariant: what is counted beyond the threshold is on account
\* of an attempt that will clear the count, or of one that died before it had.
GuardInv ==
  /\ attempt \in [Attempts -> [pc : Steps, n : Nat]]
  /\ fail.n \in Nat /\ lockn.n \in Nat /\ deaths \in Nat
  /\ fail.n <= MaxFailures - 1 + Cardinality(Clearing) + deaths

LEMMA MinOfTwo ==
  ASSUME NEW m \in Int, NEW n \in Int
  PROVE  Min({m, n}) = IF m <= n THEN m ELSE n
BY DEF Min

LEMMA Limits ==
  /\ IsFiniteSet(Attempts) /\ Cardinality(Attempts) \in Nat
  /\ MaxFailures \in Nat \ {0} /\ MaxLocks \in Nat /\ MaxDeaths \in Nat
<1>1. IsFiniteSet(Attempts) /\ MaxDeaths \in Nat
  BY GuardAssumption DEF GuardAssumption
<1>2. MaxFailures \in Nat \ {0} /\ MaxLocks \in Nat \ {0}
  BY GuardAssumption DEF GuardAssumption
<1> QED
  BY <1>1, <1>2, FS_CardinalityType

LEMMA ClearingIsFinite ==
  /\ IsFiniteSet(Clearing) /\ Cardinality(Clearing) \in Nat
  /\ Cardinality(Clearing) <= Cardinality(Attempts)
<1>1. Clearing \subseteq Attempts /\ IsFiniteSet(Attempts)
  BY Limits DEF Clearing, OnItsWayToLock, At
<1> QED
  BY <1>1, FS_Subset, FS_CardinalityType

\* The same about the set after a step.
LEMMA ClearingStaysFinite ==
  IsFiniteSet(Clearing') /\ Cardinality(Clearing') \in Nat
<1>1. Clearing' \subseteq Attempts /\ IsFiniteSet(Attempts)
  BY Limits DEF Clearing, OnItsWayToLock, At
<1> QED
  BY <1>1, FS_Subset, FS_CardinalityType

\* INCR counts one more at most, and enough to see the threshold reached.
LEMMA IncrCounts ==
  ASSUME NEW key, key.n \in Nat
  PROVE  /\ Incr(key).n \in Nat \ {0} /\ Incr(key).n <= key.n + 1
         /\ key.n + 1 >= MaxFailures => Incr(key).n >= MaxFailures
<1> DEFINE most == MaxFailures + MaxLocks + Cardinality(Attempts) + MaxDeaths
<1>1. most \in Nat \ {0} /\ most >= MaxFailures /\ MaxFailures \in Nat
  BY Limits
<1>2. Incr(key).n = Min({key.n + 1, most})
  BY DEF Incr, Key
<1> HIDE DEF most
<1> QED
  BY <1>1, <1>2, MinOfTwo

\* A step of one attempt that neither counts nor leaves the clearing ones.
LEMMA SameClearing ==
  ASSUME GuardInv, attempt' \in [Attempts -> [pc : Steps, n : Nat]],
         Clearing' = Clearing, fail'.n \in Nat, fail'.n <= fail.n,
         lockn'.n \in Nat, deaths' = deaths
  PROVE  GuardInv'
BY Limits, ClearingIsFinite, ClearingStaysFinite DEF GuardInv

\* A step after which nothing is counted.
LEMMA NothingCounted ==
  ASSUME GuardInv, attempt' \in [Attempts -> [pc : Steps, n : Nat]],
         fail' = Gone, lockn'.n \in Nat, deaths' = deaths
  PROVE  GuardInv'
BY Limits, ClearingStaysFinite DEF GuardInv, Gone, Key

\* What one attempt does leaves the others where they are.
LEMMA OthersStay ==
  ASSUME GuardInv, NEW a \in Attempts, NEW next \in [pc : Steps, n : Nat],
         attempt' = [attempt EXCEPT ![a] = next]
  PROVE  /\ attempt' \in [Attempts -> [pc : Steps, n : Nat]]
         /\ attempt'[a] = next
         /\ \A b \in Attempts \ {a} : attempt'[b] = attempt[b]
         /\ Clearing' \ {a} = Clearing \ {a}
BY DEF GuardInv, Clearing, OnItsWayToLock, At

\* A wrong password beyond the threshold puts its own attempt among those that
\* clear, which it had not been.
LEMMA CountKeeps ==
  ASSUME GuardInv, NEW a \in Attempts, CountFailure(a)
  PROVE  GuardInv'
<1> DEFINE n == Incr(fail).n
           next == [pc |-> IF n = 1 THEN "window" ELSE AfterCount(n), n |-> n]
<1>1. /\ n \in Nat \ {0} /\ n <= fail.n + 1
      /\ MaxFailures \in Nat \ {0}
  BY Limits, IncrCounts DEF GuardInv
<1>2. fail'.n = n /\ attempt' = [attempt EXCEPT ![a] = next]
      /\ UNCHANGED <<lockn, deaths>>
  BY DEF CountFailure
<1> HIDE DEF n
<1>3. next \in [pc : Steps, n : Nat]
  BY <1>1 DEF Steps, Locking, AfterCount
<1>4. next.pc = (IF n = 1 THEN "window" ELSE AfterCount(n)) /\ next.n = n
  OBVIOUS
<1> HIDE DEF next
<1>5. /\ attempt' \in [Attempts -> [pc : Steps, n : Nat]] /\ attempt'[a] = next
      /\ Clearing' \ {a} = Clearing \ {a}
  BY <1>2, <1>3, OthersStay
<1>6. a \notin Clearing
  BY DEF CountFailure, Clearing, OnItsWayToLock, At, Locking
<1>7. CASE n >= MaxFailures
  <2>1. a \in Clearing'
    BY <1>4, <1>5, <1>7 DEF Clearing, OnItsWayToLock, At, AfterCount, Triggers, Locking
  <2>2. Clearing' = Clearing \cup {a}
    BY <1>5, <1>6, <2>1
  <2>3. Cardinality(Clearing') = Cardinality(Clearing) + 1
    BY <1>6, <2>2, ClearingIsFinite, FS_AddElement
  <2> QED
    BY <1>1, <1>2, <1>5, <2>3, ClearingIsFinite DEF GuardInv
<1>8. CASE ~ (n >= MaxFailures)
  BY <1>1, <1>2, <1>5, <1>8, ClearingStaysFinite DEF GuardInv
<1> QED
  BY <1>7, <1>8

\* An attempt that dies takes itself away, and is counted.
LEMMA DieKeeps ==
  ASSUME GuardInv, NEW a \in Attempts, Die(a)
  PROVE  GuardInv'
<1>1. Idle \in [pc : Steps, n : Nat] /\ Idle.pc = "idle"
  BY DEF Idle, Steps
<1>2. attempt' = [attempt EXCEPT ![a] = Idle] /\ deaths' = deaths + 1
      /\ UNCHANGED <<fail, lockn>>
  BY DEF Die, Return, keys
<1>3. /\ attempt' \in [Attempts -> [pc : Steps, n : Nat]] /\ attempt'[a] = Idle
      /\ Clearing' \ {a} = Clearing \ {a}
  BY <1>1, <1>2, OthersStay
<1>4. a \notin Clearing'
  BY <1>1, <1>3 DEF Clearing, OnItsWayToLock, At, Locking
<1>5. Clearing' = Clearing \ {a}
  BY <1>3, <1>4
<1>6. Cardinality(Clearing') >= Cardinality(Clearing) - 1
  BY <1>5, ClearingIsFinite, FS_RemoveElement
<1> QED
  BY <1>2, <1>3, <1>6, Limits, ClearingIsFinite, ClearingStaysFinite DEF GuardInv

\* Where an attempt that has not failed goes.
LEMMA AskingMoves ==
  ASSUME GuardInv, NEW a \in Attempts,
         \/ CheckLock(a)
         \/ \E captcha \in BOOLEAN : CheckCaptcha(a, captcha)
         \/ \E pc \in {"wrong", "right", "refused"} : Verify(a, pc)
  PROVE  \E next \in [pc : Steps, n : Nat] :
           /\ next.pc \in {"idle", "fail count", "verify", "wrong", "right"}
           /\ attempt' = [attempt EXCEPT ![a] = next]
<1>0. Idle \in [pc : Steps, n : Nat] /\ Idle.pc = "idle"
  BY DEF Idle, Steps
<1>1. ASSUME NEW pc \in {"fail count", "verify", "wrong", "right"},
             attempt' = [attempt EXCEPT ![a].pc = pc]
      PROVE  /\ [attempt[a] EXCEPT !.pc = pc] \in [pc : Steps, n : Nat]
             /\ [attempt[a] EXCEPT !.pc = pc].pc = pc
             /\ attempt' = [attempt EXCEPT ![a] = [attempt[a] EXCEPT !.pc = pc]]
  BY <1>1 DEF GuardInv, Steps
<1>2. \/ attempt' = [attempt EXCEPT ![a] = Idle]
      \/ \E pc \in {"fail count", "verify", "wrong", "right"} :
           attempt' = [attempt EXCEPT ![a].pc = pc]
  BY DEF CheckLock, CheckCaptcha, Verify, GoTo, Return
<1> QED
  BY <1>0, <1>1, <1>2

\* Before it has failed, an attempt clears nothing.
LEMMA AskingKeeps ==
  ASSUME GuardInv, NEW a \in Attempts,
         \/ CheckLock(a)
         \/ \E captcha \in BOOLEAN : CheckCaptcha(a, captcha)
         \/ \E pc \in {"wrong", "right", "refused"} : Verify(a, pc)
  PROVE  GuardInv'
<1>2. /\ UNCHANGED <<fail, lockn, deaths>>
      /\ attempt[a].pc \in {"idle", "fail count", "verify"}
  BY DEF CheckLock, CheckCaptcha, Verify, At, keys
<1>3. PICK next \in [pc : Steps, n : Nat] :
        /\ next.pc \in {"idle", "fail count", "verify", "wrong", "right"}
        /\ attempt' = [attempt EXCEPT ![a] = next]
  BY AskingMoves
<1>4. /\ attempt' \in [Attempts -> [pc : Steps, n : Nat]] /\ attempt'[a] = next
      /\ Clearing' \ {a} = Clearing \ {a}
  BY <1>3, OthersStay
<1>5. a \notin Clearing /\ a \notin Clearing'
  BY <1>2, <1>3, <1>4 DEF Clearing, OnItsWayToLock, At, Locking
<1>6. Clearing' = Clearing
  BY <1>4, <1>5
<1> QED
  BY <1>2, <1>4, <1>6, SameClearing DEF GuardInv

\* A new window changes the deadline of the count; the attempt goes on to lock
\* if it was on its way to.
LEMMA WindowKeeps ==
  ASSUME GuardInv, NEW a \in Attempts, StartWindow(a)
  PROVE  GuardInv'
<1> DEFINE pc == AfterCount(attempt[a].n)
           next == [attempt[a] EXCEPT !.pc = pc]
<1>1. attempt' = [attempt EXCEPT ![a] = next] /\ UNCHANGED <<lockn, deaths>>
  BY DEF StartWindow, GoTo, GuardInv
<1>2. next \in [pc : Steps, n : Nat] /\ next.pc = pc
  BY DEF GuardInv, Steps, Locking, AfterCount
<1> HIDE DEF next
<1>3. /\ attempt' \in [Attempts -> [pc : Steps, n : Nat]] /\ attempt'[a] = next
      /\ Clearing' \ {a} = Clearing \ {a}
  BY <1>1, <1>2, OthersStay
<1>4. a \in Clearing <=> Triggers(attempt[a].n)
  BY DEF StartWindow, Clearing, OnItsWayToLock, At, Locking
<1>5. a \in Clearing' <=> Triggers(attempt[a].n)
  BY <1>2, <1>3 DEF Clearing, OnItsWayToLock, At, AfterCount, Locking
<1>6. Clearing' = Clearing
  BY <1>3, <1>4, <1>5
<1>7. fail'.n \in Nat /\ fail'.n <= fail.n
  BY DEF StartWindow, Expire, Gone, Key, GuardInv
<1> QED
  BY <1>1, <1>3, <1>6, <1>7, SameClearing DEF GuardInv

\* Where an attempt on its way to lock goes.
LEMMA LockingMoves ==
  ASSUME GuardInv, NEW a \in Attempts, CountLock(a) \/ RememberLock(a) \/ SetLock(a)
  PROVE  \E next \in [pc : Steps, n : Nat] :
           next.pc \in Locking /\ attempt' = [attempt EXCEPT ![a] = next]
<1>1. CASE CountLock(a)
  <2> DEFINE m == Min({lockn'.n, MaxLocks})
             pc == IF lockn'.n = 1 THEN "lock memory" ELSE "lock"
  <2>1. lockn'.n \in Nat
    BY <1>1, IncrCounts DEF CountLock, GuardInv
  <2>2. m \in Nat
    BY <2>1, Limits, MinOfTwo
  <2>3. attempt' = [attempt EXCEPT ![a] = [pc |-> pc, n |-> m]]
    BY <1>1 DEF CountLock
  <2> HIDE DEF m
  <2>4. [pc |-> pc, n |-> m] \in [pc : Steps, n : Nat] /\ pc \in Locking
    BY <2>2 DEF Steps, Locking
  <2> QED
    BY <2>3, <2>4
<1>2. CASE RememberLock(a) \/ SetLock(a)
  <2> DEFINE next(pc) == [attempt[a] EXCEPT !.pc = pc]
  <2>1. ASSUME NEW pc \in {"lock", "clear"}
        PROVE  next(pc) \in [pc : Steps, n : Nat] /\ next(pc).pc \in Locking
    BY DEF GuardInv, Steps, Locking
  <2>2. \E pc \in {"lock", "clear"} : attempt' = [attempt EXCEPT ![a] = next(pc)]
    BY <1>2 DEF RememberLock, SetLock, GoTo, GuardInv
  <2> QED
    BY <2>1, <2>2
<1> QED
  BY <1>1, <1>2

\* Until the lock is set and the count cleared, the attempt is on its way.
LEMMA LockingKeeps ==
  ASSUME GuardInv, NEW a \in Attempts, CountLock(a) \/ RememberLock(a) \/ SetLock(a)
  PROVE  GuardInv'
<1>1. PICK next \in [pc : Steps, n : Nat] :
        next.pc \in Locking /\ attempt' = [attempt EXCEPT ![a] = next]
  BY LockingMoves
<1>2. /\ attempt' \in [Attempts -> [pc : Steps, n : Nat]] /\ attempt'[a] = next
      /\ Clearing' \ {a} = Clearing \ {a}
  BY <1>1, OthersStay
<1>3. a \in Clearing /\ a \in Clearing'
  BY <1>1, <1>2 DEF CountLock, RememberLock, SetLock, Clearing, OnItsWayToLock, At, Locking
<1>4. Clearing' = Clearing
  BY <1>2, <1>3
<1>5. UNCHANGED <<fail, deaths>> /\ lockn'.n \in Nat
  <2>1. CASE CountLock(a)
    BY <2>1, IncrCounts DEF CountLock, GuardInv
  <2>2. CASE RememberLock(a)
    BY <2>2 DEF RememberLock, Expire, Gone, Key, GuardInv
  <2>3. CASE SetLock(a)
    BY <2>3 DEF SetLock, GuardInv
  <2> QED
    BY <2>1, <2>2, <2>3
<1> QED
  BY <1>2, <1>4, <1>5, SameClearing DEF GuardInv

\* A count that is cleared owes nothing.
LEMMA ClearKeeps ==
  ASSUME GuardInv, NEW a \in Attempts, ClearFailures(a) \/ Reset(a)
  PROVE  GuardInv'
<1>1. Idle \in [pc : Steps, n : Nat]
  BY DEF Idle, Steps
<1>2. attempt' = [attempt EXCEPT ![a] = Idle] /\ fail' = Gone /\ deaths' = deaths
  BY DEF ClearFailures, Reset, Return
<1>3. attempt' \in [Attempts -> [pc : Steps, n : Nat]]
  BY <1>1, <1>2, OthersStay
<1>4. lockn'.n \in Nat
  BY DEF ClearFailures, Reset, Gone, Key, GuardInv
<1> QED
  BY <1>2, <1>3, <1>4, NothingCounted

\* A deadline takes a count away or leaves it.
LEMMA TickKeeps ==
  ASSUME GuardInv, Tick
  PROVE  GuardInv'
<1>1. ASSUME NEW key, key.n \in Nat
      PROVE  Older(key).n \in Nat /\ Older(key).n <= key.n
  BY <1>1 DEF Older, Gone, Key
<1>2. UNCHANGED <<attempt, deaths>> /\ fail' = Older(fail) /\ lockn' = Older(lockn)
  BY DEF Tick
<1>3. Clearing' = Clearing
  BY <1>2 DEF Clearing, OnItsWayToLock, At
<1> QED
  BY <1>1, <1>2, <1>3, SameClearing DEF GuardInv

\* However attempts interleave and die, what is counted beyond the threshold is
\* on account of one that clears the count or has died.
THEOREM GuardInductive == Spec => []GuardInv
<1>1. Init => GuardInv
  <2> SUFFICES ASSUME Init PROVE GuardInv
    OBVIOUS
  <2>1. attempt \in [Attempts -> [pc : Steps, n : Nat]]
    BY DEF Init, Idle, Steps
  <2>2. fail.n = 0 /\ lockn.n = 0 /\ deaths = 0
    BY DEF Init, Gone, Key
  <2> QED
    BY <2>1, <2>2, Limits, ClearingIsFinite DEF GuardInv
<1>2. GuardInv /\ [Next]_vars => GuardInv'
  <2>1. ASSUME GuardInv, UNCHANGED vars PROVE GuardInv'
    <3>1. UNCHANGED <<attempt, fail, lockn, deaths>>
      BY <2>1 DEF vars, keys
    <3>2. Clearing' = Clearing
      BY <3>1 DEF Clearing, OnItsWayToLock, At
    <3> QED
      BY <2>1, <3>1, <3>2, SameClearing DEF GuardInv
  <2>2. ASSUME GuardInv, NEW a \in Attempts, CheckLock(a) \/ Answer(a) \/ Die(a)
        PROVE  GuardInv'
    BY <2>2, AskingKeeps, CountKeeps, WindowKeeps, LockingKeeps, ClearKeeps, DieKeeps
    DEF Answer
  <2> QED
    BY <2>1, <2>2, TickKeeps DEF Next
<1> QED
  BY <1>1, <1>2, PTL DEF Spec

\* The wrong passwords tried on one count are those that lock, one for each
\* other attempt in flight, and one for each that died before it had locked
\* (register_failure in core/ratelimit.py).
THEOREM GuessesAlwaysBounded == Spec => []GuessesBounded
<1>1. GuardInv => GuessesBounded
  BY Limits, ClearingIsFinite DEF GuardInv, GuessesBounded
<1> QED
  BY <1>1, GuardInductive, PTL

-----------------------------------------------------------------------------
(* The guard were every attempt one step *)

\* A key that is there has been counted.
IsKey(k) == k = Key(k.n, k.ttl) /\ (k = Gone \/ k.n \in Nat \ {0})

\* Attempts that have opened a window and have yet to give it its deadline.
Opening == { a \in Attempts : At(a, "window") }

\* The count is the one that is due, but for the deadline an attempt has yet to
\* set: no time has passed since.
CountMatches ==
  \/ fail = due.fail
  \/ Opening # {} /\ due.fail # Gone /\ fail = Key(due.fail.n, Forever)

\* What INCR and EXPIRE make of the count of locks.
Relocked(key) ==
  LET m == Incr(key) IN IF m.n = 1 THEN Expire(m, LockMemory) ELSE m

\* The lock that is due with a count of locks.
DueLock(locks) == Key(1, LockSeconds(Min({locks.n, MaxLocks})))

\* How far an attempt has come with the lock that is due.
LockMatches(a) ==
  /\ due.fail = Gone
  /\ due.lock = DueLock(due.lockn)
  /\ attempt[a].pc \in {"window", "lock count"} => due.lockn = Relocked(lockn)
  /\ At(a, "lock memory") => due.lockn = Expire(lockn, LockMemory)
  /\ attempt[a].pc \in {"lock", "clear"} => due.lockn = lockn
  /\ attempt[a].pc \in {"lock memory", "lock"} => attempt[a].n = Min({due.lockn.n, MaxLocks})
  /\ At(a, "clear") => lock = due.lock

\* While all is calm one attempt at most is on its way to lock, and the keys are
\* that attempt's steps behind what is due; if there is none they are what is due.
Exact ==
  /\ Opening # {} => due.fail = Gone \/ due.fail.ttl = FailWindow
  /\ \A a \in Clearing : Clearing = {a} /\ LockMatches(a)
  /\ Clearing = {} => CountMatches /\ lock = due.lock /\ lockn = due.lockn

KeysFit ==
  /\ IsKey(fail) /\ IsKey(lock) /\ IsKey(lockn)
  /\ due = [fail |-> due.fail, lock |-> due.lock, lockn |-> due.lockn]
  /\ IsKey(due.fail) /\ IsKey(due.lock) /\ IsKey(due.lockn)
  /\ calm \in BOOLEAN

\* The inductive invariant.
ExactInv == KeysFit /\ (calm => Exact)

LEMMA KeyFields ==
  ASSUME NEW n, NEW ttl
  PROVE  /\ Key(n, ttl).n = n /\ Key(n, ttl).ttl = ttl
         /\ n \in Nat \ {0} => IsKey(Key(n, ttl)) /\ Key(n, ttl) # Gone
         /\ IsKey(Gone) /\ Gone.n = 0
BY DEF Key, IsKey, Gone

\* A key is gone if and only if nothing is counted.
LEMMA GoneIsZero ==
  ASSUME NEW key, IsKey(key)
  PROVE  /\ key.n \in Nat /\ (key = Gone <=> key.n = 0)
         /\ key = Key(key.n, key.ttl)
BY KeyFields DEF IsKey

\* INCR counts what is there, and only a key that was gone from one.
LEMMA IncrOfKey ==
  ASSUME NEW key, IsKey(key)
  PROVE  /\ IsKey(Incr(key)) /\ Incr(key) # Gone
         /\ Incr(key).n \in Nat \ {0}
         /\ Incr(key).n = 1 <=> key = Gone
         /\ Incr(key).ttl = IF key = Gone THEN Forever ELSE key.ttl
<1> DEFINE most == MaxFailures + MaxLocks + Cardinality(Attempts) + MaxDeaths
           n == Min({key.n + 1, most})
           ttl == IF key = Gone THEN Forever ELSE key.ttl
<1>1. MaxFailures \in Nat \ {0} /\ MaxLocks \in Nat \ {0}
  BY GuardAssumption DEF GuardAssumption
<1>2. most \in Nat /\ most >= 2
  BY <1>1, Limits
<1>3. key.n \in Nat /\ (key = Gone <=> key.n = 0)
  BY GoneIsZero
<1>4. Incr(key) = Key(n, ttl)
  BY DEF Incr
<1> HIDE DEF most, ttl
<1>5. n \in Nat \ {0} /\ (n = 1 <=> key.n = 0)
  BY <1>2, <1>3, MinOfTwo
<1> HIDE DEF n
<1>6. Incr(key).n = n /\ Incr(key).ttl = ttl
  BY <1>4, KeyFields
<1>7. IsKey(Incr(key)) /\ Incr(key) # Gone
  BY <1>4, <1>5, KeyFields
<1> QED
  BY <1>3, <1>5, <1>6, <1>7 DEF ttl

\* INCR of two keys that count the same.
LEMMA IncrAlike ==
  ASSUME NEW key, NEW other, key.n = other.n
  PROVE  Incr(key).n = Incr(other).n
BY KeyFields DEF Incr

LEMMA ExpireOfKey ==
  ASSUME NEW key, IsKey(key), NEW ttl
  PROVE  /\ IsKey(Expire(key, ttl)) /\ Expire(key, ttl).n = key.n
         /\ key = Gone => Expire(key, ttl) = Gone
         /\ key # Gone => Expire(key, ttl) = Key(key.n, ttl)
<1>1. key.n \in Nat /\ (key = Gone <=> key.n = 0)
  BY GoneIsZero
<1> QED
  BY <1>1, KeyFields DEF Expire

LEMMA OlderOfKey ==
  ASSUME NEW key, IsKey(key)
  PROVE  IsKey(Older(key))
<1>1. key = Gone \/ key.n \in Nat \ {0}
  BY DEF IsKey
<1>2. Older(Gone) = Gone
  BY DEF Older, Gone, Key
<1>3. CASE key = Gone
  BY <1>2, <1>3
<1>4. CASE key.n \in Nat \ {0}
  <2>1. Older(key) \in {key, Gone, Key(key.n, key.ttl - 1)}
    BY DEF Older
  <2> QED
    BY <1>4, <2>1, KeyFields
<1> QED
  BY <1>1, <1>3, <1>4

LEMMA RelockedIsKey ==
  ASSUME NEW key, IsKey(key)
  PROVE  IsKey(Relocked(key)) /\ Relocked(key).n = Incr(key).n
BY IncrOfKey, ExpireOfKey DEF Relocked

\* What is due after one more wrong password.
LEMMA FailedIsDue ==
  ASSUME NEW g, g = [fail |-> g.fail, lock |-> g.lock, lockn |-> g.lockn],
         IsKey(g.fail), IsKey(g.lock), IsKey(g.lockn)
  PROVE  LET n == Incr(g.fail).n
             f == IF n = 1 THEN Key(1, FailWindow) ELSE Incr(g.fail)
             l == Relocked(g.lockn)
         IN  /\ Triggers(n) =>
                  Failed(g) = [fail |-> Gone, lock |-> DueLock(l), lockn |-> l]
             /\ ~ Triggers(n) =>
                  Failed(g) = [fail |-> f, lock |-> g.lock, lockn |-> g.lockn]
<1> DEFINE counted == Incr(g.fail)
           n == counted.n
           f == IF n = 1 THEN Expire(counted, FailWindow) ELSE counted
           l == Relocked(g.lockn)
<1>1. Failed(g) = IF Triggers(f.n)
                  THEN [fail |-> Gone, lock |-> DueLock(l), lockn |-> l]
                  ELSE [g EXCEPT !.fail = f]
  BY Zenon DEF Failed, Relocked, DueLock
<1>2. IsKey(counted) /\ counted # Gone
  BY IncrOfKey
<1> HIDE DEF l, counted
<1>3. f.n = n /\ f = IF n = 1 THEN Key(1, FailWindow) ELSE counted
  BY <1>2, ExpireOfKey
<1> HIDE DEF f, n
<1>4. [g EXCEPT !.fail = f] = [fail |-> f, lock |-> g.lock, lockn |-> g.lockn]
  OBVIOUS
<1>5. f = IF n = 1 THEN Key(1, FailWindow) ELSE Incr(g.fail)
  BY <1>3 DEF counted
<1>6. Triggers(f.n) <=> Triggers(n)
  BY <1>3
<1> DEFINE goal(m, k, r) ==
      /\ Triggers(m) => Failed(g) = [fail |-> Gone, lock |-> DueLock(r), lockn |-> r]
      /\ ~ Triggers(m) => Failed(g) = [fail |-> k, lock |-> g.lock, lockn |-> g.lockn]
<1>7. goal(n, f, l)
  BY <1>1, <1>4, <1>6
<1> HIDE DEF goal
<1>8. goal(Incr(g.fail).n,
           IF Incr(g.fail).n = 1 THEN Key(1, FailWindow) ELSE Incr(g.fail), Relocked(g.lockn))
  BY <1>5, <1>7 DEF n, counted, l
<1> QED
  BY <1>8 DEF goal

LEMMA OpeningStays ==
  ASSUME GuardInv, NEW a \in Attempts, NEW next \in [pc : Steps, n : Nat],
         attempt' = [attempt EXCEPT ![a] = next]
  PROVE  /\ Opening' \ {a} = Opening \ {a}
         /\ a \in Opening' <=> next.pc = "window"
BY DEF GuardInv, Opening, At

\* Nothing is to be shown of a guard that is out of order.
LEMMA NotCalm ==
  ASSUME KeysFit', ~ calm'
  PROVE  ExactInv'
BY DEF ExactInv

\* An attempt that reads, or gives up before its failure has triggered anything.
LEMMA SameExact ==
  ASSUME ExactInv, UNCHANGED <<fail, lock, lockn, due, calm>>,
         Clearing' = Clearing, Opening' = Opening,
         \A b \in Clearing : attempt'[b] = attempt[b]
  PROVE  ExactInv'
<1>1. KeysFit'
  BY DEF ExactInv, KeysFit, IsKey
<1>2. ASSUME NEW b \in Clearing, LockMatches(b) PROVE LockMatches(b)'
  BY <1>2 DEF LockMatches, At, Relocked
<1>3. ASSUME CountMatches PROVE CountMatches'
  BY <1>3 DEF CountMatches
<1>4. Exact => Exact'
  BY <1>2, <1>3 DEF Exact
<1> QED
  BY <1>1, <1>4 DEF ExactInv

\* A step on the way to lock: the attempt that takes it is the only one.
LEMMA LockStep ==
  ASSUME ExactInv, NEW a \in Clearing, Clearing' = Clearing, KeysFit',
         UNCHANGED <<due, calm>>, Opening' \subseteq Opening,
         LockMatches(a) => LockMatches(a)'
  PROVE  ExactInv'
<1> SUFFICES ASSUME calm PROVE Exact'
  BY DEF ExactInv
<1>1. Exact
  BY DEF ExactInv
<1>2. Clearing = {a} /\ LockMatches(a)
  BY <1>1 DEF Exact
<1>3. Opening' # {} => due.fail = Gone \/ due.fail.ttl = FailWindow
  BY <1>1 DEF Exact
<1> QED
  BY <1>2, <1>3 DEF Exact

LEMMA AskingExact ==
  ASSUME GuardInv, ExactInv, NEW a \in Attempts,
         \/ CheckLock(a)
         \/ \E captcha \in BOOLEAN : CheckCaptcha(a, captcha)
         \/ \E pc \in {"wrong", "right", "refused"} : Verify(a, pc)
  PROVE  ExactInv'
<1>1. UNCHANGED <<fail, lock, lockn, due, calm>>
      /\ attempt[a].pc \in {"idle", "fail count", "verify"}
  BY DEF CheckLock, CheckCaptcha, Verify, At, keys
<1>2. PICK next \in [pc : Steps, n : Nat] :
        /\ next.pc \in {"idle", "fail count", "verify", "wrong", "right"}
        /\ attempt' = [attempt EXCEPT ![a] = next]
  BY AskingMoves
<1>3. /\ attempt'[a] = next
      /\ \A b \in Attempts \ {a} : attempt'[b] = attempt[b]
      /\ Clearing' \ {a} = Clearing \ {a}
      /\ Opening' \ {a} = Opening \ {a} /\ a \notin Opening'
  BY <1>2, OthersStay, OpeningStays
<1>4. a \notin Clearing /\ a \notin Clearing' /\ a \notin Opening
  BY <1>1, <1>2, <1>3 DEF Clearing, OnItsWayToLock, At, Locking, Opening
<1>5. Clearing' = Clearing /\ Opening' = Opening
  BY <1>3, <1>4
<1>6. \A b \in Clearing : attempt'[b] = attempt[b]
  BY <1>3, <1>4 DEF Clearing
<1> QED
  BY <1>1, <1>5, <1>6, SameExact

\* The deadline of a new window is the one that is due.
LEMMA WindowExact ==
  ASSUME GuardInv, ExactInv, NEW a \in Attempts, StartWindow(a)
  PROVE  ExactInv'
<1> DEFINE pc == AfterCount(attempt[a].n)
           next == [attempt[a] EXCEPT !.pc = pc]
<1>1. /\ attempt' = [attempt EXCEPT ![a] = next] /\ fail' = Expire(fail, FailWindow)
      /\ UNCHANGED <<lock, lockn, due, calm>> /\ attempt[a].pc = "window"
  BY DEF StartWindow, GoTo, GuardInv, At
<1>2. next \in [pc : Steps, n : Nat] /\ next.pc = pc /\ next.n = attempt[a].n
  BY DEF GuardInv, Steps, Locking, AfterCount
<1>3. pc = (IF Triggers(attempt[a].n) THEN "lock count" ELSE "idle")
  BY DEF AfterCount
<1> HIDE DEF next, pc
<1>4. /\ attempt'[a] = next
      /\ \A b \in Attempts \ {a} : attempt'[b] = attempt[b]
      /\ Clearing' \ {a} = Clearing \ {a}
      /\ Opening' \ {a} = Opening \ {a} /\ a \notin Opening'
  BY <1>1, <1>2, <1>3, OthersStay, OpeningStays
<1>5. Opening' \subseteq Opening /\ a \in Opening
  BY <1>1, <1>4 DEF Opening, At
<1>6. /\ a \in Clearing <=> Triggers(attempt[a].n)
      /\ a \in Clearing' <=> Triggers(attempt[a].n)
  BY <1>1, <1>2, <1>3, <1>4 DEF Clearing, OnItsWayToLock, At, Locking
<1>7. Clearing' = Clearing
  BY <1>4, <1>6
<1>8. KeysFit'
  <2>1. IsKey(fail')
    BY <1>1, ExpireOfKey DEF ExactInv, KeysFit
  <2> QED
    BY <1>1, <2>1 DEF ExactInv, KeysFit, IsKey
<1>9. CASE Clearing = {}
  <2> SUFFICES ASSUME calm PROVE Exact'
    BY <1>1, <1>8 DEF ExactInv
  <2>1. /\ due.fail = Gone \/ due.fail.ttl = FailWindow
        /\ CountMatches /\ lock = due.lock /\ lockn = due.lockn
    BY <1>5, <1>9 DEF ExactInv, Exact
  <2>2. IsKey(due.fail) /\ IsKey(fail)
    BY DEF ExactInv, KeysFit
  <2>3. fail' = due'.fail
    <3>1. CASE due.fail = Gone
      <4>1. fail = Gone
        BY <2>1, <3>1 DEF CountMatches
      <4> QED
        BY <1>1, <2>2, <3>1, <4>1, ExpireOfKey
    <3>2. CASE due.fail # Gone
      <4>1. fail' = Key(due.fail.n, FailWindow)
        <5>1. due.fail.n \in Nat \ {0} /\ due.fail = Key(due.fail.n, due.fail.ttl)
          BY <2>2, <3>2, GoneIsZero
        <5>2. fail # Gone /\ fail.n = due.fail.n
          BY <2>1, <3>2, <5>1, KeyFields DEF CountMatches
        <5> QED
          BY <1>1, <2>2, <5>2, ExpireOfKey
      <4>2. due.fail = Key(due.fail.n, FailWindow)
        BY <2>1, <2>2, <3>2, GoneIsZero
      <4> QED
        BY <1>1, <4>1, <4>2
    <3> QED
      BY <3>1, <3>2
  <2>4. CountMatches'
    BY <2>3 DEF CountMatches
  <2> QED
    BY <1>1, <1>7, <1>9, <2>1, <2>4 DEF Exact
<1>10. CASE Clearing # {}
  <2>1. PICK b \in Clearing : TRUE
    BY <1>10
  <2>2. LockMatches(b) => LockMatches(b)'
    <3>1. CASE b = a
      <4>1. Triggers(attempt[a].n)
        BY <1>6, <3>1
      <4>2. attempt'[b].pc = "lock count"
        BY <1>2, <1>3, <1>4, <3>1, <4>1
      <4> QED
        BY <1>1, <3>1, <4>2 DEF LockMatches, At, Relocked
    <3>2. CASE b # a
      <4>1. attempt'[b] = attempt[b]
        BY <1>4, <3>2 DEF Clearing
      <4> QED
        BY <1>1, <4>1 DEF LockMatches, At, Relocked
    <3> QED
      BY <3>1, <3>2
  <2> QED
    BY <1>1, <1>5, <1>7, <1>8, <2>1, <2>2, LockStep
<1> QED
  BY <1>9, <1>10

\* Each command of the lock takes its key one step nearer to what is due.
LEMMA LockingExact ==
  ASSUME GuardInv, ExactInv, NEW a \in Attempts,
         CountLock(a) \/ RememberLock(a) \/ SetLock(a)
  PROVE  ExactInv'
<1>1. PICK next \in [pc : Steps, n : Nat] :
        next.pc \in Locking /\ attempt' = [attempt EXCEPT ![a] = next]
  BY LockingMoves
<1>2. /\ attempt'[a] = next
      /\ Clearing' \ {a} = Clearing \ {a}
      /\ Opening' \ {a} = Opening \ {a} /\ a \notin Opening'
  BY <1>1, OthersStay, OpeningStays DEF Locking
<1>3. a \in Clearing /\ a \in Clearing'
  BY <1>1, <1>2 DEF CountLock, RememberLock, SetLock, Clearing, OnItsWayToLock, At, Locking
<1>4. Clearing' = Clearing /\ Opening' \subseteq Opening
  BY <1>2, <1>3
<1>5. UNCHANGED <<fail, due, calm>>
  BY DEF CountLock, RememberLock, SetLock
<1>6. IsKey(lockn) /\ IsKey(lock)
  BY DEF ExactInv, KeysFit
<1>7. IsKey(lock') /\ IsKey(lockn')
  <2>1. CASE CountLock(a)
    BY <1>6, <2>1, IncrOfKey DEF CountLock
  <2>2. CASE RememberLock(a)
    BY <1>6, <2>2, ExpireOfKey DEF RememberLock
  <2>3. CASE SetLock(a)
    <3>1. lock' = Key(1, LockSeconds(attempt[a].n)) /\ lockn' = lockn
      BY <2>3 DEF SetLock
    <3> QED
      BY <1>6, <3>1, KeyFields
  <2> QED
    BY <2>1, <2>2, <2>3
<1>8. KeysFit'
  BY <1>5, <1>7 DEF ExactInv, KeysFit, IsKey
<1>9. LockMatches(a) => LockMatches(a)'
  <2>1. CASE CountLock(a)
    <3> DEFINE pc == IF lockn'.n = 1 THEN "lock memory" ELSE "lock"
               m == Min({lockn'.n, MaxLocks})
    <3>1. /\ lockn' = Incr(lockn) /\ UNCHANGED lock /\ attempt[a].pc = "lock count"
          /\ attempt'[a] = [pc |-> pc, n |-> m]
      BY <2>1 DEF CountLock, At, GuardInv
    <3> DEFINE told == [pc |-> pc, n |-> m]
    <3>0. told.pc = pc /\ told.n = m
      OBVIOUS
    <3> HIDE DEF pc, m
    <3>2. attempt'[a].pc = pc /\ attempt'[a].n = m
      <4>1. attempt'[a] = told
        BY <3>1
      <4> HIDE DEF told
      <4> QED
        BY <3>0, <4>1
    <3>3. ASSUME LockMatches(a)
          PROVE  /\ due'.lockn = IF lockn'.n = 1 THEN Expire(lockn', LockMemory) ELSE lockn'
                 /\ due'.lockn.n = lockn'.n
                 /\ due'.fail = Gone /\ due'.lock = DueLock(due'.lockn)
      <4>1. due.lockn = Relocked(lockn) /\ due.fail = Gone /\ due.lock = DueLock(due.lockn)
        BY <3>1, <3>3 DEF LockMatches
      <4> QED
        BY <1>5, <1>6, <3>1, <4>1, RelockedIsKey DEF Relocked
    <3>4. CASE lockn'.n = 1
      <4>1. attempt'[a].pc = "lock memory"
        BY <3>2, <3>4 DEF pc
      <4> QED
        BY <3>2, <3>3, <3>4, <4>1 DEF LockMatches, At, m
    <3>5. CASE lockn'.n # 1
      <4>1. attempt'[a].pc = "lock"
        BY <3>2, <3>5 DEF pc
      <4> QED
        BY <3>2, <3>3, <3>5, <4>1 DEF LockMatches, At, m
    <3> QED
      BY <3>4, <3>5
  <2>2. CASE RememberLock(a)
    <3>1. /\ lockn' = Expire(lockn, LockMemory) /\ UNCHANGED lock
          /\ attempt[a].pc = "lock memory"
          /\ attempt'[a].pc = "lock" /\ attempt'[a].n = attempt[a].n
      BY <2>2 DEF RememberLock, At, GoTo, GuardInv
    <3> QED
      BY <1>5, <3>1 DEF LockMatches, At
  <2>3. CASE SetLock(a)
    <3>1. /\ lock' = Key(1, LockSeconds(attempt[a].n)) /\ UNCHANGED lockn
          /\ attempt[a].pc = "lock" /\ attempt'[a].pc = "clear"
      BY <2>3 DEF SetLock, At, GoTo, GuardInv
    <3> QED
      BY <1>5, <3>1 DEF LockMatches, At, DueLock
  <2> QED
    BY <2>1, <2>2, <2>3
<1> QED
  BY <1>3, <1>4, <1>5, <1>8, <1>9, LockStep

\* A wrong password counts in the keys as it does in what is due, and the attempt
\* whose count triggers has the lock to set.
LEMMA CountExact ==
  ASSUME GuardInv, ExactInv, NEW a \in Attempts, CountFailure(a)
  PROVE  ExactInv'
<1> DEFINE n == Incr(fail).n
           next == [pc |-> IF n = 1 THEN "window" ELSE AfterCount(n), n |-> n]
           fine == calm /\ ~ \E b \in Attempts \ {a} : OnItsWayToLock(b)
           f == IF Incr(due.fail).n = 1 THEN Key(1, FailWindow) ELSE Incr(due.fail)
           l == Relocked(due.lockn)
<1>1. /\ fail' = Incr(fail) /\ attempt' = [attempt EXCEPT ![a] = next]
      /\ UNCHANGED <<lock, lockn>> /\ attempt[a].pc = "wrong"
      /\ calm' = fine /\ due' = IF fine THEN Failed(due) ELSE Fresh
  BY DEF CountFailure, Observe, At
<1>2. /\ IsKey(fail) /\ IsKey(lock) /\ IsKey(lockn)
      /\ due = [fail |-> due.fail, lock |-> due.lock, lockn |-> due.lockn]
      /\ IsKey(due.fail) /\ IsKey(due.lock) /\ IsKey(due.lockn) /\ calm \in BOOLEAN
  BY DEF ExactInv, KeysFit
<1>3. /\ IsKey(Incr(fail)) /\ n \in Nat \ {0} /\ (n = 1 <=> fail = Gone)
      /\ Incr(fail).ttl = IF fail = Gone THEN Forever ELSE fail.ttl
      /\ Incr(fail) = Key(n, Incr(fail).ttl)
  BY <1>2, IncrOfKey, GoneIsZero
<1>4. /\ Triggers(Incr(due.fail).n) =>
           Failed(due) = [fail |-> Gone, lock |-> DueLock(l), lockn |-> l]
      /\ ~ Triggers(Incr(due.fail).n) =>
           Failed(due) = [fail |-> f, lock |-> due.lock, lockn |-> due.lockn]
  BY <1>2, FailedIsDue
<1>5. IsKey(f) /\ f # Gone /\ IsKey(l) /\ IsKey(DueLock(l))
  <2>1. IsKey(Incr(due.fail)) /\ Incr(due.fail) # Gone
    BY <1>2, IncrOfKey
  <2>2. IsKey(Key(1, FailWindow)) /\ Key(1, FailWindow) # Gone
    BY KeyFields
  <2>3. IsKey(DueLock(l))
    BY KeyFields DEF DueLock
  <2> QED
    BY <1>2, <2>1, <2>2, <2>3, RelockedIsKey
<1>6. next \in [pc : Steps, n : Nat] /\ next.n = n
      /\ next.pc = (IF n = 1 THEN "window" ELSE AfterCount(n))
  <2> HIDE DEF n
  <2> QED
    BY <1>3 DEF Steps, Locking, AfterCount
<1> HIDE DEF l, f, next, n, fine
<1>7. /\ attempt'[a] = next
      /\ \A b \in Attempts \ {a} : attempt'[b] = attempt[b]
      /\ Clearing' \ {a} = Clearing \ {a}
      /\ Opening' \ {a} = Opening \ {a} /\ (a \in Opening' <=> next.pc = "window")
  BY <1>1, <1>6, OthersStay, OpeningStays
<1>8. a \notin Clearing /\ a \notin Opening
  BY <1>1 DEF Clearing, OnItsWayToLock, At, Locking, Opening
<1>9. a \in Clearing' <=> Triggers(n)
  BY <1>6, <1>7 DEF Clearing, OnItsWayToLock, At, AfterCount, Locking
<1>10. a \in Opening' <=> n = 1
  BY <1>6, <1>7 DEF AfterCount
<1>11. fine => calm /\ Clearing = {}
  BY <1>8 DEF fine, Clearing
<1>12. KeysFit'
  <2>1. CASE ~ fine
    <3>1. due' = Fresh /\ calm' \in BOOLEAN
      BY <1>1, <2>1 DEF fine
    <3> QED
      BY <1>1, <1>2, <1>3, <3>1, KeyFields DEF KeysFit, Fresh, IsKey
  <2>2. CASE fine
    <3>1. due' = Failed(due) /\ calm' \in BOOLEAN
      BY <1>1, <2>2 DEF fine
    <3>2. \E x, y, z : IsKey(x) /\ IsKey(y) /\ IsKey(z) /\
                       due' = [fail |-> x, lock |-> y, lockn |-> z]
      BY <1>2, <1>4, <1>5, <3>1, KeyFields
    <3> QED
      BY <1>1, <1>2, <1>3, <3>1, <3>2 DEF KeysFit, IsKey
  <2> QED
    BY <2>1, <2>2
<1>13. CASE ~ fine
  BY <1>1, <1>12, <1>13, NotCalm
<1>14. CASE fine
  <2>1. /\ Clearing = {} /\ CountMatches /\ lock = due.lock /\ lockn = due.lockn
        /\ Opening # {} => due.fail = Gone \/ due.fail.ttl = FailWindow
        /\ due' = Failed(due)
    BY <1>1, <1>11, <1>14 DEF ExactInv, Exact
  <2>2. Incr(due.fail).n = n
    <3>1. due.fail.n = fail.n
      BY <2>1, KeyFields DEF CountMatches
    <3> QED
      BY <3>1, IncrAlike DEF n
  <2>3. CASE Triggers(n)
    <3>1. due' = [fail |-> Gone, lock |-> DueLock(l), lockn |-> l]
      BY <1>4, <2>1, <2>2, <2>3
    <3>2. due'.fail = Gone /\ due'.lock = DueLock(l) /\ due'.lockn = l
      BY <3>1
    <3>3. Clearing' = {a}
      BY <1>7, <1>9, <2>1, <2>3
    <3>4. attempt'[a].pc \in {"window", "lock count"}
      BY <1>6, <1>7, <2>3 DEF AfterCount
    <3>5. l = Relocked(lockn')
      BY <1>1, <2>1 DEF l
    <3>6. LockMatches(a)'
      BY <3>2, <3>4, <3>5 DEF LockMatches, At
    <3> QED
      BY <1>12, <3>2, <3>3, <3>6 DEF ExactInv, Exact
  <2>4. CASE ~ Triggers(n)
    <3>1. due' = [fail |-> f, lock |-> due.lock, lockn |-> due.lockn]
      BY <1>4, <2>1, <2>2, <2>4
    <3>2. due'.fail = f /\ due'.lock = lock' /\ due'.lockn = lockn'
      BY <1>1, <2>1, <3>1
    <3>3. Clearing' = {}
      BY <1>7, <1>9, <2>1, <2>4
    <3>4. CASE n = 1
      <4>1. f = Key(1, FailWindow) /\ f.n = 1 /\ f.ttl = FailWindow
        BY <2>2, <3>4, KeyFields DEF f
      <4>2. fail' = Key(1, Forever)
        BY <1>1, <1>3, <3>4
      <4>3. CountMatches'
        BY <1>5, <1>10, <3>2, <3>4, <4>1, <4>2 DEF CountMatches
      <4> QED
        BY <1>12, <3>2, <3>3, <4>1, <4>3 DEF ExactInv, Exact
    <3>5. CASE n # 1
      <4>1. Opening' = Opening
        BY <1>7, <1>8, <1>10, <3>5
      <4>2. fail # Gone /\ due.fail # Gone
        BY <1>2, <1>3, <2>1, <3>5 DEF CountMatches
      <4>3. f = Incr(due.fail) /\ f.ttl = due.fail.ttl /\ f.n = n
        BY <1>2, <2>2, <3>5, <4>2, IncrOfKey DEF f
      <4>4. CountMatches'
        <5>1. CASE fail = due.fail
          BY <1>1, <3>2, <4>3, <5>1 DEF CountMatches
        <5>2. CASE Opening # {} /\ fail = Key(due.fail.n, Forever)
          <6>1. fail' = Key(n, Forever)
            BY <1>1, <1>3, <4>2, <5>2, KeyFields
          <6> QED
            BY <1>5, <3>2, <4>1, <4>3, <5>2, <6>1 DEF CountMatches
        <5> QED
          BY <2>1, <5>1, <5>2 DEF CountMatches
      <4>5. Opening' # {} => due'.fail.ttl = FailWindow
        BY <2>1, <3>2, <4>1, <4>2, <4>3
      <4> QED
        BY <1>12, <3>2, <3>3, <4>4, <4>5 DEF ExactInv, Exact
    <3> QED
      BY <3>4, <3>5
  <2> QED
    BY <2>3, <2>4
<1> QED
  BY <1>13, <1>14

\* The attempt that clears the count was the last step behind what is due.
LEMMA ClearExact ==
  ASSUME GuardInv, ExactInv, NEW a \in Attempts, ClearFailures(a)
  PROVE  ExactInv'
<1>1. Idle \in [pc : Steps, n : Nat] /\ Idle.pc = "idle"
  BY DEF Idle, Steps
<1>2. /\ attempt' = [attempt EXCEPT ![a] = Idle] /\ fail' = Gone
      /\ UNCHANGED <<lock, lockn, due, calm>> /\ attempt[a].pc = "clear"
  BY DEF ClearFailures, Return, At
<1>3. /\ attempt'[a] = Idle /\ Clearing' \ {a} = Clearing \ {a}
      /\ Opening' \ {a} = Opening \ {a} /\ a \notin Opening'
  BY <1>1, <1>2, OthersStay, OpeningStays
<1>4. a \in Clearing /\ a \notin Clearing'
  BY <1>1, <1>2, <1>3 DEF Clearing, OnItsWayToLock, At, Locking
<1>5. KeysFit'
  BY <1>2, KeyFields DEF ExactInv, KeysFit, IsKey
<1> SUFFICES ASSUME calm PROVE Exact'
  BY <1>2, <1>5 DEF ExactInv
<1>6. Exact
  BY DEF ExactInv
<1>7. Clearing = {a} /\ LockMatches(a)
  BY <1>4, <1>6 DEF Exact
<1>8. due.fail = Gone /\ due.lockn = lockn /\ due.lock = lock
  BY <1>2, <1>7 DEF LockMatches, At
<1>9. Clearing' = {}
  BY <1>3, <1>4, <1>7
<1>10. CountMatches'
  BY <1>2, <1>8 DEF CountMatches
<1> QED
  BY <1>2, <1>8, <1>9, <1>10 DEF Exact

\* A right password forgives all.
LEMMA ResetExact ==
  ASSUME GuardInv, ExactInv, NEW a \in Attempts, Reset(a)
  PROVE  ExactInv'
<1> DEFINE fine == calm /\ ~ \E b \in Attempts \ {a} : OnItsWayToLock(b)
<1>1. Idle \in [pc : Steps, n : Nat] /\ Idle.pc = "idle"
  BY DEF Idle, Steps
<1>2. /\ attempt' = [attempt EXCEPT ![a] = Idle]
      /\ fail' = Gone /\ lock' = Gone /\ lockn' = Gone /\ attempt[a].pc = "right"
      /\ calm' = fine /\ due' = Fresh
  BY DEF Reset, Return, At, Observe
<1>3. Clearing' \ {a} = Clearing \ {a} /\ attempt'[a] = Idle
  BY <1>1, <1>2, OthersStay
<1>4. a \notin Clearing /\ a \notin Clearing'
  BY <1>1, <1>2, <1>3 DEF Clearing, OnItsWayToLock, At, Locking
<1>5. due'.fail = Gone /\ due'.lock = Gone /\ due'.lockn = Gone
      /\ due' = [fail |-> Gone, lock |-> Gone, lockn |-> Gone]
  BY <1>2 DEF Fresh
<1>6. calm' \in BOOLEAN
  BY <1>2 DEF ExactInv, KeysFit
<1>7. KeysFit'
  BY <1>2, <1>5, <1>6, KeyFields DEF KeysFit, IsKey
<1>8. CASE ~ fine
  BY <1>2, <1>7, <1>8, NotCalm
<1>9. CASE fine
  <2>1. Clearing = {}
    BY <1>4, <1>9 DEF Clearing
  <2>2. Clearing' = {}
    BY <1>3, <1>4, <2>1
  <2>3. CountMatches'
    BY <1>2, <1>5 DEF CountMatches
  <2> QED
    BY <1>2, <1>5, <1>7, <2>2, <2>3 DEF ExactInv, Exact
<1> QED
  BY <1>8, <1>9

\* One that dies between two commands puts the guard out of order; elsewhere it
\* leaves no trace.
LEMMA DieExact ==
  ASSUME GuardInv, ExactInv, NEW a \in Attempts, Die(a)
  PROVE  ExactInv'
<1>1. Idle \in [pc : Steps, n : Nat] /\ Idle.pc = "idle"
  BY DEF Idle, Steps
<1>2. /\ attempt' = [attempt EXCEPT ![a] = Idle] /\ UNCHANGED <<fail, lock, lockn>>
      /\ IF attempt[a].pc \in Writing THEN Disturb ELSE UNCHANGED <<due, calm>>
  BY DEF Die, Return, keys
<1>3. /\ attempt'[a] = Idle /\ \A b \in Attempts \ {a} : attempt'[b] = attempt[b]
      /\ Clearing' \ {a} = Clearing \ {a}
      /\ Opening' \ {a} = Opening \ {a} /\ a \notin Opening'
  BY <1>1, <1>2, OthersStay, OpeningStays
<1>4. CASE attempt[a].pc \in Writing
  <2>1. due' = Fresh /\ calm' = FALSE
    BY <1>2, <1>4 DEF Disturb
  <2>2. KeysFit'
    BY <1>2, <2>1, KeyFields DEF ExactInv, KeysFit, Fresh, IsKey
  <2> QED
    BY <2>1, <2>2, NotCalm
<1>5. CASE attempt[a].pc \notin Writing
  <2>1. a \notin Clearing /\ a \notin Clearing' /\ a \notin Opening
    BY <1>1, <1>3, <1>5 DEF Clearing, OnItsWayToLock, At, Locking, Writing, Opening
  <2>2. Clearing' = Clearing /\ Opening' = Opening
    BY <1>3, <2>1
  <2>3. \A b \in Clearing : attempt'[b] = attempt[b]
    BY <1>3, <2>1 DEF Clearing
  <2> QED
    BY <1>2, <1>5, <2>2, <2>3, SameExact
<1> QED
  BY <1>4, <1>5

\* Time passes for the keys and for what is due alike, unless it passes between
\* two commands of one attempt.
LEMMA TickExact ==
  ASSUME ExactInv, Tick
  PROVE  ExactInv'
<1> DEFINE older == [k \in DOMAIN due |-> Older(due[k])]
           clean == [fail |-> fail', lock |-> lock', lockn |-> lockn'] = Fresh
<1>1. /\ fail' = Older(fail) /\ lock' = Older(lock) /\ lockn' = Older(lockn)
      /\ UNCHANGED attempt
  BY DEF Tick
<1>2. /\ IsKey(fail) /\ IsKey(lock) /\ IsKey(lockn)
      /\ due = [fail |-> due.fail, lock |-> due.lock, lockn |-> due.lockn]
      /\ IsKey(due.fail) /\ IsKey(due.lock) /\ IsKey(due.lockn) /\ calm \in BOOLEAN
  BY DEF ExactInv, KeysFit
<1>3. IsKey(fail') /\ IsKey(lock') /\ IsKey(lockn')
  BY <1>1, <1>2, OlderOfKey
<1>4. Fresh = [fail |-> Gone, lock |-> Gone, lockn |-> Gone]
      /\ Fresh.fail = Gone /\ Fresh.lock = Gone /\ Fresh.lockn = Gone
  BY DEF Fresh
<1>5. CASE \E a \in Attempts : attempt[a].pc \in Writing
  <2>1. due' = Fresh /\ calm' = FALSE
    BY <1>5 DEF Tick, Disturb
  <2>2. KeysFit'
    BY <1>3, <1>4, <2>1, KeyFields DEF KeysFit
  <2> QED
    BY <2>1, <2>2, NotCalm
<1>6. CASE ~ \E a \in Attempts : attempt[a].pc \in Writing
  <2>1. calm' = (calm \/ clean) /\ due' = IF calm THEN older ELSE Fresh
    BY <1>6, Zenon DEF Tick
  <2>2. Clearing = {} /\ Opening = {}
    BY <1>6 DEF Clearing, Opening, OnItsWayToLock, At, Locking, Writing
  <2>3. Clearing' = {} /\ Opening' = {}
    BY <1>1, <2>2 DEF Clearing, Opening, OnItsWayToLock, At
  <2>4. CASE calm
    <3>1. due' = older /\ calm' = TRUE
      BY <2>1, <2>4
    <3>2. older = [fail |-> Older(due.fail), lock |-> Older(due.lock),
                   lockn |-> Older(due.lockn)]
      BY <1>2
    <3> HIDE DEF older
    <3>3. /\ due'.fail = Older(due.fail) /\ due'.lock = Older(due.lock)
          /\ due'.lockn = Older(due.lockn)
          /\ due' = [fail |-> due'.fail, lock |-> due'.lock, lockn |-> due'.lockn]
      BY <3>1, <3>2
    <3>4. IsKey(due'.fail) /\ IsKey(due'.lock) /\ IsKey(due'.lockn)
      BY <1>2, <3>3, OlderOfKey
    <3>5. KeysFit'
      BY <1>3, <3>1, <3>3, <3>4 DEF KeysFit
    <3>6. fail = due.fail /\ lock = due.lock /\ lockn = due.lockn
      BY <2>2, <2>4 DEF ExactInv, Exact, CountMatches
    <3>7. CountMatches' /\ lock' = due'.lock /\ lockn' = due'.lockn
      BY <1>1, <3>3, <3>6 DEF CountMatches
    <3> QED
      BY <2>3, <3>5, <3>7 DEF ExactInv, Exact
  <2>5. CASE ~ calm
    <3>1. due' = Fresh /\ calm' = clean
      BY <2>1, <2>5
    <3>2. KeysFit'
      BY <1>3, <1>4, <3>1, KeyFields DEF KeysFit
    <3>3. clean => fail' = Gone /\ lock' = Gone /\ lockn' = Gone
      BY <1>4
    <3>4. clean => CountMatches' /\ lock' = due'.lock /\ lockn' = due'.lockn
      BY <1>4, <3>1, <3>3 DEF CountMatches
    <3> HIDE DEF clean
    <3> QED
      BY <2>3, <3>1, <3>2, <3>4 DEF ExactInv, Exact
  <2> QED
    BY <2>4, <2>5
<1> QED
  BY <1>5, <1>6

\* The keys are an attempt's steps at most behind the guard in which every
\* attempt is one step.
THEOREM ExactInductive == Spec => []ExactInv
<1>1. Init => ExactInv
  <2> SUFFICES ASSUME Init PROVE ExactInv
    OBVIOUS
  <2>1. fail = Gone /\ lock = Gone /\ lockn = Gone /\ due = Fresh /\ calm = TRUE
    BY DEF Init
  <2>2. due.fail = Gone /\ due.lock = Gone /\ due.lockn = Gone
        /\ due = [fail |-> Gone, lock |-> Gone, lockn |-> Gone]
    BY <2>1 DEF Fresh
  <2>3. Clearing = {}
    BY DEF Init, Idle, Clearing, OnItsWayToLock, At, Locking
  <2>4. KeysFit
    BY <2>1, <2>2, KeyFields DEF KeysFit
  <2> QED
    BY <2>1, <2>2, <2>3, <2>4 DEF ExactInv, Exact, CountMatches
<1>2. GuardInv /\ ExactInv /\ [Next]_vars => ExactInv'
  <2>1. ASSUME ExactInv, UNCHANGED vars PROVE ExactInv'
    <3>1. UNCHANGED <<fail, lock, lockn, due, calm, attempt>>
      BY <2>1 DEF vars, keys
    <3>2. Clearing' = Clearing /\ Opening' = Opening
      BY <3>1 DEF Clearing, OnItsWayToLock, At, Opening
    <3> QED
      BY <2>1, <3>1, <3>2, SameExact
  <2>2. ASSUME GuardInv, ExactInv, NEW a \in Attempts, CheckLock(a) \/ Answer(a) \/ Die(a)
        PROVE  ExactInv'
    BY <2>2, AskingExact, CountExact, WindowExact, LockingExact, ClearExact,
       ResetExact, DieExact
    DEF Answer
  <2> QED
    BY <2>1, <2>2, TickExact DEF Next
<1> QED
  BY <1>1, <1>2, GuardInductive, PTL DEF Spec

\* The guard is what it would be were every attempt one step, as long as no
\* attempt died, or was overtaken or kept waiting, between the commands of a lock
\* (register_failure and reset in core/ratelimit.py).
THEOREM GuardAlwaysExact == Spec => []GuardIsExact
<1>1. ExactInv => GuardIsExact
  <2> SUFFICES ASSUME ExactInv, calm, \A a \in Attempts : attempt[a].pc \notin Writing
               PROVE  [fail |-> fail, lock |-> lock, lockn |-> lockn] = due
    BY DEF GuardIsExact
  <2>1. Clearing = {} /\ Opening = {}
    BY DEF Clearing, Opening, OnItsWayToLock, At, Locking, Writing
  <2>2. fail = due.fail /\ lock = due.lock /\ lockn = due.lockn
    BY <2>1 DEF ExactInv, Exact, CountMatches
  <2> QED
    BY <2>2 DEF ExactInv, KeysFit
<1> QED
  BY <1>1, ExactInductive, PTL

=============================================================================
