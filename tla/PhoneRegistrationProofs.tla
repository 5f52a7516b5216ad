----------------------- MODULE PhoneRegistrationProofs ----------------------
(***************************************************************************)
(* What a phone may ask for and what comes of it, for every number of      *)
(* calls, every rate and every difference between the callers' clocks.     *)
(***************************************************************************)
EXTENDS PhoneRegistration, FiniteSetTheorems, TLAPS

-----------------------------------------------------------------------------
(* The bucket *)

Buckets == [tokens : 0..Capacity, age : Nat, ttl : 1..BucketTtl]

\* What the bucket will hold at the next call is covered: by a full bucket, or
\* by what the bucket held and what has come back since it was counted.
Covered ==
  \/ level + Refill * back >= Capacity
  \/ bucket # Missing /\ level + Refill * back >= bucket.tokens + Refill * bucket.age

\* The inductive invariant.  It follows the deadline of the bucket too: the key
\* expires only when time enough has passed to fill the bucket.
BucketInv ==
  /\ level \in Int /\ back \in Nat
  /\ bucket # Missing => bucket \in Buckets /\ bucket.age + bucket.ttl >= BucketTtl
  /\ Covered

LEMMA MinOfTwo ==
  ASSUME NEW m \in Int, NEW n \in Int
  PROVE  Min({m, n}) = IF m <= n THEN m ELSE n
BY DEF Min

LEMMA MaxOfTwo ==
  ASSUME NEW m \in Int, NEW n \in Int
  PROVE  Max({m, n}) = IF m <= n THEN n ELSE m
BY DEF Max

\* A bucket is kept at least for the time it takes to fill.
LEMMA KeptUntilFull == BucketTtl \in Nat \ {0} /\ Refill * BucketTtl >= Capacity
<1> DEFINE Fills == (Capacity + Refill - 1) \div Refill
<1>1. Capacity \in Nat \ {0} /\ Refill \in Nat \ {0} /\ Slack \in Nat
  BY BucketAssumption DEF BucketAssumption
<1>2. Fills \in Int /\ Refill * Fills >= Capacity
  BY <1>1
<1>3. Fills \in Nat \ {0}
  BY <1>1, <1>2
<1>4. Refill * (Fills + Slack) = Refill * Fills + Refill * Slack /\ Refill * Slack \in Nat
  BY <1>1, <1>3
<1> QED
  BY <1>1, <1>2, <1>3, <1>4 DEF BucketTtl

\* Whatever the caller's clock, a refill adds no more than what has come back.
LEMMA RefillBounds ==
  ASSUME NEW b \in Buckets, b # Missing, NEW behind \in Nat
  PROVE  /\ Refilled(b, behind) \in 0..Capacity
         /\ Refilled(b, behind) <= b.tokens + Refill * b.age
<1>1. Capacity \in Nat /\ Refill \in Nat
  BY BucketAssumption DEF BucketAssumption
<1>2. b.tokens \in 0..Capacity /\ b.age \in Nat
  BY DEF Buckets
<1> DEFINE time == Max({0, b.age - behind})
<1>3. time \in Nat /\ time <= b.age
  BY <1>2, MaxOfTwo
<1> HIDE DEF time
<1>4. time * Refill \in Nat /\ time * Refill <= Refill * b.age
  BY <1>1, <1>2, <1>3
<1>5. Refilled(b, behind) = Min({Capacity, b.tokens + time * Refill})
  BY DEF Refilled, time
<1> QED
  BY <1>1, <1>2, <1>4, <1>5, MinOfTwo

\* A call to the script, refused or not, leaves a bucket that is covered.
LEMMA TakeKeepsBucket ==
  ASSUME BucketInv, NEW c \in Calls, NEW behind \in Skews, TakeToken(c, behind)
  PROVE  BucketInv'
<1> DEFINE cost == IF Allows(bucket, behind) THEN Cost ELSE 0
           held == Refilled(bucket, behind)
<1>1. /\ Capacity \in Nat /\ Refill \in Nat /\ Cost \in Nat /\ behind \in Nat
      /\ BucketTtl \in Nat \ {0}
  BY BucketAssumption, PhoneAssumption, KeptUntilFull DEF BucketAssumption, PhoneAssumption
<1>2. held \in 0..Capacity /\ held <= level + Refill * back
  <2>1. CASE bucket = Missing
    BY <1>1, <2>1 DEF Refilled, BucketInv, Covered
  <2>2. CASE bucket # Missing
    <3>1. held \in 0..Capacity /\ held <= bucket.tokens + Refill * bucket.age
      BY <1>1, <2>2, RefillBounds DEF BucketInv
    <3>2. Refill * back \in Nat /\ Refill * bucket.age \in Nat /\ bucket.tokens \in Nat
      BY <1>1, <2>2 DEF BucketInv, Buckets
    <3> HIDE DEF held
    <3> QED
      BY <1>1, <3>1, <3>2 DEF BucketInv, Covered
  <2> QED
    BY <2>1, <2>2
<1>3. bucket' = [tokens |-> held - cost, age |-> behind, ttl |-> BucketTtl]
  BY DEF TakeToken, Taken
<1>4. level' = level - cost /\ back' = back + behind
  BY <1>1 DEF TakeToken, BucketInv
<1>5. cost \in Nat /\ cost <= held
  BY <1>1, <1>2 DEF Allows
<1> HIDE DEF cost, held
<1>6. Refill * back' = Refill * back + Refill * behind
  BY <1>1, <1>4 DEF BucketInv
<1>7. bucket' \in Buckets /\ bucket' # Missing /\ bucket'.age + bucket'.ttl >= BucketTtl
  BY <1>1, <1>2, <1>3, <1>5 DEF Buckets, Missing
<1>8. level' + Refill * back' >= bucket'.tokens + Refill * bucket'.age
  BY <1>1, <1>2, <1>3, <1>4, <1>5, <1>6 DEF BucketInv
<1> QED
  BY <1>1, <1>4, <1>7, <1>8 DEF BucketInv, Covered

\* Time fills the bucket and what covers it alike, until the key expires.
LEMMA TickKeepsBucket ==
  ASSUME BucketInv, Tick
  PROVE  BucketInv'
<1>1. /\ Capacity \in Nat /\ Refill \in Nat
      /\ BucketTtl \in Nat \ {0} /\ Refill * BucketTtl >= Capacity
  BY BucketAssumption, KeptUntilFull DEF BucketAssumption
<1>2. /\ level' = IF Capacity <= level + Refill THEN Capacity ELSE level + Refill
      /\ back' = back /\ level \in Int /\ back \in Nat
  BY <1>1, MinOfTwo DEF Tick, BucketInv
<1>3. Refill * back' \in Nat
  BY <1>1, <1>2
<1>4. level + Refill * back >= Capacity => level' + Refill * back' >= Capacity
  BY <1>1, <1>2, <1>3
<1>5. CASE bucket = Missing
  <2>1. bucket' = Missing
    BY <1>5 DEF Tick
  <2> QED
    BY <1>1, <1>2, <1>4, <1>5, <2>1 DEF BucketInv, Covered
<1>6. CASE bucket # Missing
  <2>1. bucket \in Buckets /\ bucket.age + bucket.ttl >= BucketTtl
    BY <1>6 DEF BucketInv
  <2>2. Refill * (bucket.age + 1) = Refill * bucket.age + Refill
    BY <1>1, <2>1 DEF Buckets
  <2>3. CASE bucket.ttl <= 1
    <3>1. bucket' = Missing
      BY <1>6, <2>3 DEF Tick, BucketAfterTick
    <3>2. bucket.age + 1 >= BucketTtl /\ bucket.age \in Nat /\ bucket.tokens \in Nat
      BY <1>1, <2>1, <2>3 DEF Buckets
    <3>3. Refill * (bucket.age + 1) >= Refill * BucketTtl
      BY <1>1, <3>2
    <3>4. level' + Refill * back' >= Capacity
      <4>1. CASE level + Refill * back >= Capacity
        BY <1>4, <4>1
      <4>2. CASE level + Refill * back >= bucket.tokens + Refill * bucket.age
        <5>1. Refill * bucket.age + Refill >= Capacity /\ Refill * bucket.age \in Nat
          BY <1>1, <2>2, <3>2, <3>3
        <5> QED
          BY <1>1, <1>2, <1>3, <3>2, <4>2, <5>1
      <4> QED
        BY <4>1, <4>2 DEF BucketInv, Covered
    <3> QED
      BY <1>1, <1>2, <3>1, <3>4 DEF BucketInv, Covered
  <2>4. CASE ~ (bucket.ttl <= 1)
    <3>1. bucket' = [tokens |-> bucket.tokens, age |-> bucket.age + 1, ttl |-> bucket.ttl - 1]
      BY <1>6, <2>1, <2>4 DEF Tick, BucketAfterTick, Buckets
    <3>2. bucket' \in Buckets /\ bucket' # Missing /\ bucket'.age + bucket'.ttl >= BucketTtl
      BY <1>1, <2>1, <2>4, <3>1 DEF Buckets, Missing
    <3>3. Covered'
      BY <1>1, <1>2, <1>3, <1>4, <1>6, <2>1, <2>2, <3>1, <3>2 DEF BucketInv, Covered, Buckets
    <3> QED
      BY <1>1, <1>2, <3>2, <3>3 DEF BucketInv
  <2> QED
    BY <2>3, <2>4
<1> QED
  BY <1>5, <1>6

\* Every other step leaves the bucket alone.
LEMMA NextKeepsBucket == BucketInv /\ [Next]_vars => BucketInv'
<1>1. ASSUME BucketInv, UNCHANGED <<bucket, level, back>> PROVE BucketInv'
  BY <1>1 DEF BucketInv, Covered
<1>2. ASSUME BucketInv, NEW c \in Calls, NEW behind \in Skews, TakeToken(c, behind)
      PROVE  BucketInv'
  BY <1>2, TakeKeepsBucket
<1>3. ASSUME NEW c \in Calls, NEW presented \in {"newest", "older"}, Register(c, presented)
      PROVE  UNCHANGED <<bucket, level, back>>
  BY <1>3 DEF Register, limits
<1>4. ASSUME NEW c \in Calls, Send(c) \/ Enter(c) \/ Die(c)
      PROVE  UNCHANGED <<bucket, level, back>>
  <2>1. CASE Send(c)
    BY <2>1 DEF Send, CountSend, StartDay, SetCode, limits
  <2>2. CASE Enter(c)
    BY <2>2 DEF Enter, CompareCode, DeleteCode, CheckExists, InsertAccount, limits
  <2>3. CASE Die(c)
    BY <2>3 DEF Die, limits
  <2> QED
    BY <1>4, <2>1, <2>2, <2>3
<1>5. ASSUME BucketInv, Tick PROVE BucketInv'
  BY <1>5, TickKeepsBucket
<1>6. ASSUME UNCHANGED vars PROVE UNCHANGED <<bucket, level, back>>
  BY <1>6 DEF vars, limits
<1> QED
  BY <1>1, <1>2, <1>3, <1>4, <1>5, <1>6 DEF Next

\* The bucket never lets through more than its capacity and what came back, but
\* for the ticks its callers were behind (the Lua script of core/ratelimit.py).
THEOREM BucketAlwaysHolds == Spec => []BucketHolds
<1>1. Init => BucketInv
  BY BucketAssumption DEF BucketAssumption, Init, BucketInv, Covered
<1>2. BucketInv => BucketHolds
  <2> SUFFICES ASSUME BucketInv PROVE level + Refill * back >= 0
    BY DEF BucketHolds
  <2>1. Capacity \in Nat /\ Refill \in Nat
    BY BucketAssumption DEF BucketAssumption
  <2>2. CASE bucket = Missing
    BY <2>1, <2>2 DEF BucketInv, Covered
  <2>3. CASE bucket # Missing
    <3>1. bucket.tokens \in Nat /\ bucket.age \in Nat
      BY <2>3 DEF BucketInv, Buckets
    <3>2. Refill * bucket.age \in Nat /\ Refill * back \in Nat
      BY <2>1, <3>1 DEF BucketInv
    <3> QED
      BY <2>1, <3>1, <3>2 DEF BucketInv, Covered
  <2> QED
    BY <2>2, <2>3
<1> QED
  BY <1>1, <1>2, NextKeepsBucket, PTL DEF Spec

-----------------------------------------------------------------------------
(* The code *)

Pcs == {"idle", "count", "day", "set", "get", "delete", "exists", "insert"}
CallRecord == [pc : Pcs, code : {None, "newest", "older"}, n : Int]
QuotaRecord == [n : Int, ttl : Int \cup {None, Forever}]

Deleting == { c \in Calls : At(c, "delete") }

\* The inductive invariant.  A code that is there has let through no more than
\* are about to delete it or died; and if it has let nobody through, who is about
\* to delete was so when it was set.
CodeInv ==
  /\ call \in [Calls -> CallRecord] /\ quota \in QuotaRecord
  /\ deaths \in Nat /\ uses \in Nat /\ crossed \in BOOLEAN
  /\ code # None => uses <= Cardinality(Deleting) + deaths
  /\ code # None /\ uses = 0 /\ Deleting # {} => crossed

LEMMA DeletingIsFinite == IsFiniteSet(Deleting) /\ Cardinality(Deleting) \in Nat
<1>1. Deleting \subseteq Calls
  BY DEF Deleting
<1>2. IsFiniteSet(Deleting)
  BY <1>1, PhoneAssumption, FS_Subset DEF PhoneAssumption
<1> QED
  BY <1>2, FS_CardinalityType

\* A step of one call, to r.
LEMMA OneMoves ==
  ASSUME call \in [Calls -> CallRecord], NEW c \in Calls, NEW r \in CallRecord,
         call' = [call EXCEPT ![c] = r]
  PROVE  /\ call' \in [Calls -> CallRecord]
         /\ Deleting' = IF r.pc = "delete" THEN Deleting \cup {c} ELSE Deleting \ {c}
<1>1. /\ call' \in [Calls -> CallRecord]
      /\ \A d \in Calls : call'[d] = IF d = c THEN r ELSE call[d]
  OBVIOUS
<1> QED
  BY <1>1 DEF Deleting, At

\* What EXCEPT makes of a call and what ends it are calls.
LEMMA CallsMade ==
  ASSUME call \in [Calls -> CallRecord], NEW c \in Calls
  PROVE  /\ Idle \in CallRecord /\ Idle.pc = "idle"
         /\ \A pc \in Pcs : /\ [call[c] EXCEPT !.pc = pc] \in CallRecord
                               /\ [call[c] EXCEPT !.pc = pc].pc = pc
<1>1. Idle \in CallRecord /\ Idle.pc = "idle"
  BY DEF Idle, CallRecord, Pcs
<1>2. call[c] \in CallRecord
  OBVIOUS
<1>3. ASSUME NEW pc \in Pcs
      PROVE  [call[c] EXCEPT !.pc = pc] \in CallRecord /\ [call[c] EXCEPT !.pc = pc].pc = pc
  BY <1>2 DEF CallRecord
<1> QED
  BY <1>1, <1>3

\* A step that leaves the code alone and neither takes a call to its deletion nor
\* away from it.
LEMMA CodeAlone ==
  ASSUME CodeInv, CodeStays, deaths' = deaths, quota' \in QuotaRecord,
         NEW c \in Calls, ~ At(c, "delete"), NEW r \in CallRecord, r.pc # "delete",
         call' = [call EXCEPT ![c] = r]
  PROVE  CodeInv'
<1>1. call' \in [Calls -> CallRecord] /\ Deleting' = Deleting
  BY OneMoves DEF CodeInv, Deleting
<1> QED
  BY <1>1 DEF CodeInv, CodeStays

\* A step that takes the code away leaves nothing to be asked of it.
LEMMA CodeTaken ==
  ASSUME CodeInv, CodeGoes, call' \in [Calls -> CallRecord], quota' \in QuotaRecord,
         deaths' = deaths
  PROVE  CodeInv'
BY DEF CodeInv, CodeGoes

LEMMA SendKeepsCode ==
  ASSUME CodeInv, NEW c \in Calls, Send(c)
  PROVE  CodeInv'
<1>1. /\ call \in [Calls -> CallRecord] /\ quota \in QuotaRecord /\ quota.n \in Int
      /\ PerDay \in Nat
  BY PhoneAssumption DEF CodeInv, QuotaRecord, PhoneAssumption
<1>2. CASE CountSend(c)
  <2> DEFINE n == Min({quota.n + 1, PerDay + 1})
             pc == IF quota.n = 0 THEN "day" ELSE AfterCount(n)
             r == [call[c] EXCEPT !.pc = pc, !.n = n]
  <2>1. n \in Int
    BY <1>1, MinOfTwo
  <2>2. quota' \in QuotaRecord /\ quota'.n = n
    BY <1>1, <1>2, <2>1 DEF CountSend, QuotaRecord
  <2>3. pc \in {"day", "idle", "set"}
    BY DEF AfterCount
  <2>4. call[c] \in CallRecord /\ call' = [call EXCEPT ![c] = r]
    BY <1>1, <1>2, <2>2 DEF CountSend
  <2> HIDE DEF n, pc
  <2>5. r \in CallRecord /\ r.pc = pc
    BY <2>1, <2>3, <2>4 DEF CallRecord, Pcs
  <2>6. CodeStays /\ deaths' = deaths /\ ~ At(c, "delete")
    BY <1>2 DEF CountSend, At
  <2> HIDE DEF r
  <2> QED
    BY <2>2, <2>3, <2>4, <2>5, <2>6, CodeAlone
<1>3. CASE StartDay(c)
  <2> DEFINE r == [call[c] EXCEPT !.pc = AfterCount(call[c].n)]
  <2>1. AfterCount(call[c].n) \in {"idle", "set"}
    BY DEF AfterCount
  <2>2. r \in CallRecord /\ r.pc \in {"idle", "set"} /\ call' = [call EXCEPT ![c] = r]
    BY <1>1, <1>3, <2>1, CallsMade DEF StartDay, GoTo, Pcs
  <2>3. quota' \in QuotaRecord
    BY <1>1, <1>3, PhoneAssumption DEF StartDay, QuotaRecord, NoQuota, PhoneAssumption
  <2>4. CodeStays /\ deaths' = deaths /\ ~ At(c, "delete")
    BY <1>3 DEF StartDay, At
  <2> HIDE DEF r
  <2> QED
    BY <2>2, <2>3, <2>4, CodeAlone
<1>4. CASE SetCode(c)
  <2>1. \A d \in Calls :
          /\ call'[d] \in CallRecord
          /\ At(d, "delete")' <=> At(d, "delete")
    <3> SUFFICES ASSUME NEW d \in Calls
                 PROVE  call'[d] \in CallRecord /\ (At(d, "delete")' <=> At(d, "delete"))
      OBVIOUS
    <3>1. CASE d = c
      BY <1>1, <1>4, <3>1, CallsMade DEF SetCode, At
    <3>2. CASE d # c
      <4>1. call'[d] = [call[d] EXCEPT !.code = IF @ = "newest" THEN "older" ELSE @]
        BY <1>4, <3>2 DEF SetCode
      <4>2. call[d] \in CallRecord
        BY <1>1
      <4> QED
        BY <4>1, <4>2 DEF CallRecord, At
    <3> QED
      BY <3>1, <3>2
  <2>2. call' \in [Calls -> CallRecord]
    <3>1. call' = [d \in Calls |-> call'[d]]
      BY <1>4 DEF SetCode
    <3> QED
      BY <2>1, <3>1
  <2>3. Deleting' = Deleting
    BY <2>1 DEF Deleting
  <2>4. uses' = 0 /\ deaths' = deaths /\ quota' = quota
    BY <1>4 DEF SetCode, limits
  <2>5. crossed' \in BOOLEAN /\ (Deleting # {} => crossed')
    BY <1>4 DEF SetCode, Deleting
  <2>6. Cardinality(Deleting') \in Nat /\ deaths \in Nat
    BY <2>3, DeletingIsFinite DEF CodeInv
  <2>7. uses' <= Cardinality(Deleting') + deaths'
    BY <2>4, <2>6
  <2> QED
    BY <1>1, <2>2, <2>3, <2>4, <2>5, <2>6, <2>7 DEF CodeInv
<1> QED
  BY <1>2, <1>3, <1>4 DEF Send

LEMMA CompareKeepsCode ==
  ASSUME CodeInv, NEW c \in Calls, CompareCode(c)
  PROVE  CodeInv'
<1>1. /\ call \in [Calls -> CallRecord] /\ ~ At(c, "delete")
      /\ quota' = quota /\ deaths' = deaths /\ code' = code /\ crossed' = crossed
  BY DEF CodeInv, CompareCode, At, limits
<1>2. CASE Matches(c)
  <2> DEFINE r == [call[c] EXCEPT !.pc = "delete"]
  <2>1. r \in CallRecord /\ r.pc = "delete" /\ call' = [call EXCEPT ![c] = r] /\ uses' = uses + 1
    BY <1>1, <1>2, CallsMade DEF CompareCode, GoTo, Pcs
  <2> HIDE DEF r
  <2>2. call' \in [Calls -> CallRecord] /\ Deleting' = Deleting \cup {c}
    BY <1>1, <2>1, OneMoves
  <2>3. Cardinality(Deleting') = Cardinality(Deleting) + 1
    BY <1>1, <2>2, DeletingIsFinite, FS_AddElement DEF Deleting
  <2> QED
    BY <1>1, <1>2, <2>1, <2>2, <2>3, DeletingIsFinite DEF CodeInv, Matches
<1>3. CASE ~ Matches(c)
  <2>1. Idle \in CallRecord /\ Idle.pc # "delete" /\ call' = [call EXCEPT ![c] = Idle]
    BY <1>1, <1>3, CallsMade DEF CompareCode, Return
  <2>2. CodeStays
    BY <1>1, <1>3 DEF CompareCode, CodeStays
  <2> QED
    BY <1>1, <2>1, <2>2, CodeAlone DEF CodeInv
<1> QED
  BY <1>2, <1>3

LEMMA EnterKeepsCode ==
  ASSUME CodeInv, NEW c \in Calls, Enter(c)
  PROVE  CodeInv'
<1>1. call \in [Calls -> CallRecord] /\ quota \in QuotaRecord
  BY DEF CodeInv
<1>2. CASE DeleteCode(c)
  <2> DEFINE r == [call[c] EXCEPT !.pc = "exists"]
  <2>1. r \in CallRecord /\ call' = [call EXCEPT ![c] = r]
    BY <1>1, <1>2, CallsMade DEF DeleteCode, GoTo, Pcs
  <2> HIDE DEF r
  <2>2. call' \in [Calls -> CallRecord]
    BY <1>1, <2>1, OneMoves
  <2> QED
    BY <1>1, <1>2, <2>2, CodeTaken DEF DeleteCode, limits
<1>3. ASSUME NEW strong \in BOOLEAN, CheckExists(c, strong) PROVE CodeInv'
  <2> DEFINE r == IF strong /\ accounts = 0 THEN [call[c] EXCEPT !.pc = "insert"] ELSE Idle
  <2>1. r \in CallRecord /\ r.pc # "delete" /\ call' = [call EXCEPT ![c] = r]
    BY <1>1, <1>3, CallsMade DEF CheckExists, GoTo, Return, Pcs
  <2>2. CodeStays /\ deaths' = deaths /\ quota' = quota /\ ~ At(c, "delete")
    BY <1>3 DEF CheckExists, At, limits
  <2> HIDE DEF r
  <2> QED
    BY <1>1, <2>1, <2>2, CodeAlone
<1>4. CASE InsertAccount(c)
  <2>1. Idle \in CallRecord /\ Idle.pc # "delete" /\ call' = [call EXCEPT ![c] = Idle]
    BY <1>1, <1>4, CallsMade DEF InsertAccount, Return
  <2>2. CodeStays /\ deaths' = deaths /\ quota' = quota /\ ~ At(c, "delete")
    BY <1>4 DEF InsertAccount, At, limits
  <2> QED
    BY <1>1, <2>1, <2>2, CodeAlone
<1> QED
  BY <1>2, <1>3, <1>4, CompareKeepsCode DEF Enter

\* A registration that dies before it has deleted the code is counted still.
LEMMA DieKeepsCode ==
  ASSUME CodeInv, NEW c \in Calls, Die(c)
  PROVE  CodeInv'
<1>1. call \in [Calls -> CallRecord]
  BY DEF CodeInv
<1>2. Idle \in CallRecord /\ Idle.pc # "delete" /\ call' = [call EXCEPT ![c] = Idle]
  BY <1>1, CallsMade DEF Die, Return
<1>3. call' \in [Calls -> CallRecord] /\ Deleting' = Deleting \ {c}
  BY <1>1, <1>2, OneMoves
<1>4. Cardinality(Deleting) <= Cardinality(Deleting') + 1 /\ Cardinality(Deleting') \in Nat
  <2>1. CASE c \in Deleting
    <3>1. Cardinality(Deleting \ {c}) = Cardinality(Deleting) - 1
      BY <2>1, DeletingIsFinite, FS_RemoveElement
    <3>2. Cardinality(Deleting) \in Nat \ {0}
      BY <2>1, DeletingIsFinite, FS_EmptySet
    <3> HIDE DEF Deleting
    <3> QED
      BY <1>3, <3>1, <3>2
  <2>2. CASE c \notin Deleting
    <3>1. Deleting' = Deleting
      BY <1>3, <2>2
    <3> QED
      BY <3>1, DeletingIsFinite
  <2> QED
    BY <2>1, <2>2
<1>5. deaths' = deaths + 1 /\ CodeStays /\ quota' = quota
  BY DEF Die, limits
<1> QED
  BY <1>3, <1>4, <1>5, DeletingIsFinite DEF CodeInv, CodeStays

LEMMA NextKeepsCode == CodeInv /\ [Next]_vars => CodeInv'
<1>1. ASSUME CodeInv, NEW c \in Calls, NEW behind \in Skews, TakeToken(c, behind) PROVE CodeInv'
  <2>1. call \in [Calls -> CallRecord] /\ call[c] \in CallRecord /\ quota \in QuotaRecord
    BY <1>1 DEF CodeInv
  <2> DEFINE r == IF Allows(bucket, behind) THEN [call[c] EXCEPT !.pc = "count"] ELSE call[c]
  <2>2. r \in CallRecord /\ r.pc # "delete" /\ call' = [call EXCEPT ![c] = r]
    <3>1. CASE Allows(bucket, behind)
      BY <1>1, <2>1, <3>1, CallsMade DEF TakeToken, GoTo, Pcs
    <3>2. CASE ~ Allows(bucket, behind)
      BY <1>1, <2>1, <3>2 DEF TakeToken, At
    <3> QED
      BY <3>1, <3>2
  <2>3. CodeStays /\ deaths' = deaths /\ quota' = quota /\ ~ At(c, "delete")
    BY <1>1 DEF TakeToken, At
  <2> HIDE DEF r
  <2> QED
    BY <1>1, <2>1, <2>2, <2>3, CodeAlone
<1>2. ASSUME CodeInv, NEW c \in Calls, NEW presented \in {"newest", "older"},
             Register(c, presented)
      PROVE  CodeInv'
  <2> DEFINE r == [pc |-> "get", code |-> presented, n |-> 0]
  <2>1. r \in CallRecord /\ r.pc # "delete" /\ call' = [call EXCEPT ![c] = r]
    BY <1>2 DEF Register, CallRecord, Pcs
  <2>2. CodeStays /\ deaths' = deaths /\ quota' = quota /\ ~ At(c, "delete")
    BY <1>2 DEF Register, At, limits
  <2> HIDE DEF r
  <2> QED
    BY <1>2, <2>1, <2>2, CodeAlone DEF CodeInv
<1>3. ASSUME CodeInv, Tick PROVE CodeInv'
  <2>1. quota' \in QuotaRecord
    BY <1>3 DEF Tick, CodeInv, QuotaRecord, NoQuota
  <2>2. UNCHANGED <<call, deaths>> /\ Deleting' = Deleting
    BY <1>3 DEF Tick, Deleting, At
  <2>3. CASE code \in {None, 1}
    <3>1. CodeGoes
      BY <1>3, <2>3 DEF Tick
    <3> QED
      BY <1>3, <2>1, <2>2, <3>1, CodeTaken DEF CodeInv
  <2>4. CASE code \notin {None, 1}
    BY <1>3, <2>1, <2>2, <2>4 DEF CodeInv, Tick
  <2> QED
    BY <2>3, <2>4
<1>4. ASSUME CodeInv, UNCHANGED vars PROVE CodeInv'
  BY <1>4 DEF vars, limits, CodeInv, Deleting, At
<1> QED
  BY <1>1, <1>2, <1>3, <1>4, SendKeepsCode, EnterKeepsCode, DieKeepsCode DEF Next

LEMMA CodeInductive == Spec => []CodeInv
<1>1. Init => CodeInv
  <2> SUFFICES ASSUME Init PROVE CodeInv
    OBVIOUS
  <2>1. call \in [Calls -> CallRecord] /\ quota \in QuotaRecord
    BY DEF Init, Idle, NoQuota, CallRecord, QuotaRecord, Pcs
  <2> QED
    BY <2>1 DEF Init, CodeInv
<1> QED
  BY <1>1, NextKeepsCode, PTL DEF Spec

\* For any number of calls, a code that is there has let through no more
\* registrations than are about to delete it or died: no code is used after one
\* of its registrations has come as far as its account (_assert_sms_code).
THEOREM CodeUsesAlwaysBounded == Spec => []CodeUsesBounded
<1>1. CodeInv => CodeUsesBounded
  BY DEF CodeInv, CodeUsesBounded, Deleting
<1> QED
  BY <1>1, CodeInductive, PTL

\* A code that has let nobody through goes only in time, or by a registration
\* that was about to delete the one before when it was set (_assert_sms_code).
THEOREM CodeAlwaysKeptUntilUsed == Spec => CodeKeptUntilUsed
<1>1. ASSUME CodeInv, [Next]_vars, code # None, code' = None
      PROVE  uses > 0 \/ crossed \/ Tick
  <2>1. CASE \E c \in Calls : DeleteCode(c)
    <3>1. Deleting # {}
      BY <2>1 DEF Deleting, DeleteCode
    <3> QED
      BY <1>1, <3>1 DEF CodeInv
  <2>2. ASSUME NEW c \in Calls, SetCode(c) PROVE FALSE
    BY <1>1, <2>2, PhoneAssumption DEF SetCode, PhoneAssumption
  <2>3. ASSUME NEW c \in Calls, CountSend(c) \/ StartDay(c) \/ Die(c) PROVE code' = code
    BY <2>3 DEF CountSend, StartDay, Die, CodeStays
  <2>4. ASSUME NEW c \in Calls, \/ CompareCode(c) \/ InsertAccount(c)
                                \/ \E strong \in BOOLEAN : CheckExists(c, strong)
        PROVE  code' = code
    BY <2>4 DEF CompareCode, InsertAccount, CheckExists, CodeStays
  <2>5. ASSUME NEW c \in Calls,
               \/ \E behind \in Skews : TakeToken(c, behind)
               \/ \E presented \in {"newest", "older"} : Register(c, presented)
        PROVE  code' = code
    BY <2>5 DEF TakeToken, Register, CodeStays
  <2>6. UNCHANGED vars => code' = code
    BY DEF vars
  <2> QED
    BY <1>1, <2>1, <2>2, <2>3, <2>4, <2>5, <2>6 DEF Next, Send, Enter
<1>2. CodeInv /\ [Next]_vars
        => [code # None /\ code' = None => uses > 0 \/ crossed \/ Tick]_vars
  BY <1>1
<1> QED
  BY <1>2, CodeInductive, PTL DEF Spec, CodeKeptUntilUsed

=============================================================================
