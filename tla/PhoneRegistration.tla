-------------------------- MODULE PhoneRegistration -------------------------
(***************************************************************************)
(* Registration of a phone number with a code sent to it: send_sms_code    *)
(* behind enforce_sms_rate (core/ratelimit.py), and register with          *)
(* _assert_sms_code (services/auth_service.py, register_require_sms).      *)
(* Every awaited Redis command and database statement is a step; a call    *)
(* may stop between any two.                                               *)
(*                                                                         *)
(* One phone.  The bucket of an address is shared with other phones, so it *)
(* refuses whenever it likes.  Of a code only matters whether it is the    *)
(* newest one; two codes are never equal by chance.                        *)
(***************************************************************************)
EXTENDS TokenBucket, FiniteSets

CONSTANTS
  Calls,      \* calls in flight together
  Skews,      \* how far the clocks of the machines may be behind
  PerDay,     \* rl_sms_per_day
  Day,        \* the 86400 seconds of the day's count, in ticks
  CodeTtl,    \* SMS_CODE_TTL
  MaxBack,    \* bound: ticks the callers are behind, over all calls
  MaxDeaths,  \* bound: calls that die
  Forever, None

ASSUME PhoneAssumption ==
  /\ IsFiniteSet(Calls)
  /\ Skews \subseteq Nat
  /\ {PerDay, Day, CodeTtl} \subseteq Nat \ {0}
  /\ MaxBack \in Nat /\ MaxDeaths \in Nat
  /\ {Forever, None} \cap Nat = {}

VARIABLES
  bucket,    \* rl:sms:min:{phone}
  quota,     \* rl:sms:day:{phone}: its count and the time it has left
  code,      \* auth:sms:{phone}: the time the newest code has left, or None
  accounts,  \* the profiles with the phone's blind index
  call,      \* the calls: pc, the code presented, the count answered
  deaths,    \* how many calls died (bounded)
  level,     \* history: the bucket, were there one clock
  back,      \* history: how far behind the callers were, over all calls
  uses,      \* history: the registrations the code that is there let through
  crossed    \* history: when it was set a registration was about to delete the
             \* one before

limits == <<bucket, quota, level, back>>
vars == <<limits, code, accounts, call, deaths, uses, crossed>>

Idle == [pc |-> "idle", code |-> None, n |-> 0]
NoQuota == [n |-> 0, ttl |-> None]

Init ==
  /\ bucket = Missing /\ quota = NoQuota /\ code = None /\ accounts = 0
  /\ call = [c \in Calls |-> Idle]
  /\ deaths = 0 /\ level = Capacity /\ back = 0
  /\ uses = 0 /\ crossed = FALSE

At(c, pc) == call[c].pc = pc
GoTo(c, pc) == call' = [call EXCEPT ![c].pc = pc]
Return(c) == call' = [call EXCEPT ![c] = Idle]

\* A step leaves the code that is there alone, or takes it away.
CodeStays == UNCHANGED <<code, uses, crossed>>
CodeGoes == code' = None /\ uses' = 0 /\ crossed' = FALSE

-----------------------------------------------------------------------------
(* send_sms_code and enforce_sms_rate *)

\* The bucket of the address lets the call through, then the phone's is asked.
TakeToken(c, behind) ==
  /\ At(c, "idle")
  /\ back + behind <= MaxBack
  /\ bucket' = Taken(bucket, behind)
  /\ back' = back + behind
  /\ IF Allows(bucket, behind)
     THEN GoTo(c, "count") /\ level' = level - Cost
     ELSE UNCHANGED <<call, level>>
  /\ CodeStays /\ UNCHANGED <<quota, accounts, deaths>>

AfterCount(n) == IF n > PerDay THEN "idle" ELSE "set"

\* INCR of the day's count; what is counted beyond PerDay is alike.
CountSend(c) ==
  /\ At(c, "count")
  /\ quota' = [n   |-> Min({quota.n + 1, PerDay + 1}),
               ttl |-> IF quota = NoQuota THEN Forever ELSE quota.ttl]
  /\ call' = [call EXCEPT ![c].pc = IF quota.n = 0 THEN "day" ELSE AfterCount(quota'.n),
                          ![c].n = quota'.n]
  /\ CodeStays /\ UNCHANGED <<bucket, level, back, accounts, deaths>>

\* mutant: the count never ends
StartDayNever(c) ==
  /\ At(c, "day")
  /\ GoTo(c, AfterCount(call[c].n))
  /\ CodeStays /\ UNCHANGED <<limits, accounts, deaths>>

\* The first of a day has the count end with the day.
StartDay(c) ==
  /\ At(c, "day")
  /\ quota' = IF quota = NoQuota THEN NoQuota ELSE [quota EXCEPT !.ttl = Day]
  /\ GoTo(c, AfterCount(call[c].n))
  /\ CodeStays /\ UNCHANGED <<bucket, level, back, accounts, deaths>>

\* A new code replaces the one before it.
SetCode(c) ==
  /\ At(c, "set")
  /\ code' = CodeTtl /\ uses' = 0
  /\ crossed' = \E d \in Calls : At(d, "delete")
  /\ call' = [d \in Calls |->
       IF d = c THEN Idle
       ELSE [call[d] EXCEPT !.code = IF @ = "newest" THEN "older" ELSE @]]
  /\ UNCHANGED <<limits, accounts, deaths>>

-----------------------------------------------------------------------------
(* register *)

Register(c, presented) ==
  /\ At(c, "idle")
  /\ call' = [call EXCEPT ![c] = [pc |-> "get", code |-> presented, n |-> 0]]
  /\ CodeStays /\ UNCHANGED <<limits, accounts, deaths>>

Matches(c) == code # None /\ call[c].code = "newest"

\* mutant: the code is read and deleted at once, whatever was presented
CompareTaking(c) ==
  /\ At(c, "get")
  /\ IF Matches(c) THEN GoTo(c, "delete") ELSE Return(c)
  /\ CodeGoes /\ UNCHANGED <<limits, accounts, deaths>>

\* _assert_sms_code: the code is read and compared ...
CompareCode(c) ==
  /\ At(c, "get")
  /\ IF Matches(c) THEN GoTo(c, "delete") /\ uses' = uses + 1
     ELSE Return(c) /\ UNCHANGED uses
  /\ UNCHANGED <<limits, code, crossed, accounts, deaths>>

\* mutant: the code stays until it expires
DeleteNothing(c) ==
  /\ At(c, "delete")
  /\ GoTo(c, "exists")
  /\ CodeStays /\ UNCHANGED <<limits, accounts, deaths>>

\* ... and deleted, whichever it is by then.
DeleteCode(c) ==
  /\ At(c, "delete")
  /\ GoTo(c, "exists")
  /\ CodeGoes /\ UNCHANGED <<limits, accounts, deaths>>

\* A weak password or a phone that has an account stops the registration;
\* the code is spent.
CheckExists(c, strong) ==
  /\ At(c, "exists")
  /\ IF strong /\ accounts = 0 THEN GoTo(c, "insert") ELSE Return(c)
  /\ CodeStays /\ UNCHANGED <<limits, accounts, deaths>>

\* Account, profile and credential are inserted in one transaction, which the
\* unique phone_hash refuses to all but one.
InsertAccount(c) ==
  /\ At(c, "insert")
  /\ accounts' = IF accounts = 0 THEN 1 ELSE accounts
  /\ Return(c)
  /\ CodeStays /\ UNCHANGED <<limits, deaths>>

-----------------------------------------------------------------------------
(* Time and failures *)

Die(c) ==
  /\ ~ At(c, "idle")
  /\ deaths < MaxDeaths
  /\ deaths' = deaths + 1
  /\ Return(c)
  /\ CodeStays /\ UNCHANGED <<limits, accounts>>

Tick ==
  /\ bucket' = IF bucket = Missing THEN Missing ELSE BucketAfterTick(bucket)
  /\ level' = Min({Capacity, level + Refill})
  /\ quota' = CASE quota.ttl \in {None, Forever} -> quota
                [] quota.ttl = 1 -> NoQuota
                [] OTHER -> [quota EXCEPT !.ttl = @ - 1]
  /\ IF code \in {None, 1} THEN CodeGoes
     ELSE code' = code - 1 /\ UNCHANGED <<uses, crossed>>
  /\ UNCHANGED <<back, accounts, call, deaths>>

Send(c) == CountSend(c) \/ StartDay(c) \/ SetCode(c)

Enter(c) ==
  \/ CompareCode(c) \/ DeleteCode(c) \/ InsertAccount(c)
  \/ \E strong \in BOOLEAN : CheckExists(c, strong)

Next ==
  \/ \E c \in Calls :
       \/ \E behind \in Skews : TakeToken(c, behind)
       \/ \E presented \in {"newest", "older"} : Register(c, presented)
       \/ Send(c) \/ Enter(c) \/ Die(c)
  \/ Tick

\* Calls are answered and time passes.
Fairness == WF_vars(Tick) /\ \A c \in Calls : WF_vars(Send(c)) /\ WF_vars(Enter(c))

Spec == Init /\ [][Next]_vars /\ Fairness

-----------------------------------------------------------------------------
(* Properties *)

\* The bucket lets through no more than its capacity and what came back since,
\* on the clock that is ahead of all, but for the ticks its callers were
\* behind: each writes its own time into the bucket, so that the time between
\* it and the clock ahead comes back a second time.
BucketHolds == level + Refill * back >= 0

\* A code is good for one registration, but for those that compare it before
\* any has deleted it (_assert_sms_code awaits between the two): while it is
\* there, each it has let through is about to delete it, or has died.
CodeUsesBounded ==
  code # None => uses <= Cardinality({ c \in Calls : At(c, "delete") }) + deaths

\* A code that has let nobody through is deleted only by a registration that had
\* compared the one before when it was set; no wrong guess and no refused
\* registration takes it from its owner.
CodeKeptUntilUsed == [][code # None /\ code' = None => uses > 0 \/ crossed \/ Tick]_vars

MaySend == quota.n < PerDay /\ Refilled(bucket, Max(Skews)) >= Cost

\* When nobody died, a phone that asks no more for a while may ask again: the
\* bucket has filled up, by whatever clock, and the day's count has ended.
ServesAgain ==
  [](deaths = 0) /\ <>[][\A c \in Calls, s \in Skews : ~ TakeToken(c, s)]_vars =>
    <>[]MaySend

=============================================================================
