---------------------------- MODULE TokenBucket -----------------------------
(***************************************************************************)
(* The token bucket of core/ratelimit.py: one Lua script, hence one step,  *)
(* on the tokens left and the time they were counted at.  That time is the *)
(* caller's clock; callers run on several machines, and age is how long it *)
(* is past on the clock that is ahead of the others.                       *)
(***************************************************************************)
EXTENDS Integers, FiniteSets, FiniteSetsExt

CONSTANTS
  Capacity,  \* tokens of a full bucket, in fractions of a token
  Refill,    \* fractions that come back in a tick
  Cost,      \* fractions a call costs: one token
  Slack      \* the 60000 ms a full bucket is kept for

ASSUME BucketAssumption ==
  /\ {Capacity, Refill, Cost} \subseteq Nat \ {0}
  /\ Slack \in Nat

Missing == [tokens |-> Capacity, age |-> 0, ttl |-> 0]

\* PEXPIRE: the time an empty bucket takes to fill, and the slack.
BucketTtl == (Capacity + Refill - 1) \div Refill + Slack

\* mutant: a bucket that is missing, or counted by a clock that is ahead, is full
RefilledOver(bucket, behind) ==
  IF bucket = Missing \/ bucket.age < behind THEN Capacity
  ELSE Min({Capacity, bucket.tokens + (bucket.age - behind) * Refill})

\* Time that has gone backwards refills nothing.
Refilled(bucket, behind) ==
  IF bucket = Missing THEN Capacity
  ELSE Min({Capacity, bucket.tokens + Max({0, bucket.age - behind}) * Refill})

Allows(bucket, behind) == Refilled(bucket, behind) >= Cost

\* The script, called from a machine whose clock is that much behind: the
\* bucket is counted at the caller's time, refused or not.
Taken(bucket, behind) ==
  [ tokens |-> Refilled(bucket, behind) - IF Allows(bucket, behind) THEN Cost ELSE 0,
    age    |-> behind,
    ttl    |-> BucketTtl ]

BucketAfterTick(bucket) ==
  IF bucket.ttl <= 1 THEN Missing
  ELSE [bucket EXCEPT !.age = @ + 1, !.ttl = @ - 1]

=============================================================================
