----------------------------- MODULE LoginGuard -----------------------------
(***************************************************************************)
(* The lock on an identity whose logins keep failing (core/ratelimit.py,   *)
(* LoginGuard, called by auth_service.login): three Redis keys, each       *)
(* command awaited on its own, so the commands of attempts interleave.     *)
(*                                                                         *)
(* A key is gone or a counter with the time it has left; Tick takes one    *)
(* from every deadline, and what has no deadline stays.  One identity; an  *)
(* attempt the token buckets refuse does not reach the guard.              *)
(***************************************************************************)
EXTENDS Integers, FiniteSets, FiniteSetsExt

CONSTANTS
  Attempts,          \* logins of the identity in flight together
  MaxFailures,       \* login_max_failures
  CaptchaThreshold,  \* login_captcha_threshold
  FailWindow,        \* login_fail_window_seconds, in ticks
  LockBase, LockMax, \* login_lock_base_seconds, login_lock_max_seconds
  LockMemory,        \* the 86400 seconds auth:lockn lives
  MaxLocks,          \* bound: a lock count at which the lock is as long as it gets
  MaxDeaths,         \* bound: attempts that die
  Forever, None

ASSUME GuardAssumption ==
  /\ IsFiniteSet(Attempts)
  /\ {MaxFailures, FailWindow, LockBase, LockMemory, MaxLocks} \subseteq Nat \ {0}
  /\ CaptchaThreshold \in Nat /\ LockMax \in Nat \ {0} /\ MaxDeaths \in Nat
  /\ LockBase * 2^(MaxLocks - 1) >= LockMax
  /\ {Forever, None} \cap Nat = {}

VARIABLES
  fail, lock, lockn,  \* auth:fail, auth:lock, auth:lockn
  attempt,            \* pc and the counters the attempt was answered
  deaths,             \* how many attempts died (bounded)
  due,                \* history: the guard were every attempt one step
  calm                \* history: none has come between the steps of another

keys == <<fail, lock, lockn>>
vars == <<keys, attempt, deaths, due, calm>>

Key(n, ttl) == [n |-> n, ttl |-> ttl]
Gone == Key(0, None)
Idle == [pc |-> "idle", n |-> 0]
Fresh == [fail |-> Gone, lock |-> Gone, lockn |-> Gone]

Init ==
  /\ fail = Gone /\ lock = Gone /\ lockn = Gone
  /\ attempt = [a \in Attempts |-> Idle]
  /\ deaths = 0 /\ due = Fresh /\ calm = TRUE

-----------------------------------------------------------------------------
(* Redis *)

Ttl(key) == key.ttl

\* INCR makes a key without a deadline and keeps the deadline of one that is.
Incr(key) ==
  Key(Min({key.n + 1, MaxFailures + MaxLocks + Cardinality(Attempts) + MaxDeaths}),
      IF key = Gone THEN Forever ELSE key.ttl)

Expire(key, ttl) == IF key = Gone THEN Gone ELSE Key(key.n, ttl)

Older(key) ==
  CASE key.ttl \in {None, Forever} -> key
    [] key.ttl = 1 -> Gone
    [] OTHER -> Key(key.n, key.ttl - 1)

-----------------------------------------------------------------------------
(* What register_failure decides *)

LockSeconds(n) == Min({LockBase * 2^Max({n - 1, 0}), LockMax})

\* login_max_failures is what triggers the lock.
Triggers(count) == count >= MaxFailures

AfterCount(n) == IF Triggers(n) THEN "lock count" ELSE "idle"

\* The same in one step, on a record of the three keys.
Failed(g) ==
  LET counted == Incr(g.fail)
      f == IF counted.n = 1 THEN Expire(counted, FailWindow) ELSE counted
      l == LET m == Incr(g.lockn)
           IN  IF m.n = 1 THEN Expire(m, LockMemory) ELSE m
  IN  IF Triggers(f.n)
      THEN [fail |-> Gone, lock |-> Key(1, LockSeconds(Min({l.n, MaxLocks}))), lockn |-> l]
      ELSE [g EXCEPT !.fail = f]

-----------------------------------------------------------------------------
(* The steps of a login *)

At(a, pc) == attempt[a].pc = pc
GoTo(a, pc) == attempt' = [attempt EXCEPT ![a].pc = pc]
Return(a) == attempt' = [attempt EXCEPT ![a] = Idle]

Locking == {"lock count", "lock memory", "lock", "clear"}
Writing == Locking \cup {"window"}

\* An attempt that has yet to finish the lock its failure has triggered.
OnItsWayToLock(a) ==
  attempt[a].pc \in Locking \/ (At(a, "window") /\ Triggers(attempt[a].n))

\* What a step that counts does to the history: it is in order if no other
\* attempt is between the commands of a lock.
Observe(a, result) ==
  LET fine == calm /\ ~ \E b \in Attempts \ {a} : OnItsWayToLock(b)
  IN  calm' = fine /\ due' = IF fine THEN result ELSE Fresh

Disturb == calm' = FALSE /\ due' = Fresh

\* assert_not_locked: a lock that has time left refuses the attempt.
CheckLock(a) ==
  /\ At(a, "idle")
  /\ Ttl(lock) = None
  /\ GoTo(a, "fail count")
  /\ UNCHANGED <<keys, deaths, due, calm>>

\* From login_captcha_threshold failures on an attempt without a captcha is
\* turned away.
CheckCaptcha(a, captcha) ==
  /\ At(a, "fail count")
  /\ IF fail.n >= CaptchaThreshold /\ ~ captcha THEN Return(a) ELSE GoTo(a, "verify")
  /\ UNCHANGED <<keys, deaths, due, calm>>

\* The account is read and the password verified; an account that is locked
\* by an administrator or closed is refused and nothing is counted.
Verify(a, pc) ==
  /\ At(a, "verify")
  /\ IF pc = "refused" THEN Return(a) ELSE GoTo(a, pc)
  /\ UNCHANGED <<keys, deaths, due, calm>>

\* register_failure
CountFailure(a) ==
  /\ At(a, "wrong")
  /\ fail' = Incr(fail)
  /\ attempt' = [attempt EXCEPT ![a] =
       [pc |-> IF fail'.n = 1 THEN "window" ELSE AfterCount(fail'.n), n |-> fail'.n]]
  /\ Observe(a, Failed(due))
  /\ UNCHANGED <<lock, lockn, deaths>>

\* mutant: no deadline is set
StartWindowNever(a) ==
  /\ At(a, "window")
  /\ GoTo(a, AfterCount(attempt[a].n))
  /\ UNCHANGED <<keys, deaths, due, calm>>

StartWindow(a) ==
  /\ At(a, "window")
  /\ fail' = Expire(fail, FailWindow)
  /\ GoTo(a, AfterCount(attempt[a].n))
  /\ UNCHANGED <<lock, lockn, deaths, due, calm>>

CountLock(a) ==
  /\ At(a, "lock count")
  /\ lockn' = Incr(lockn)
  /\ attempt' = [attempt EXCEPT ![a] =
       [pc |-> IF lockn'.n = 1 THEN "lock memory" ELSE "lock", n |-> Min({lockn'.n, MaxLocks})]]
  /\ UNCHANGED <<fail, lock, deaths, due, calm>>

RememberLock(a) ==
  /\ At(a, "lock memory")
  /\ lockn' = Expire(lockn, LockMemory)
  /\ GoTo(a, "lock")
  /\ UNCHANGED <<fail, lock, deaths, due, calm>>

SetLock(a) ==
  /\ At(a, "lock")
  /\ lock' = Key(1, LockSeconds(attempt[a].n))
  /\ GoTo(a, "clear")
  /\ UNCHANGED <<fail, lockn, deaths, due, calm>>

\* mutant: the count is kept when the lock is set
ClearKept(a) ==
  /\ At(a, "clear")
  /\ Return(a)
  /\ UNCHANGED <<keys, deaths, due, calm>>

ClearFailures(a) ==
  /\ At(a, "clear")
  /\ fail' = Gone
  /\ Return(a)
  /\ UNCHANGED <<lock, lockn, deaths, due, calm>>

\* mutant: the number of locks is not forgiven
ResetCount(a) ==
  /\ At(a, "right")
  /\ fail' = Gone /\ lock' = Gone
  /\ Return(a)
  /\ Observe(a, Fresh)
  /\ UNCHANGED <<lockn, deaths>>

\* The password is right: one DEL of the three keys.
Reset(a) ==
  /\ At(a, "right")
  /\ fail' = Gone /\ lock' = Gone /\ lockn' = Gone
  /\ Return(a)
  /\ Observe(a, Fresh)
  /\ UNCHANGED deaths

\* Redis fails, the client goes away or the process dies between two commands.
Die(a) ==
  /\ ~ At(a, "idle")
  /\ deaths < MaxDeaths
  /\ deaths' = deaths + 1
  /\ Return(a)
  /\ IF attempt[a].pc \in Writing THEN Disturb ELSE UNCHANGED <<due, calm>>
  /\ UNCHANGED keys

\* Time passes.  Once every key is gone the guard is as good as new.
Tick ==
  /\ fail' = Older(fail) /\ lock' = Older(lock) /\ lockn' = Older(lockn)
  /\ keys' # keys
  /\ IF \E a \in Attempts : attempt[a].pc \in Writing
     THEN Disturb
     ELSE LET clean == [fail |-> fail', lock |-> lock', lockn |-> lockn'] = Fresh
              older == [k \in DOMAIN due |-> Older(due[k])]
          IN  calm' = (calm \/ clean) /\ due' = IF calm THEN older ELSE Fresh
  /\ UNCHANGED <<attempt, deaths>>

Answer(a) ==
  \/ \E captcha \in BOOLEAN : CheckCaptcha(a, captcha)
  \/ \E pc \in {"wrong", "right", "refused"} : Verify(a, pc)
  \/ CountFailure(a) \/ StartWindow(a) \/ CountLock(a) \/ RememberLock(a)
  \/ SetLock(a) \/ ClearFailures(a) \/ Reset(a)

Next ==
  \/ \E a \in Attempts : CheckLock(a) \/ Answer(a) \/ Die(a)
  \/ Tick

\* An attempt is answered and time passes.
Fairness == WF_vars(Tick) /\ \A a \in Attempts : WF_vars(Answer(a))

Spec == Init /\ [][Next]_vars /\ Fairness

-----------------------------------------------------------------------------
(* Properties *)

\* The guard is what it would be were every attempt one step - so many wrong
\* passwords in a window lock, each lock of a day doubles the next one, a right
\* password forgives all - as long as no attempt died, or was overtaken or
\* kept waiting, between the commands of a lock (register_failure).
GuardIsExact ==
  calm /\ (\A a \in Attempts : attempt[a].pc \notin Writing) =>
    [fail |-> fail, lock |-> lock, lockn |-> lockn] = due

\* However attempts interleave and die, the wrong passwords tried on one count
\* are few: those that lock, one more for each attempt in flight with the last
\* of them, and one for each that died before it had locked.
GuessesBounded ==
  fail.n <= MaxFailures - 1 + Cardinality(Attempts) + deaths

\* A lock ends.  And when nobody died, an identity nobody tries any more is
\* forgotten: no counter has lost its deadline to the commands of another.
Forgets ==
  /\ lock # Gone ~> lock = Gone
  /\ [](deaths = 0) /\ <>[][\A a \in Attempts : ~ CheckLock(a)]_vars =>
       <>[](keys = <<Gone, Gone, Gone>>)

=============================================================================
