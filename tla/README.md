# Verification of the teaching chat backend

TLA+ models of the FastAPI / LangGraph backend under `src/backend/app`, their model-checking
configurations (TLC) and proofs (TLAPS). Paths below are relative to `src/backend/app` unless they
start with `src/` or `docs/` (that is, `src/docs/`).

## 1. The system

A learner chats with a tutor. Behind the chat a pure state machine, the *Feynman loop*, decides what
the tutor may do next: name a concept, explain it, have gaps diagnosed, receive a supply for them,
explain again, simplify, be closed with a mastery credit or escape without one. Around it stand
accounts with login sessions in Redis, a knowledge graph with a mastery ledger in MySQL, chat threads
in a LangGraph checkpointer and a registry of skills on disk.

| Component | State | Operations | Interacts with | What makes it correct |
|---|---|---|---|---|
| Feynman kernel (`pedagogy/loop.py`, `states.py`, `policy.py`, `schemas.py`) | none of its own: `tick(state, event)` is pure over `PedagogyState` | six event handlers, `closure_verdict`, the guards | called by session and middleware | laps, probes and supplies stay in budget; closing rests on evidence; the loop settles |
| Gap detector (`pedagogy/gaps.py`) | none: `analyze` is pure over atoms and a grade | claims, coverage, four rules, supplies, verdict | makes the reports the kernel ticks on | its verdict parts from the kernel's on the scores alone; a concept closes only on what was explained |
| Chat orchestration (`api/chat.py`, `pedagogy/session.py`, `turn.py`, `events.py`, `middleware/agent_pedagogy.py`) | the `pedagogy` channel of the checkpoint; per request a context and a sink | prepare a turn, stream the graph, before/after every model message, record the exchange | kernel; LangGraph saves a copy of the channel after each node | what is saved is a loop of the kernel; one credit a loop; no escape without a question |
| Login sessions (`services/session_store.py`, `auth_service.py`, `account_service.py`, `deps.py`) | Redis: session hashes, index set per account, blacklist; MySQL: password hash, `login_policy` | login, OAuth login, refresh, logout, logout of all ends, kick, list, change of password or policy, authentication of each request | each is a sequence of awaited Redis commands and commits, interleaved with all others | a refresh token is spent once; what is revoked stays out; one device for the logins that find single_device; the index reaches every session |
| Login guard (`core/ratelimit.py`) | Redis: failure count, lock, count of locks, each with a TTL | check, count a failure, lock, reset | `auth_service.login` | a lock follows the threshold and doubles; guesses stay few; no counter without end |
| Rate limits, SMS codes, registration (`core/ratelimit.py`, `auth_service.py`) | Redis: buckets, day count, code; MySQL: accounts | take a token, count a send, store a code, register with it | clocks of several machines | the bucket's rate; how often a code is used and who takes it away; the phone is served again |
| RBAC (`services/rbac_service.py`, `deps.py`) | MySQL roles, Redis cache with a TTL | load and fill, assign and invalidate | every authenticated request | no revoked role is served longer than it must be |
| Knowledge graph and ledger (`services/learning_service.py`, `pedagogy/mastery.py`) | concepts, atoms, edges, explanations, ledger rows | bind a concept, record an explanation with evidence, graph, list, review queue | chat clients after a loop closes | the graph is whole; each number is traced to its evidence; the pages agree |
| Threads (`services/thread_service.py`, `api/v1/threads.py`) | `agent_thread` rows, checkpoints under the same id | ensure, list, rename, delete, messages, record | chat, agent | the memory of a thread is its owner's |
| Agent and checkpointer singletons (`agent.py`, `main.py`) | module globals | open, build once, close | chat, threads, lifespan | the cached agent never holds a closed connection |
| Skills (`skills/*`, `middleware/agent_skills.py`) | a scan of a directory and its fingerprint | rescan, look up, authorise, read files | agent, API | what is read is what is on disk and what the caller may see; what fails has a cause |
| Frontend (`src/frontend/src/lib/api.ts`) | tokens in local storage, one refresh in flight per tab | call, refresh, log out | the API | - |

Hard behaviours: requests that overlap and read Redis or MySQL some awaits before they act on it;
transactions at REPEATABLE READ that read the past and write the present; model and tool rounds that
fail half-way; events the model reports out of turn; replays of refresh tokens; keys that expire
between two commands; clocks that differ or go back; a directory that changes under a scan; budgets at
their limit. They are listed with their lines in `PROJECT.json` under "hazards".

## 2. Modules

| Module | Models | Uses |
|---|---|---|
| `FeynmanKernel` | the kernel as constant operators: `tick`, the handlers `OnX`, the table `TRANSITIONS`, `closure_verdict`, `WithinProbeBudget`, `ClampSupply`; `LegalSnapshot`, what every snapshot of the kernel satisfies | |
| `FeynmanLoop` | one loop under any sequence of events | `FeynmanKernel`; implements `FeynmanPromise` |
| `FeynmanPromise` | the abstract promise: explain lap after lap, at most `MaxLoops` times, end closed with one credit or escaped with none | |
| `Absent` | the constant `None` | |
| `FeynmanKernelProofs`, `LearningLedgerProofs`, `AuthSessionsProofs`, `LoginGuardProofs`, `PhoneRegistrationProofs` | theorems about the module each is named for | that module |
| `FeynmanLoopProofs` | theorems about the loop, the detector and the loop diagnosed by it | `DiagnosedLoop`, `FeynmanKernelProofs` |
| `ChatProofs` | theorems about a thread's loop and about the threads | `PedagogyChat`, `Threads`, `FeynmanKernelProofs` |
| `CachesProofs` | theorems about what is read from a copy: the cached roles, the scan of the skills | `RbacCache`, `SkillRegistry` |
| `GapDetector` | the detector as constant operators | `FeynmanKernel` |
| `DiagnosedLoop` | a loop whose reports the detector makes | `FeynmanLoop`, which it implements, and `GapDetector` |
| `PedagogyChat` | one thread behind `/api/chat` | `FeynmanKernel` |
| `Mastery` | weights, decay, gain and review dates in integers | |
| `LearningLedger` | the graph and the ledger under overlapping transactions | `Mastery` |
| `AuthSessions` | the sessions of one account | |
| `LoginGuard` | the lock on one identity | |
| `TokenBucket` | the bucket script as constant operators | |
| `PhoneRegistration` | a code sent to one phone and the registrations that use it | `TokenBucket` |
| `RbacCache` | the cached roles of one account | |
| `AgentSingleton` | the globals of `agent.py` as actions on two variables | |
| `Threads` | rows and checkpoints of threads under the life of the application | `AgentSingleton` |
| `SkillRegistry` | the registry of a process over a directory that changes | |
| `MC...` | the instances TLC checks | one per state machine |

## 3. Model and code

### The loop (`FeynmanKernel`, `FeynmanLoop`)

Each `_on_*` handler of `loop.py` is one operator from a snapshot and an event to a `LoopStep`;
`tick` refuses events of an ended loop and events the table does not list, then dispatches. The sort
of the gaps by severity, the cut to the probe budget and the sharing of the supply budget are part of
`OnGapReported`, as they are part of the handler. Abstracted: texts, titles, reasons and prerequisites
(no branch reads them); scores are integers on a scale `0..FullScore`; the two talk counters saturate
at `TalkCap`; an atom bundle is its budget of characters. `FeynmanLoop` lets any event come at any
time, which is what `tick` is written for.

### The detector (`GapDetector`, `DiagnosedLoop`)

`Claims`, `Coverage`, the four rules, the supplies and the verdict are one operator each, in the order
`analyze` calls them. A text is the technical terms it uses, whether it has a connective that skips a
reason, and whether it is long enough to explain its terms; a statement of the grader may be malformed
(no object, no text, an unknown status, an id that another statement already has). The two lists the
code sorts or filters are `Ascending` (a set of naturals in order) and `Only` (what a sequence has at
some of its places), defined as what they are and not as a way to compute it. `DiagnosedLoop` takes the
snapshot, the credits and the events of `FeynmanLoop`,
hands the report to `tick` and the supplies back to the learner, as `docs/pedagogy-core.md` describes
the loop; nothing in the source joins the two yet, `/api/chat` takes its reports from the model's
message. `Analyze` may also raise, after which nothing has happened.

### A thread (`PedagogyChat`)

`channel` is the `pedagogy` channel of the newest checkpoint; `req[r]` is a request in flight. Its
steps are the points where the code awaits: `PrepareTaught` / `PreparePlain` (`_prepare_pedagogy`,
`prepare_turn`, `read_turn`, the state card sent up front), `StartStream` (`agent.astream` loads the
channel), `CallModel` (the model node), `AfterModelTaught` / `AfterModelPlain` (`aafter_model`: parse
and tick the reported events, guard the text, account for its length, judge the talk ratio once,
save), `RunTools`, `Finish`, and `Abort` at any of them. That a run works on the channels it loaded
and saves its copy after every node is LangGraph's behaviour, taken from how the code relies on it.

A text of the learner is the answers of `turn.py`'s patterns (asks to escape, confirms, denies, names
a concept) and a length; a message of the model is the events it reports, whether it calls tools,
whether it holds a worked solution, and its lengths. `TUTOR_EVENT_KINDS` filters the events.
The card and two fields of the carrier are history: no action reads them to decide. `asked` and
`credits` travel with the loop, so that two runs which continue one saved loop each have the history
of their own lineage; `Loops` is every loop that is saved or that an open request runs on.

### Graph and ledger (`Mastery`, `LearningLedger`)

A request is one transaction: `BindBegin` and `ExplainBegin` take the snapshot at their first SELECT,
`BindCommit` and `ExplainCommit` apply all writes to the rows of the moment of the commit, computed
from the snapshot as the code computes them; a unique key, a foreign key or an UPDATE of a row that is
gone makes the commit impossible and `Rollback` its only outcome, which may also come for any other
reason (a deadlock, a lost connection). `atoms`, `edges`, `concepts` and `ledger` are the tables;
`everVerified`, `trail` and `overlapped` are history. Days may go back by one (`ClockMoves`): `_days_since`
counts that as no time. The exponential of the decay is a division by `Fade` a day, which composes
over days as the exponential does; `review_queue`, `concept_graph` and `mastery_list` are operators
over the tables; `PagesAgree` and `QueueServesMostOverdue` relate what they show.

### Sessions (`AuthSessions`)

Every Redis command and every database commit of a call is one action, so calls interleave exactly at
the code's awaits; the Lua script of `rotate_refresh_jti` is one atomic action and its outcome the
disjoint pair `RefreshRotate` / `RefreshReused`. `hash[s]` is the session's `refresh_jti` (or `None`),
`index` the set `auth:sess-idx`, `blacklist` the set of `auth:blk`. `issued` holds every token pair a
caller was ever handed: any caller may present any of them at any time, which covers retries, several
tabs and stolen tokens. `Abort` ends a call between any two of its steps (a lost connection, a crash,
the status check that fails after the rotation); `Expire` removes a session whose TTL has run out, but
not while its own login is still running. A logout of a token accepted in its leeway has no TTL left
and blacklists nothing: `BlacklistAccess` allows both outcomes. Two variables are history: `exclusive`
holds the sessions whose login read the policy single_device, `unlisted` those that the DEL with which
`revoke_all_sessions` ends took off the index though its SMEMBERS had not listed them.

### Guard, codes, roles (`LoginGuard`, `TokenBucket`, `PhoneRegistration`, `RbacCache`)

Again one action per awaited command. A Redis key is gone or a value with the ticks it has left;
`Tick` shortens every deadline. In `LoginGuard` the actions follow `assert_not_locked` (`CheckLock`,
`CheckCaptcha`), the verification of the password, `register_failure` (`CountFailure`, `StartWindow`,
`CountLock`, `RememberLock`, `SetLock`, `ClearFailures`) and `reset`. `due` is history: the three keys
as they would be if each attempt were one step. `calm` says that nothing has disturbed that: an
attempt that died, or one that was overtaken or kept waiting between the commands of a lock.

The bucket script is one operator, `Taken`, called with how far the caller's clock is behind the clock
that is ahead; `level` and `back` of `PhoneRegistration` are history of what it let through.
`Register`, `CompareCode`, `DeleteCode`, `CheckExists`, `InsertAccount` are the awaits of a
registration; a code is the newest or an older one, `uses` counts the registrations the newest has let
through and `crossed` says that one was about to delete the code before when it was set (history). In `RbacCache` a request reads the roles in the snapshot its first SELECT fixed, which
may be well before; `CommitOnly` and the deletion of the cached roles are the two halves of
`assign_roles`, with `Die` between them.

### Threads and agent (`Threads`, `AgentSingleton`)

`row[t]` is the row of a thread, `checkpoint[t]` whose words the agent remembers under its id. A chat
goes through `EnsureFound` / `EnsureMissing` / `EnsureInsert` (a duplicate key ends it) /
`EnsureRefresh`, `RunLoads`, `RunSaves` and `Titles`; a deletion commits first and cleans up
afterwards, or not (`CleanUpFails`, `NoCleanUp`). `Startup`, `Shutdown` and `Crash` are the lifespan
of the application, which calls `init_checkpointer` and `close_checkpointer` of `AgentSingleton`;
because the first request comes after the one and the last request before the other, creation and
closing of the agent cannot race, although `agent.py` alone would permit it.

### Skills (`SkillRegistry`)

`disk[s]` is what the directory of a skill holds, and may change at any time; `index` and `fingerprint`
are the registry's. A directory holds a skill with its visibility, a file that is refused, or one
that the scan does not cope with ("raises"). `Stat` and `Compare` are `_ensure_fresh` outside its lock,
`Acquire`, `Scan` and `TakeFingerprint` the rescan inside; `Fail` and `Vanish` are the exceptions that
leave the scan, as it catches `SkillLoadError` alone: the lock is freed, the call fails and the old scan
and fingerprint stay. `OpenFile` and `ReadFile` are an attachment, authorised on the index and read from
disk; `LookUpAgain` and `OpenAgain` are the administrator's, who is given what is not visible to him and
reads its files too. `AllNames` and `AllSkill` are `all()`, one look for the names and one for each.
`seen` is history: what was on disk while a call ran; `excused` marks a call that used an index
whose scan and fingerprint a change fell between.

## 4. Runs

| Run | Instance | States | Shows |
|---|---|---|---|
| `loop` | 3 laps, 2 probes, supply budget 4, up to 3 gaps of 4 kinds per report, scores at and under each threshold | 6 024 | the budgets, the bookkeeping of gaps and probes, the sharing of the supplies, the evidence of a closed loop, settling, and the refinement of `FeynmanPromise` |
| `gaps` | 3 atoms, one unverified; every pair of 12 statements, with and without jargon, analogy, counterexample | 80 600 | the two verdicts part on the scores alone, a closed concept was explained, a supply leads on; `Reports` is all the detector can make of the instance (`DetectorReports`) |
| `chat` | 2 requests at a time, 1 lap, 1 probe, 2 kinds of text, 5 messages | 897 429 | `ChannelLegal`, `CardIsSaved`, `CreditedOnce`, `EscapeWasAsked` while runs save over each other |
| `ledger` | 2 transactions, 1 account, 2 keys, 2 concepts, 5 payloads, 2 kinds of evidence | 1 068 183 | the graph is whole, lines are earned and traceable, the pages agree |
| `sessions_all` | 3 calls, 1 session, 3 token pairs, one change of the password, an outdated hash | 1 030 139 | `RefreshOnce`, `RevokedStaysRevoked`, `EndedStaysOut`, `ReplayEndsSession` |
| `sessions_device` | 2 calls, 3 sessions, both policies, kicks and logout of all, no renewals | 1 954 646 | `SingleDevice`, `UsableIsIndexed` while the policy changes and all sessions are ended |
| `guard` | 2 attempts, 2 wrong passwords lock, window 2, day 4, one death | 108 000 | the guard is exact when undisturbed, bounds the guesses always, forgets |
| `registration` | 2 calls, clocks a tick apart, 1 code a day, one death | 583 000 | rate of the bucket, how often a code is used and who takes it away, the phone is served again |
| `rbac` | 3 requests, 2 roles, TTL 2 | 368 000 | stale roles have a reason and an end; the last roles take effect |
| `threads` | 2 accounts, 1 id, 2 requests, 2 lives | 444 000 | the memory of a thread is its owner's; a given title stays |
| `skills` | 1 skill, 2 calls, 3 kinds of caller, a file no scan copes with | 3 300 000 | what is returned was on disk, a file was allowed, what fails has a cause |
| `chat_loop_lost` | 1 request at a time, 2 laps, 2 probes, every kind of text, 10 lists of reported events each said in three ways | - | violated: a supply clamped to nothing makes the stored loop unreadable (`pedagogy/schemas.py:65` against `pedagogy/loop.py:337`; the one finding of `PROJECT.json`) |

Counts that end in zeros are rounded.

Why the bounds are enough. *loop*: three laps separate the first, a middle and the last; three gaps
exceed two probes; supplies of half and of the whole budget exhaust it exactly, early and never.
*gaps*: the rules relate at most two statements (a step and its prerequisite, two with one id), and
the atoms have every relation a rule asks for: a prerequisite that is given, one that is not, one that
is verified and one that is not, and an atom that depends on itself. *chat*: a lost save
takes two requests, each of which may be followed by any number of others; one lap is enough to close a loop, to ask, to escape and to report the
closing twice. The lists of events include two in one message, an event out of turn and one that is not
the tutor's. Texts are short: what the guards cut and the talk ratio are `chat_loop_lost`'s, and the
theorems' for any length.
*ledger*: a lost update takes two transactions, a broken edge two atoms;
`MaxId`, `MaxDay` and `MaxEvidence` bound atoms created, days and evidence credited, so that an atom
can be created, deleted and created again while evidence on it is under way. *sessions*: the
properties of `sessions_all` are about one session each, so it has one, and three calls: an owner, a
thief and whoever ends the session. Three pairs let two refreshes with one token both succeed if the
code allowed it. In `sessions_device` a race is between two calls, a third session gives a kick a
victim and a bystander, and a session can be indexed between the SMEMBERS and the DEL of a logout of
all. *guard*: two attempts
cross the threshold together; the windows are such that counts expire, a lock falls into the day of
the one before and outlives it; `MaxLocks` is where the lock has its full length. *registration*: the
bucket holds one token, so two calls compete for it, as they do for a code, which is replaced once it
was sent again; `MaxBack` bounds how far callers are behind over
a behaviour. *rbac*: two fills around an assignment, or two assignments around a fill. *threads*: a
chat and the deletion it meets, then the chat of another account that takes the id, which two requests
at a time with any number one after the other allow; two lives put a restart between them. *skills*:
every transition between absent, public, gated and a file no scan copes with, under two calls. `MaxJti`, `MaxPassword`,
`MaxDeaths` and `MaxLives` are guards of the models alone too.

`SYMMETRY` permutes requests, calls, sessions or accounts only where no action or property tells them
apart, and only in runs that check invariants and `[][A]_vars` properties, never with liveness.
`CHECK_DEADLOCK FALSE` stands in `gaps`, where a loop ends, and in `threads`, where the application may
be shut down for good (`MaxLives`); every other run checks deadlock.

Fairness. `guard`, `registration` and `rbac` assume that time passes (`WF` of `Tick`) and that a call
that has begun is served (`WF` of `Answer`, of `Send` and `Enter`, of `Serve`): the event loop runs
every task whose await is over, and Redis and MySQL answer or fail. Nothing assumes that a call
begins. `Forgets` and `ServesAgain` exclude deaths, since a process that dies between `INCR` and
`EXPIRE` does leave a counter without a deadline; `RolesTakeEffect` and the end of a lock do not.
`PhaseSettles` of `loop` needs no fairness: it says that changes of the state stop, which a bound on
the laps forces. All other properties are safety properties.

Each property of a passing run has a mutant, an operator that a plausible slip would have produced in
place of a mapped one (marked "mutant" where it is defined); TLC refutes the property on the mutant.

### Where a property stops

Several properties hold but for a case the code leaves open; the case is a condition of the property,
so that it holds of all others. They are worth knowing, and each was seen in a counterexample.

- *Ledger.* Two requests of one account that overlap on a line lose one update of its numbers
  (`LineIsItsEvidence`); what is left never claims more than was committed (`NoEvidenceInvented`).
  `_sync_edges` (`services/learning_service.py:270`) says that it rebuilds the edges of the atoms in a
  request; it adds those that are missing and removes none.
- *Guard.* An attempt that waits between the commands of a lock may delete what others counted, or
  lock twice (`GuardIsExact`); a few more guesses are all that gives (`GuessesBounded`).
- *Bucket.* Each tick a caller's clock is behind is refilled twice (`BucketHolds`).
- *Roles.* A request that read the roles before an assignment and fills the cache after its
  invalidation keeps the old ones for a TTL (`late` in `StaleHasReason`).
- *Threads.* A chat that a deletion overtakes saves a memory that no row owns, and so does a
  deletion whose clean-up fails; the id is free, and whoever names it next is answered from it
  (`overlapped` in `OwnConversation`). The id `default` is every account's: whoever has it first makes
  the others' chats on it 404. A rename while a chat runs is overwritten by the generated title, the
  chat's snapshot being older, in spite of the comment at `services/thread_service.py:128`
  (`GivenTitleStays`).
- *Skills.* A change between the scan and the fingerprint of a reload is missed until the next one
  (`excused` in `FreshReads`). A file that makes the scan raise fails every call until it is mended
  (`FailuresHaveCause`): `scan_skills` catches `SkillLoadError` (`skills/loader.py:128`), and
  `read_text` (`:77`), `list(declared)` (`:87`) and a file that goes between `is_file` and its reading
  raise others. The loader's docstring says "绝不抛到启动链路" and that one damaged skill is skipped
  (`skills/loader.py:4`), `skills/schema.py:17` "绝不让一个坏目录拖垮服务启动", and
  `src/backend/docs/skills-design.md:96` that a skill that fails its checks is logged and skipped.
- *Mastery.* The docstring of `record` says of evidence that earns nothing that the numbers stay and the
  time stamp is renewed ("只刷新时间戳", `pedagogy/mastery.py:274`). `_no_credit` leaves the time stamp
  alone too, as its own docstring (`:351`) and that of `services/learning_service.py:19` say; the model
  follows the code.
- *Codes.* As many registrations use a code as compare it before the first of them deletes it
  (`CodeUsesBounded`), and the delete of a slow one may take the code that was sent since (`crossed` in
  `CodeKeptUntilUsed`), though the comment at `services/auth_service.py:465` says that a code is for
  one use ("一次性").
- *Detector.* A report without gaps and wrong claims says closed on any score; the kernel refuses one
  whose completeness or own words are under the threshold, though the comment at
  `pedagogy/gaps.py:415` says that the two must agree ("报告的 verdict 必须与 loop.closure_verdict 同口径"),
  lest the learner is shown a report that says closed of a loop that is not (`pedagogy/gaps.py:417`
  against `pedagogy/loop.py:310`, `:314`). They do not: `VerdictsPartOnScores` says that the scores are
  all that parts them.
  A claim the grader numbers may meet the number of one it does not (`gaps.py:462`): the
  two share their gap. A statement of `gap_type` jargon_shield whose status is another yields no gap.
- *Chat*, outside of what its run states: a yes some turns after the question still escapes
  (`pedagogy/turn.py:58`, `:223`); a message that reports its way out of Detect or Return keeps its
  worked solution (`middleware/agent_pedagogy.py:313`); the talk ratio is judged on the first message
  of a round of tools (`pedagogy/session.py:132`, `middleware/agent_pedagogy.py:330`); of two
  requests on one thread at a time the one that saves last writes back the channel it loaded
  (`api/chat.py:246`), so that a tick, or the end of a loop, is lost, and a loop whose closing was lost
  may close and be credited again. What `CreditedOnce` and `EscapeWasAsked` say of overlapping
  requests is that each loop that is saved or run on is consistent with its own history.
- *Sessions.* A login between the listing and the deletion of `revoke_all` leaves a session no index
  names (`services/session_store.py:115`; `unlisted` in `UsableIsIndexed` and `SingleDevice`). A login
  that read multi_device opens its session after a switch to single_device has kicked the others
  (`services/account_service.py:111`; it is not `exclusive`). Outside of what the runs state: a login
  whose password was checked before a change of it gets its session after it
  (`services/auth_service.py:280`), and may write the outdated hash back (`:275`); two single-device logins at a time may kick each other (`services/session_store.py:123`).

## 5. Proofs

Each proof module stands on the inductive invariants of its component and holds for every value of the
constants that satisfies the component's assumption: positive budgets, thresholds on their scale,
`None` and `Forever` apart from the data, inputs of their types. No theorem bounds the number of
requests, calls, attempts, accounts, sessions, atoms or events. Each inductive invariant was checked by
TLC on the instance of the component's run before it was proved.

### The loop (`FeynmanKernelProofs`, `FeynmanLoopProofs`)

- `TickIsLegal`: if a snapshot is legal (`LegalSnapshot`: types, laps in budget, gaps accounted for,
  a concept past Pick, closing evidenced), so is the one after any event. One lemma per handler, then
  a case split over `tick`. Reports may hold any number of gaps: `KeptGaps` shows that cutting and
  clamping keeps exactly `ProbesKept` of them.
- `TickKeepsSupplies`: no event leaves supplies beyond the budget. `ClampSupply` is a recursion over
  the gaps; `ClampFollowsLeft` shows that it walks a function `Left`, the budget that is left before
  each gap, and `ClampedDraws` that what the gaps draw is the difference of two of its values, so that
  the sum never exceeds the first. That such recursions have a solution is proved by induction over
  the naturals (`NatSetInduction`, from `WFMin` of the library), with the induction hypothesis a set.
- `Inductive`: `IInv`, a legal snapshot together with *credits is 1 if the loop is closed, else 0*.
  `LoopBudget` alone is not inductive: that no ended or capped loop teaches again depends on the state,
  the concept and the gaps at once, and that closing happens once on the table's refusal of every event
  of an ended loop. `TypeCorrect`, `LoopsInBudget`, `GapsBookkept`, `ClosureIsEvidenced` follow;
  `SuppliesAlwaysInBudget` is inductive beside it.
- `Refines` shows that every step of the loop is a step of `FeynmanPromise` or a stutter.

### The detector and the diagnosed loop (`FeynmanLoopProofs`)

- *The lists.* `analyze` sorts ids and filters claims. `OrderExists` and `AscendingOrders` show that a
  finite set of naturals has its ascending order and that `Ascending` is it; `OnlyKeeps` that `Only`
  keeps what it is asked to, once. `ClaimsOfStatements` relates each claim to the statement that made
  it, whatever the grader left out, numbered or repeated.
- *The rules.* `GapsLeadOn`: every gap of any of the four rules is typed, and what it supplies is one
  atom of a claim with its number, or that atom after a prerequisite nothing said has explained
  (`SupplyEnds`, `EdgeIsMissing`). `CompletenessIsShare`: the score is on its scale, and one that
  clears a threshold means that share of the verified atoms. `AnalysisSays` collects what the report
  as a whole says, and `ReportIsTyped` that the kernel may be given it, which is the assumption
  `FeynmanLoop` makes of a report.
- `DiagnosedInductive`: *what is found is `analyze` of what was heard, in the phase it was heard in,
  and a closed loop was closed by the kernel's verdict on it* (`DiagnosedInv`). None of the three
  properties is inductive alone: each speaks of the report, and only this says where it comes from.
  `VerdictsAlwaysPartOnScores`, `ClosureWasExplained`, `SupplyAlwaysLeadsOn` follow from it and the lemmas.
- `DiagnosedIsLoop`: a diagnosed loop is a `FeynmanLoop`; a grading is a stutter of it. The hypothesis
  is that `Reports`, which a `FeynmanLoop` leaves open, holds what the detector may make; the run
  `gaps` gives it just that. All that is proved of the loop so holds of a diagnosed one.
- The proof of `SupplyAlwaysLeadsOn` failed for an atom that depends on itself: the edge that is missing
  then has one end, and one atom is supplied and not two (`gaps.py:550`). TLC confirmed it once the
  instance had such an atom; the property now says so and the instance keeps it.

### A thread and the threads (`ChatProofs`)

- `ChatInductive`, for any number of requests at a time: the channel and every loop a request carries
  are legal and agree with their own history (`Lineage`): one credit if the loop is closed and none if
  it is not, an escape or an open question only where the question was asked; and each request has the
  fields its next step reads. A message reports any list of events, so the lemmas about a trail go over
  the list, with `TickIsLegal` for one event. `ChannelAlwaysLegal`, `CreditsOnce` and
  `EscapeAlwaysAsked` follow: nothing serialises the requests of a thread, one may overwrite the loop of
  another, and none can make one that contradicts its history.
- `CardAlwaysSaved`, an action property, for any number of requests: the step that deals with a message
  saves what the last card of its request shows, over any list of events and any rounds of tools.
- `ThreadsInductive`: of a thread no deletion was overtaken on (`Kept`), what is remembered is its
  owner's or about to be cleaned up, its preview is its owner's, and each request on it is *settled*:
  one that has found the row to be its account's is right to think so still, and a run that has
  loaded the checkpoint has loaded its own account's words (`Settled`). The property alone is not
  inductive: a run saves what it loaded, and a lookup decides for the steps after it.
  `ConversationIsOwn` follows, for any accounts, ids and requests and through restarts.
- `GivenTitlesStay`, an action property: a request whose row had no given title when it read it, while
  there is one now, was under way when the title was given (`Marked`).

### The ledger (`LearningLedgerProofs`)

- `LedgerInductive`: `LedgerInv` relates the tables to the snapshot of every transaction under way. An
  id is handed out once, so an atom of a snapshot that is still there has kept its key and its concept
  (`SnapshotFits`), whatever was deleted and created in between; what a transaction loaded of a line is
  the line that is there, unless evidence on it was committed since (`LoadFits`). `ViewIsOneToOne`
  shows that a bind sees each key under one id, old or new. `LedgerTypeCorrect`, `GraphAlwaysWhole`,
  `LinesAlwaysEarned` and `EvidenceNeverInvented` follow. The type of a line rests on lemmas about the
  arithmetic (`DecayOnScale`, `GainOnScale`, `WeightOnScale`): mastery stays on its scale for every rate
  of learning, every day of forgetting and every weight.
- `LinesAlwaysAudited`: a line is the replay of its evidence, for evidence of any length.
  `ReplayOneMore` says what one piece more does to a replay; a commit that met no other adds that piece.
- `PagesAlwaysAgree` assumes `EdgeWeight = 1`, the one weight the code writes: the pages weigh an atom
  by its edges and by one respectively, and with another weight they would part.
- `QueueAlwaysServesMostOverdue`: `SortedExists` shows that a finite set has an order by any rank, so
  that the queue is what the sort and the cut say; nothing left out is then more overdue than the last
  served.

### Sessions (`AuthSessionsProofs`)

- `SessionInv`: a stored session stores the newest pair of its id, a pair is the one after the pair
  that paid for it, and every call is *sound* - what it carries from one await to the next is still true
  or harmless. `RefreshBuysOnce`, `EndedAlwaysStaysOut`, `ReplayAlwaysEnds` follow, and the action
  property `RevokedAlwaysStaysRevoked` (no step brings back a session that is over).
- `IndexInv`: a session that is stored and was opened, or whose login has put it on the index, is on
  the index or `unlisted`; it needs that a `revoke_all_sessions` about to delete the index has ended all
  it had listed (`Careful`), so that the DEL drops, of sessions that live, only those indexed since its
  SMEMBERS. `UsableAlwaysIndexed` follows for calls of every kind, changes of the password and logouts
  of all sessions among them.
- `DeviceInv`: of two stored sessions whose logins found single_device (`exclusive`) and have read whom
  to kick, and which no DEL has dropped, one is about to be revoked by the login of the other, which has
  not handed out its tokens yet. `AlwaysSingleDevice` follows, however the policy is switched meanwhile:
  what counts is the policy a login has read, for by that it kicks (`Single`).

### Guard, codes, roles

- `LoginGuardProofs`, `GuessesAlwaysBounded`: the count alone bounds nothing, since one attempt after
  the other may raise it beyond the threshold. `GuardInv` says on whose account it is: on that of the
  attempts in `Clearing`, which will clear it, and of those that died before they had. One lemma per
  kind of step; the size of `Clearing` changes by one where an attempt enters or leaves it.
- `GuardAlwaysExact`: the keys are compared with a guard in which every attempt is one step, so the
  invariant says how far behind it they are. `Exact`: while all is calm one attempt at most is on its
  way to lock, and by the command it has come to (`LockMatches`) the lock and the count of locks are
  what is due or one command short of it; the failure count is what is due but for the deadline that an
  attempt in `Opening` has yet to set, which no tick has gone by without (`CountMatches`). One lemma per
  action. With `MaxFailures` = 1, which the proof includes, the first failure both opens a
  window and triggers: such an attempt is on its way to lock before its window has a deadline
  (`OnItsWayToLock`).
- `PhoneRegistrationProofs`, `BucketAlwaysHolds`: `Covered` compares what the bucket will hold at the
  next call with the history `level + Refill * back`; it needs the deadline of the key as well
  (`bucket.age + bucket.ttl >= BucketTtl`), or a key that expired early would be a full bucket too soon
  (`KeptUntilFull`).
- `CodeInv`: the newest code has let through no more than are about to delete it or died, and while it
  has let nobody through, whoever is about to delete was so when it was set (`crossed`).
  `CodeUsesAlwaysBounded` follows, and the action property `CodeAlwaysKeptUntilUsed`, for any number of
  calls. The first needs the size of a set of calls that changes by one as a call enters or leaves it.

### Roles and skills (`CachesProofs`)

- `StaleAlwaysHasReason`: `Knows` says of each request that what it has read are the roles there are
  unless it is outdated, so that a fill is fresh or late; a commit leaves the cached value at most a
  TTL, and time takes from its deadline what it adds to the age of the change.
- `RegistryInductive`: only the holder of the lock scans; unless a change was missed, the scan is of
  the directory as it is while its fingerprint is to be taken, and otherwise of the directory whose
  fingerprint is kept (`ScanMatches`); and each open call knows that whatever it carries - a
  fingerprint it took, a result, the right to read a file, a list of names - was so at some time since
  it began (`Knowing`). Freshness of what a call returns is not inductive alone: a call takes the scan
  another thread made, on the word of a fingerprint it compared outside the lock.
  The scan may raise: such a call has seen the file that made it, or one that went, and leaves the
  scan and its fingerprint matched as they were. `ReadsAreFresh`, `FilesAreAllowed` and
  `FailuresAlwaysHaveCause` follow.

### Only model-checked

Liveness: `PhaseSettles`, `Forgets`, `ServesAgain`, `RolesTakeEffect`. These provers have no rule for
`WF` and `ENABLED`, and `PhaseSettles` rests on a measure that falls, an argument over behaviours that
needs the same. Every invariant and action property of a passing run is a theorem, and
`QueueServesMostOverdue` is one besides. What a run adds to
its theorem is that the instance reaches the cases, and the mutants.

Recursions are proved about as functions, by an induction over sets. An operator declared RECURSIVE,
and the library's folds, sorts and selections from a sequence, which are, are out of reach of the
provers: that is why `GapDetector` says what an ascending list and a selection *are*; TLC compared both
forms of `analyze` on every input of the instance.

The assumptions are those on the constants and no others. `GradeAssumption` says that a statement with a
text has a number or none, a text over the instance's terms and a reference that is an atom or not, and
that a grade is a list of those with flags and a score on its scale: what `to_claims` lets through of
the grader's JSON. `ClaimAssumption` and `AtomAssumption` keep `None` apart from claims and atoms, and
say that prerequisites are lists.

## 6. What is not modelled

- *Partly modelled.* Of the ledger: the text of concepts, the table of explanations with its lists and
  counts, and `depth_summary`, which no state change reads. Of the sessions: the first OAuth login,
  which inserts an account as a registration does, and the non-default settings (no rotation, no
  strict check). Of the limits: `enforce_login_rate`, two more buckets of the same script, and
  registration by e-mail, which is registration without a code.
- *Pure text or output.* Prompts and personas, the parsing of the grader's JSON, checks of paths and
  texts of skills, encryption, hashing, validators, audit rows, logging, configuration. Thresholds are
  CONSTANTS.
- *No behaviour of their own.* Profiles and credentials are updates of a row in one transaction; the
  schema and the connections are what the models assume of a statement and a commit, and unique and
  foreign keys are in the models of the services that meet them; agent tools keep no state, a round of
  tools is `RunTools`; the legacy token middleware is not installed, its checks are those of
  `get_current`; the frontend is a caller, and `AuthSessions` lets any caller present any token.
- TTLs of sessions are not clocks: such a key is there or gone. Those of guard, codes and roles are.

## 7. Plan

Done: the kernel, the detector, the chat, the ledger, the sessions, the guard, the registration, the
roles, the threads with the agent's globals and the skills as models, and all their invariants and
action properties as theorems. Left, in order of what they would tell:

1. Abstract specifications: a role lookup that is fresh or bounded in age, a ledger updated
   atomically, with `RbacCache` and `LearningLedger` shown to implement them where nothing overlaps.
2. Composition: `enforce_login_rate` in front of `LoginGuard`; `Threads` with the loop of
   `PedagogyChat` in its checkpoints; the table of explanations in `LearningLedger`.
3. Properties for the hazards of `PROJECT.json` that have none, once the code decides what should
   hold there: a login across a change of the password (`services/auth_service.py:280`), edges that are
   no longer so (`services/learning_service.py:270`); and for what two requests on one thread lose of
   each other (`api/chat.py:246`), of which only consistency is stated.
