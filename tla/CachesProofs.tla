---------------------------- MODULE CachesProofs ----------------------------
(***************************************************************************)
(* How stale what the backend keeps in memory may be: the cached roles of  *)
(* an account, for every number of requests, every set of roles and every  *)
(* TTL; and the scanned skills, for every set of skills, callers and calls *)
(* at a time.                                                              *)
(***************************************************************************)
EXTENDS RbacCache, SkillRegistry, TLAPS

-----------------------------------------------------------------------------
(* The cached roles *)


Calling ==
  [ pc       : {"idle", "get", "set", "commit", "invalidate"},
    sees     : (SUBSET Roles) \cup {None},
    outdated : BOOLEAN ]

\* A request that has read the roles knows whether they have changed since.
Knows(q) ==
  /\ At(q, "get") /\ request[q].sees # None /\ ~ request[q].outdated
       => request[q].sees = roles
  /\ At(q, "set") /\ ~ request[q].outdated => request[q].sees = roles
  /\ At(q, "set") => request[q].sees # None
  /\ At(q, "commit") => request[q].sees \in RoleSets

\* The inductive invariant.  Why a fill is fresh or late depends on what every
\* request has read, and how long a stale value lasts on the deadline it has.
RbacInv ==
  /\ roles \in RoleSets
  /\ cache # None => cache.ttl \in 1..Ttl
  /\ request \in [Requests -> Calling]
  /\ since \in Nat
  /\ \A q \in Requests : Knows(q)
  /\ StaleHasReason

\* What a step does to the cache and the roles decides most of it.
LEMMA SameCacheSameReason ==
  ASSUME StaleHasReason, UNCHANGED <<roles, cache, since, late>>,
         unkept \/ (\E q \in Requests : At(q, "invalidate")) =>
           unkept' \/ \E q \in Requests : At(q, "invalidate")'
  PROVE  StaleHasReason'
BY DEF StaleHasReason, Stale

LEMMA ArriveKeeps ==
  ASSUME RbacInv, NEW q \in Requests, NEW snapshot \in BOOLEAN, Arrive(q, snapshot)
  PROVE  RbacInv'
<1>1. /\ request' \in [Requests -> Calling]
      /\ \A p \in Requests : p # q => request'[p] = request[p]
      /\ request'[q].pc = "get" /\ ~ request'[q].outdated
      /\ request'[q].sees \in {None, roles}
  <2> DEFINE arrived == [ pc |-> "get", sees |-> IF snapshot THEN roles ELSE None,
                          outdated |-> FALSE ]
  <2>1. /\ arrived \in Calling /\ arrived.pc = "get" /\ ~ arrived.outdated
        /\ arrived.sees \in {None, roles}
    BY DEF Calling, RbacInv, RoleSets
  <2>2. request' = [request EXCEPT ![q] = arrived]
    BY DEF Arrive
  <2> HIDE DEF arrived
  <2> QED
    BY <2>1, <2>2 DEF RbacInv
<1>2. \A p \in Requests : Knows(p)'
  BY <1>1 DEF Arrive, RbacInv, Knows, At
<1>3. StaleHasReason'
  BY <1>1, SameCacheSameReason DEF Arrive, RbacInv, At
<1> QED
  BY <1>1, <1>2, <1>3 DEF Arrive, RbacInv

LEMMA AssignKeeps ==
  ASSUME RbacInv, NEW q \in Requests, NEW rs \in RoleSets, Assign(q, rs)
  PROVE  RbacInv'
<1>1. /\ request' \in [Requests -> Calling]
      /\ \A p \in Requests : p # q => request'[p] = request[p]
      /\ request'[q].pc = "commit" /\ request'[q].sees = rs
  BY DEF Assign, RbacInv, Calling, RoleSets
<1>2. \A p \in Requests : Knows(p)'
  BY <1>1 DEF Assign, RbacInv, Knows, At
<1>3. StaleHasReason'
  BY <1>1, SameCacheSameReason DEF Assign, RbacInv, At
<1> QED
  BY <1>1, <1>2, <1>3 DEF Assign, RbacInv

\* A request that returns is idle and changes no other.
LEMMA Returned ==
  ASSUME RbacInv, NEW q \in Requests, Return(q)
  PROVE  /\ request' \in [Requests -> Calling]
         /\ request'[q].pc = "idle"
         /\ \A p \in Requests : p # q => request'[p] = request[p]
<1>1. Idle \in Calling /\ Idle.pc = "idle"
  BY DEF Idle, Calling
<1> QED
  BY <1>1 DEF Return, RbacInv

LEMMA HitKeeps ==
  ASSUME RbacInv, NEW q \in Requests, Hit(q)
  PROVE  RbacInv'
<1>1. /\ request' \in [Requests -> Calling]
      /\ request'[q].pc = "idle"
      /\ \A p \in Requests : p # q => request'[p] = request[p]
  BY Returned DEF Hit
<1>2. \A p \in Requests : Knows(p)'
  BY <1>1 DEF Hit, RbacInv, Knows, At
<1>3. StaleHasReason'
  BY <1>1, SameCacheSameReason DEF Hit, RbacInv, At
<1> QED
  BY <1>1, <1>2, <1>3 DEF Hit, RbacInv

LEMMA MissKeeps ==
  ASSUME RbacInv, NEW q \in Requests, Miss(q)
  PROVE  RbacInv'
<1>1. /\ request' \in [Requests -> Calling]
      /\ \A p \in Requests : p # q => request'[p] = request[p]
      /\ request'[q].pc = "set" /\ request'[q].outdated = request[q].outdated
      /\ request'[q].sees = IF request[q].sees = None THEN roles ELSE request[q].sees
  BY DEF Miss, RbacInv, Calling, RoleSets
<1>2. \A p \in Requests : Knows(p)'
  BY <1>1, RbacAssumption DEF RbacAssumption, Miss, RbacInv, Knows, At, RoleSets
<1>3. StaleHasReason'
  BY <1>1, SameCacheSameReason DEF Miss, RbacInv, At
<1> QED
  BY <1>1, <1>2, <1>3 DEF Miss, RbacInv

\* What is filled in is either of the roles there are, or late.
LEMMA FillKeeps ==
  ASSUME RbacInv, NEW q \in Requests, Fill(q)
  PROVE  RbacInv'
<1>1. /\ request' \in [Requests -> Calling]
      /\ request'[q].pc = "idle"
      /\ \A p \in Requests : p # q => request'[p] = request[p]
  BY Returned DEF Fill
<1>2. \A p \in Requests : Knows(p)'
  BY <1>1 DEF Fill, RbacInv, Knows, At
<1>3. cache' # None => cache'.ttl \in 1..Ttl
  BY RbacAssumption DEF RbacAssumption, Fill
<1>4. late' \/ cache'.value = load_account_rbac(roles')
  BY DEF Fill, RbacInv, Knows, At
<1>5. StaleHasReason'
  BY <1>4 DEF StaleHasReason, Stale
<1> QED
  BY <1>1, <1>2, <1>3, <1>5 DEF Fill, RbacInv

\* A commit makes the cached value stale with a whole TTL before it at most, and
\* whoever has read the roles outdated.
LEMMA CommitKeeps ==
  ASSUME RbacInv, NEW q \in Requests, Commit(q)
  PROVE  RbacInv'
<1>1. /\ roles' = request[q].sees /\ roles' \in RoleSets /\ since' = 0
      /\ UNCHANGED <<cache, late, unkept>>
  BY DEF Commit, CommitRoles, RbacInv, Knows
<1>2. request'[q].pc = "invalidate" /\ request'[q] \in Calling
  <2> DEFINE next == [Idle EXCEPT !.pc = "invalidate"]
  <2>1. next.pc = "invalidate" /\ next \in Calling
    BY DEF Idle, Calling
  <2>2. request'[q] = next
    BY DEF Commit, Outdate
  <2> QED
    BY <2>1, <2>2
<1>3. ASSUME NEW p \in Requests, p # q
      PROVE  /\ request'[p] \in Calling
             /\ request'[p].pc = request[p].pc /\ request'[p].sees = request[p].sees
             /\ request[p].pc \in {"get", "set"} /\ request[p].sees # None
                  => request'[p].outdated
  BY <1>3 DEF Commit, Outdate, RbacInv, Calling
<1>4. request' \in [Requests -> Calling]
  <2>1. \A p \in Requests : request'[p] \in Calling
    BY <1>2, <1>3
  <2>2. request' = [p \in Requests |-> request'[p]]
    BY DEF Commit, Outdate
  <2> QED
    BY <2>1, <2>2
<1>5. \A p \in Requests : Knows(p)'
  BY <1>1, <1>2, <1>3 DEF RbacInv, Knows, At
<1>6. StaleHasReason'
  BY <1>1, <1>2 DEF RbacInv, StaleHasReason, Stale, At
<1> QED
  BY <1>1, <1>4, <1>5, <1>6 DEF RbacInv

LEMMA InvalidateKeeps ==
  ASSUME RbacInv, NEW q \in Requests, invalidate_account_rbac(q)
  PROVE  RbacInv'
<1>1. /\ request' \in [Requests -> Calling]
      /\ request'[q].pc = "idle"
      /\ \A p \in Requests : p # q => request'[p] = request[p]
  BY Returned DEF invalidate_account_rbac
<1>2. \A p \in Requests : Knows(p)'
  BY <1>1 DEF invalidate_account_rbac, RbacInv, Knows, At
<1> QED
  BY <1>1, <1>2 DEF invalidate_account_rbac, Emptied, RbacInv, StaleHasReason, Stale

\* The reason that goes with a call that dies is remembered.
LEMMA DieKeeps ==
  ASSUME RbacInv, NEW q \in Requests, Die(q)
  PROVE  RbacInv'
<1>1. /\ request' \in [Requests -> Calling]
      /\ request'[q].pc = "idle"
      /\ \A p \in Requests : p # q => request'[p] = request[p]
  BY Returned DEF Die
<1>2. \A p \in Requests : Knows(p)'
  BY <1>1 DEF Die, RbacInv, Knows, At
<1>3. StaleHasReason'
  BY <1>1 DEF Die, RbacInv, StaleHasReason, Stale, At
<1> QED
  BY <1>1, <1>2, <1>3 DEF Die, RbacInv

\* What time adds to the age of a change it takes from the cached value.
LEMMA TickKeeps ==
  ASSUME RbacInv, Tick
  PROVE  RbacInv'
<1>1. UNCHANGED <<roles, request>> /\ since' \in Nat
  BY DEF Tick, RbacInv
<1>2. \A p \in Requests : Knows(p)'
  BY <1>1 DEF RbacInv, Knows, At
<1>3. CASE cache # None /\ cache.ttl > 1
  <2>1. /\ cache' = [cache EXCEPT !.ttl = @ - 1]
        /\ UNCHANGED <<late, unkept>>
    BY <1>3 DEF Tick
  <2>2. cache'.ttl = cache.ttl - 1 /\ cache'.value = cache.value
    BY <1>3, <2>1
  <2> QED
    BY <1>1, <1>2, <1>3, <2>1, <2>2, RbacAssumption
    DEF RbacAssumption, Tick, RbacInv, StaleHasReason, Stale, At
<1>4. CASE ~ (cache # None /\ cache.ttl > 1)
  <2>1. cache' = None
    BY <1>4 DEF Tick, Emptied
  <2> QED
    BY <1>1, <1>2, <2>1 DEF RbacInv, StaleHasReason, Stale
<1> QED
  BY <1>3, <1>4

\* Roles that were taken away are served only until the deletion after the
\* assignment or, if that one died, for a TTL, unless a request that had read
\* them before fills them in late (get_account_rbac, assign_roles).
THEOREM StaleAlwaysHasReason == Spec => []StaleHasReason
<1>1. Init => RbacInv
  <2>1. Idle \in Calling /\ Idle.pc = "idle"
    BY DEF Idle, Calling
  <2> QED
    BY <2>1, RbacAssumption
    DEF RbacAssumption, Init, RbacInv, Knows, At, StaleHasReason, Stale
<1>2. RbacInv /\ [Next]_vars => RbacInv'
  <2>1. ASSUME RbacInv, UNCHANGED vars PROVE RbacInv'
    BY <2>1 DEF vars, RbacInv, Knows, At, StaleHasReason, Stale
  <2>2. ASSUME RbacInv, NEW q \in Requests, Serve(q) PROVE RbacInv'
    BY <2>2, HitKeeps, MissKeeps, FillKeeps, CommitKeeps, InvalidateKeeps DEF Serve
  <2> QED
    BY <2>1, <2>2, ArriveKeeps, AssignKeeps, DieKeeps, TickKeeps DEF Next
<1>3. RbacInv => StaleHasReason
  BY DEF RbacInv
<1> QED
  BY <1>1, <1>2, <1>3, PTL DEF Spec


-----------------------------------------------------------------------------
(* The skill registry: the inductive invariant *)

Disks == [Skills -> Versions]

\* What a scan may hold: some skills, each as a version that loads.
Scans == UNION { [S -> Loadable] : S \in SUBSET Skills }

OpenCall ==
  [ pc      : {"stat", "compare", "take", "lock", "scan", "fingerprint", "got", "read",
               "listed", "KeyError", "raised"},
    op      : {"look", "all", "reload", "again"},
    current : Disks \cup {None},
    got     : Scans,
    names   : (SUBSET Skills) \cup {None},
    seen    : [Skills -> SUBSET Versions],
    excused : BOOLEAN,
    reader  : [skill : Skills, caller : Callers] \cup {None} ]

RegistryTypeOK ==
  /\ disk \in Disks /\ fingerprint \in Disks
  /\ scan \in Scans
  /\ missed \in BOOLEAN
  /\ call \in [Calls -> OpenCall \cup {NoCall}]

\* Only the call that holds the lock scans.
LockHeld == \A c \in Calls : call[c].pc \in {"scan", "fingerprint"} => lock = c

\* Unless a change was missed the scan is of the directory, or of the one whose
\* fingerprint is kept when nobody is about to take another.
ScanMatches ==
  ~ missed =>
    \/ scan = scan_skills(disk) /\ \E c \in Calls : CallAt(c, "fingerprint")
    \/ scan = scan_skills(fingerprint) /\ \A c \in Calls : ~ CallAt(c, "fingerprint")

\* What a result says of each skill was so at some time during the call.
Fresh(result, seen) ==
  \A s \in Skills :
    IF s \in DOMAIN result THEN result[s] \in seen[s] ELSE seen[s] \ Loadable # {}

MayRead(reader, seen) ==
  /\ reader \in [skill : Skills, caller : Callers]
  /\ \E v \in seen[reader.skill] \cap Loadable :
       \/ allows(v, reader.caller)
       \/ reader.caller.authenticated /\ IsAdmin(reader.caller)

CameAndWent(seen) ==
  \E s \in Skills : seen[s] \ Loadable # {} /\ seen[s] \cap Loadable # {}

\* A file no scan copes with, or one that went while the call ran.
CannotBeScanned(seen) ==
  \E s \in Skills : \/ "raises" \in seen[s]
                    \/ "absent" \in seen[s] /\ seen[s] # {"absent"}

\* The second look at a name is an administrator's.
LooksAgain(reader) ==
  /\ reader \in [skill : Skills, caller : Callers]
  /\ reader.caller.authenticated /\ IsAdmin(reader.caller)

\* What an open call knows: r is the call, with the directory d, the scan f and
\* whether a change was missed.
Knowing(r, d, f, m) ==
  r.pc # "idle" =>
    /\ \A s \in Skills : d[s] \in r.seen[s]
    /\ r.pc = "compare" => \A s \in Skills : r.current[s] \in r.seen[s]
    /\ r.pc = "take" => m \/ Fresh(f, r.seen)
    /\ r.pc = "got" => r.excused \/ Fresh(r.got, r.seen)
    /\ r.pc = "read" => r.excused \/ MayRead(r.reader, r.seen)
    /\ r.names # None => r.excused \/ \A s \in r.names : r.seen[s] \cap Loadable # {}
    /\ r.pc = "KeyError" => r.excused \/ CameAndWent(r.seen)
    /\ r.pc = "raised" => CannotBeScanned(r.seen)
    /\ r.op = "again" => LooksAgain(r.reader)

RegistryInv ==
  /\ RegistryTypeOK
  /\ LockHeld
  /\ ScanMatches
  /\ \A c \in Calls : Knowing(call[c], disk, scan, missed)

-----------------------------------------------------------------------------
(* Results and what is seen *)

\* A result says of some skills what loads.
LEMMA ScanSays ==
  ASSUME NEW f \in Scans
  PROVE  DOMAIN f \subseteq Skills /\ \A s \in DOMAIN f : f[s] \in Loadable
BY DEF Scans

LEMMA NothingScanned == << >> \in Scans
<1>1. << >> \in [{} -> Loadable]
  OBVIOUS
<1> QED
  BY <1>1 DEF Scans

LEMMA ScanOfDisk ==
  ASSUME NEW d \in Disks
  PROVE  scan_skills(d) \in Scans
<1>1. scan_skills(d) \in [{ t \in Skills : d[t] \in Loadable } -> Loadable]
  BY DEF scan_skills
<1> QED
  BY <1>1 DEF Scans

\* A scan of what is seen is fresh, and stays so.
LEMMA FreshScan ==
  ASSUME NEW d \in Disks, NEW seen, \A s \in Skills : d[s] \in seen[s]
  PROVE  Fresh(scan_skills(d), seen)
BY DEF scan_skills, Fresh

LEMMA FreshStays ==
  ASSUME NEW f, NEW seen, NEW more, Fresh(f, seen),
         \A s \in Skills : seen[s] \subseteq more[s]
  PROVE  Fresh(f, more)
BY DEF Fresh

\* Unless a change was missed, the scan is fresh to a call that knows of the
\* directory, and to one that found the fingerprint unchanged.
LEMMA ScanIsFresh ==
  ASSUME RegistryInv, ~ missed, NEW c \in Calls, ~ CallAt(c, "idle"),
         \/ CallAt(c, "compare") /\ call[c].current = fingerprint
         \/ \E b \in Calls : CallAt(b, "fingerprint")
  PROVE  Fresh(scan, call[c].seen)
<1>1. /\ disk \in Disks /\ fingerprint \in Disks
      /\ \A s \in Skills : disk[s] \in call[c].seen[s]
      /\ CallAt(c, "compare") => \A s \in Skills : call[c].current[s] \in call[c].seen[s]
  BY DEF RegistryInv, RegistryTypeOK, Knowing, CallAt
<1>2. CASE \E b \in Calls : CallAt(b, "fingerprint")
  <2>1. scan = scan_skills(disk)
    BY <1>2 DEF RegistryInv, ScanMatches
  <2> QED
    BY <1>1, <2>1, FreshScan
<1>3. CASE ~ \E b \in Calls : CallAt(b, "fingerprint")
  <2>1. scan = scan_skills(fingerprint)
    BY <1>3 DEF RegistryInv, ScanMatches
  <2>2. \A s \in Skills : fingerprint[s] \in call[c].seen[s]
    BY <1>1, <1>3
  <2> QED
    BY <1>1, <2>1, <2>2, FreshScan
<1> QED
  BY <1>2, <1>3

-----------------------------------------------------------------------------
(* Steps of one call *)

\* A step of one call, to r, while the directory and the scan stay.
LEMMA OneCall ==
  ASSUME RegistryInv, NEW c \in Calls, NEW r \in OpenCall \cup {NoCall},
         call' = [call EXCEPT ![c] = r],
         UNCHANGED <<disk, scan, missed>>,
         Knowing(r, disk, scan, missed)
  PROVE  /\ call' \in [Calls -> OpenCall \cup {NoCall}]
         /\ call'[c] = r
         /\ \A b \in Calls : b # c => call'[b] = call[b]
         /\ \A b \in Calls : Knowing(call'[b], disk', scan', missed')
<1>1. call \in [Calls -> OpenCall \cup {NoCall}]
  BY DEF RegistryInv, RegistryTypeOK
<1>2. /\ call' \in [Calls -> OpenCall \cup {NoCall}]
      /\ call'[c] = r
      /\ \A b \in Calls : b # c => call'[b] = call[b]
  BY <1>1
<1>3. ASSUME NEW b \in Calls PROVE Knowing(call'[b], disk', scan', missed')
  <2>1. Knowing(call'[b], disk, scan, missed)
    BY <1>2 DEF RegistryInv
  <2> QED
    BY <2>1
<1> QED
  BY <1>2, <1>3

\* A step that has nothing to do with a rescan.
LEMMA QuietCall ==
  ASSUME RegistryInv, NEW c \in Calls, NEW r \in OpenCall \cup {NoCall},
         call' = [call EXCEPT ![c] = r],
         UNCHANGED <<disk, scan, fingerprint, lock, missed>>,
         Knowing(r, disk, scan, missed),
         {call[c].pc, r.pc} \cap {"scan", "fingerprint"} = {}
  PROVE  RegistryInv'
<1>1. /\ call' \in [Calls -> OpenCall \cup {NoCall}]
      /\ call'[c] = r
      /\ \A b \in Calls : b # c => call'[b] = call[b]
      /\ \A b \in Calls : Knowing(call'[b], disk', scan', missed')
  BY OneCall
<1>2. RegistryTypeOK'
  BY <1>1 DEF RegistryInv, RegistryTypeOK
<1>3. LockHeld'
  BY <1>1 DEF RegistryInv, LockHeld
<1>4. \A b \in Calls : CallAt(b, "fingerprint")' <=> CallAt(b, "fingerprint")
  BY <1>1 DEF CallAt
<1>5. ScanMatches'
  BY <1>4 DEF RegistryInv, ScanMatches
<1> QED
  BY <1>1, <1>2, <1>3, <1>5 DEF RegistryInv

LEMMA Ends ==
  ASSUME RegistryInv, NEW c \in Calls, CallReturns(c),
         UNCHANGED <<disk, scan, fingerprint, lock, missed>>,
         call[c].pc \notin {"scan", "fingerprint"}
  PROVE  RegistryInv'
<1>1. NoCall.pc = "idle" /\ Knowing(NoCall, disk, scan, missed)
  BY DEF NoCall, Knowing
<1> QED
  BY <1>1, QuietCall DEF CallReturns

LEMMA StartKeeps ==
  ASSUME RegistryInv, NEW c \in Calls, NEW op \in {"look", "all", "reload"}, Start(c, op)
  PROVE  RegistryInv'
<1> DEFINE r == [ pc |-> IF op = "reload" THEN "lock" ELSE "stat", op |-> op,
                  current |-> None, got |-> << >>, names |-> None,
                  seen |-> [t \in Skills |-> {disk[t]}], excused |-> FALSE, reader |-> None ]
<1>1. r \in OpenCall
  BY NothingScanned DEF OpenCall, RegistryInv, RegistryTypeOK, Disks
<1>2. /\ r.pc \in {"lock", "stat"} /\ r.names = None /\ r.op # "again"
      /\ r.seen = [t \in Skills |-> {disk[t]}]
  OBVIOUS
<1>3. call' = [call EXCEPT ![c] = r] /\ call[c].pc = "idle"
  BY DEF Start, CallAt
<1> HIDE DEF r
<1>4. Knowing(r, disk, scan, missed)
  BY <1>2 DEF Knowing
<1> QED
  BY <1>1, <1>2, <1>3, <1>4, QuietCall DEF Start

\* What is true of an open call while it is open.
LEMMA OpenKnows ==
  ASSUME RegistryInv, NEW c \in Calls, ~ CallAt(c, "idle")
  PROVE  /\ call[c] \in OpenCall
         /\ Knowing(call[c], disk, scan, missed)
         /\ call \in [Calls -> OpenCall \cup {NoCall}]
<1>1. call[c] # NoCall
  BY DEF CallAt, NoCall
<1> QED
  BY <1>1 DEF RegistryInv, RegistryTypeOK

LEMMA StatKeeps ==
  ASSUME RegistryInv, NEW c \in Calls, Stat(c)
  PROVE  RegistryInv'
<1> DEFINE r == [call[c] EXCEPT !.pc = "compare", !.current = disk]
<1>1. call[c] \in OpenCall /\ Knowing(call[c], disk, scan, missed) /\ call[c].pc = "stat"
  BY OpenKnows DEF Stat, CallAt
<1>2. r \in OpenCall
  BY <1>1 DEF OpenCall, RegistryInv, RegistryTypeOK
<1>3. /\ r.pc = "compare" /\ r.current = disk /\ r.seen = call[c].seen
      /\ r.op = call[c].op /\ r.reader = call[c].reader
      /\ r.names = call[c].names /\ r.excused = call[c].excused
  BY <1>1 DEF OpenCall
<1>4. call' = [call EXCEPT ![c] = r]
  BY OpenKnows DEF Stat, CallAt, Fingerprint
<1> HIDE DEF r
<1>5. Knowing(r, disk, scan, missed)
  BY <1>1, <1>3 DEF Knowing
<1> QED
  BY <1>1, <1>2, <1>3, <1>4, <1>5, QuietCall DEF Stat

\* A call that finds the fingerprint unchanged takes a scan that is fresh.
LEMMA CompareKeeps ==
  ASSUME RegistryInv, NEW c \in Calls, Compare(c)
  PROVE  RegistryInv'
<1> DEFINE r == [call[c] EXCEPT !.current = None,
                   !.pc = IF call[c].current = fingerprint THEN "take" ELSE "lock"]
<1>1. call[c] \in OpenCall /\ Knowing(call[c], disk, scan, missed) /\ call[c].pc = "compare"
  BY OpenKnows DEF Compare, CallAt
<1>2. r \in OpenCall
  BY <1>1 DEF OpenCall
<1>3. /\ r.pc = IF call[c].current = fingerprint THEN "take" ELSE "lock"
      /\ r.seen = call[c].seen /\ r.names = call[c].names /\ r.excused = call[c].excused
      /\ r.op = call[c].op /\ r.reader = call[c].reader
  BY <1>1 DEF OpenCall
<1>4. call' = [call EXCEPT ![c] = r]
  BY OpenKnows DEF Compare, CallAt
<1> HIDE DEF r
<1>5. call[c].current = fingerprint => missed \/ Fresh(scan, call[c].seen)
  BY <1>1, ScanIsFresh DEF CallAt
<1>6. Knowing(r, disk, scan, missed)
  BY <1>1, <1>3, <1>5 DEF Knowing
<1> QED
  BY <1>1, <1>2, <1>3, <1>4, <1>6, QuietCall DEF Compare

\* What a call gets, r, is the scan.
LEMMA GotTheScan ==
  ASSUME RegistryInv, NEW c \in Calls, ~ CallAt(c, "idle"), Got(c, scan),
         missed \/ Fresh(scan, call[c].seen)
  PROVE  \E r \in OpenCall :
           /\ call' = [call EXCEPT ![c] = r]
           /\ r.pc = "got"
           /\ Knowing(r, disk, scan, missed)
<1> DEFINE r == [call[c] EXCEPT !.pc = "got", !.got = scan, !.excused = @ \/ missed]
<1>1. call[c] \in OpenCall /\ Knowing(call[c], disk, scan, missed) /\ call[c].pc # "idle"
  BY OpenKnows DEF CallAt
<1>2. r \in OpenCall
  BY <1>1 DEF OpenCall, RegistryInv, RegistryTypeOK
<1>3. /\ r.pc = "got" /\ r.got = scan /\ r.excused = (call[c].excused \/ missed)
      /\ r.seen = call[c].seen /\ r.names = call[c].names
      /\ r.op = call[c].op /\ r.reader = call[c].reader
  BY <1>1 DEF OpenCall
<1>4. call' = [call EXCEPT ![c] = r]
  BY OpenKnows DEF Got
<1> HIDE DEF r
<1>5. Knowing(r, disk, scan, missed)
  BY <1>1, <1>3 DEF Knowing
<1> QED
  BY <1>2, <1>3, <1>4, <1>5

LEMMA TakeKeeps ==
  ASSUME RegistryInv, NEW c \in Calls, Take(c)
  PROVE  RegistryInv'
<1>1. call[c].pc = "take" /\ (missed \/ Fresh(scan, call[c].seen))
  BY OpenKnows DEF Take, CallAt, Knowing
<1>2. PICK r \in OpenCall : /\ call' = [call EXCEPT ![c] = r]
                            /\ r.pc = "got"
                            /\ Knowing(r, disk, scan, missed)
  BY <1>1, GotTheScan DEF Take, CallAt
<1> QED
  BY <1>1, <1>2, QuietCall DEF Take
-----------------------------------------------------------------------------
(* A rescan *)

LEMMA AcquireKeeps ==
  ASSUME RegistryInv, NEW c \in Calls, Acquire(c)
  PROVE  RegistryInv'
<1> DEFINE r == [call[c] EXCEPT !.pc = "scan"]
<1>1. call[c] \in OpenCall /\ Knowing(call[c], disk, scan, missed) /\ call[c].pc = "lock"
  BY OpenKnows DEF Acquire, CallAt
<1>2. r \in OpenCall
  BY <1>1 DEF OpenCall
<1>3. /\ r.pc = "scan" /\ r.seen = call[c].seen
      /\ r.names = call[c].names /\ r.excused = call[c].excused
      /\ r.op = call[c].op /\ r.reader = call[c].reader
  BY <1>1 DEF OpenCall
<1>4. call' = [call EXCEPT ![c] = r]
  BY OpenKnows DEF Acquire, CallAt, GoTo
<1> HIDE DEF r
<1>5. Knowing(r, disk, scan, missed)
  BY <1>1, <1>3 DEF Knowing
<1>6. /\ call' \in [Calls -> OpenCall \cup {NoCall}]
      /\ call'[c] = r
      /\ \A b \in Calls : b # c => call'[b] = call[b]
      /\ \A b \in Calls : Knowing(call'[b], disk', scan', missed')
  BY <1>2, <1>4, <1>5, OneCall DEF Acquire
<1>7. RegistryTypeOK'
  BY <1>6 DEF RegistryInv, RegistryTypeOK, Acquire
<1>8. LockHeld'
  BY <1>3, <1>6, SkillAssumption DEF SkillAssumption, RegistryInv, LockHeld, Acquire
<1>9. ScanMatches'
  <2>1. \A b \in Calls : CallAt(b, "fingerprint")' <=> CallAt(b, "fingerprint")
    BY <1>1, <1>3, <1>6 DEF CallAt
  <2> QED
    BY <2>1 DEF RegistryInv, ScanMatches, Acquire
<1> QED
  BY <1>6, <1>7, <1>8, <1>9 DEF RegistryInv

\* A scan is fresh to every open call.
LEMMA ScanKeeps ==
  ASSUME RegistryInv, NEW c \in Calls, Scan(c)
  PROVE  RegistryInv'
<1> DEFINE r == [call[c] EXCEPT !.pc = "fingerprint"]
<1>1. call[c] \in OpenCall /\ Knowing(call[c], disk, scan, missed) /\ call[c].pc = "scan"
  BY OpenKnows DEF Scan, CallAt
<1>2. r \in OpenCall
  BY <1>1 DEF OpenCall
<1>3. /\ r.pc = "fingerprint" /\ r.seen = call[c].seen
      /\ r.names = call[c].names /\ r.excused = call[c].excused
      /\ r.op = call[c].op /\ r.reader = call[c].reader
  BY <1>1 DEF OpenCall
<1>4. call' = [call EXCEPT ![c] = r]
  BY OpenKnows DEF Scan, CallAt, GoTo
<1> HIDE DEF r
<1>5. disk \in Disks /\ call \in [Calls -> OpenCall \cup {NoCall}]
  BY DEF RegistryInv, RegistryTypeOK
<1>6. scan' = scan_skills(disk) /\ missed' = FALSE /\ UNCHANGED <<disk, fingerprint, lock>>
  BY DEF Scan
<1>7. /\ call' \in [Calls -> OpenCall \cup {NoCall}]
      /\ call'[c] = r
      /\ \A b \in Calls : b # c => call'[b] = call[b]
  BY <1>2, <1>4, <1>5
<1>8. ASSUME NEW b \in Calls PROVE Knowing(call'[b], disk', scan', missed')
  <2>1. CASE b = c
    BY <1>1, <1>3, <1>6, <1>7, <2>1 DEF Knowing
  <2>2. CASE b # c /\ call[b].pc # "idle"
    <3>1. Knowing(call[b], disk, scan, missed)
      BY DEF RegistryInv
    <3>2. Fresh(scan', call[b].seen)
      BY <1>5, <1>6, <2>2, <3>1, FreshScan DEF Knowing
    <3> QED
      BY <1>6, <1>7, <2>2, <3>1, <3>2 DEF Knowing
  <2>3. CASE b # c /\ call[b].pc = "idle"
    BY <1>7, <2>3 DEF Knowing
  <2> QED
    BY <2>1, <2>2, <2>3
<1>9. RegistryTypeOK'
  BY <1>5, <1>6, <1>7, ScanOfDisk DEF RegistryInv, RegistryTypeOK
<1>10. LockHeld'
  BY <1>1, <1>6, <1>7 DEF RegistryInv, LockHeld
<1>11. ScanMatches'
  BY <1>3, <1>6, <1>7 DEF ScanMatches, CallAt
<1> QED
  BY <1>8, <1>9, <1>10, <1>11 DEF RegistryInv

\* An exception leaves what was scanned.
LEMMA FailKeeps ==
  ASSUME RegistryInv, NEW c \in Calls, Fail(c)
  PROVE  RegistryInv'
<1> DEFINE r == [call[c] EXCEPT !.pc = "raised"]
<1>1. call[c] \in OpenCall /\ Knowing(call[c], disk, scan, missed) /\ call[c].pc = "scan"
  BY OpenKnows DEF Fail, CallAt
<1>2. r \in OpenCall
  BY <1>1 DEF OpenCall
<1>3. /\ r.pc = "raised" /\ r.seen = call[c].seen
      /\ r.names = call[c].names /\ r.excused = call[c].excused
      /\ r.op = call[c].op /\ r.reader = call[c].reader
  BY <1>1 DEF OpenCall
<1>4. call' = [call EXCEPT ![c] = r]
  BY OpenKnows DEF Fail, CallAt, GoTo
<1> HIDE DEF r
<1>5. CannotBeScanned(r.seen)
  BY <1>1, <1>3 DEF Fail, ScanRaises, Knowing, CannotBeScanned
<1>6. Knowing(r, disk, scan, missed)
  BY <1>1, <1>3, <1>5 DEF Knowing
<1>7. /\ call' \in [Calls -> OpenCall \cup {NoCall}]
      /\ call'[c] = r
      /\ \A b \in Calls : b # c => call'[b] = call[b]
      /\ \A b \in Calls : Knowing(call'[b], disk', scan', missed')
  BY <1>2, <1>4, <1>6, OneCall DEF Fail
<1>8. RegistryTypeOK'
  BY <1>7 DEF RegistryInv, RegistryTypeOK, Fail
<1>9. \A b \in Calls : call'[b].pc \notin {"scan", "fingerprint"}
  BY <1>1, <1>3, <1>7 DEF RegistryInv, LockHeld
<1>10. LockHeld' /\ ScanMatches'
  BY <1>1, <1>3, <1>7, <1>9 DEF RegistryInv, LockHeld, ScanMatches, CallAt, Fail
<1> QED
  BY <1>7, <1>8, <1>10 DEF RegistryInv

\* The fingerprint is of the directory that was scanned, or a change was missed.
LEMMA TakeFingerprintKeeps ==
  ASSUME RegistryInv, NEW c \in Calls, TakeFingerprint(c)
  PROVE  RegistryInv'
<1>1. call[c].pc = "fingerprint" /\ CallAt(c, "fingerprint") /\ ~ CallAt(c, "idle")
  BY DEF TakeFingerprint, CallAt
<1>2. missed \/ Fresh(scan, call[c].seen)
  BY <1>1, ScanIsFresh
<1>3. PICK r \in OpenCall : /\ call' = [call EXCEPT ![c] = r]
                            /\ r.pc = "got"
                            /\ Knowing(r, disk, scan, missed)
  BY <1>1, <1>2, GotTheScan DEF TakeFingerprint
<1>4. /\ call' \in [Calls -> OpenCall \cup {NoCall}]
      /\ call'[c] = r
      /\ \A b \in Calls : b # c => call'[b] = call[b]
      /\ \A b \in Calls : Knowing(call'[b], disk', scan', missed')
  BY <1>3, OneCall DEF TakeFingerprint
<1>5. RegistryTypeOK'
  BY <1>4 DEF RegistryInv, RegistryTypeOK, TakeFingerprint, Fingerprint
<1>6. \A b \in Calls : b # c => call[b].pc \notin {"scan", "fingerprint"}
  BY <1>1 DEF RegistryInv, LockHeld
<1>7. LockHeld'
  BY <1>3, <1>4, <1>6 DEF LockHeld
<1>8. ScanMatches'
  <2>1. ~ missed => scan = scan_skills(disk)
    BY <1>1 DEF RegistryInv, ScanMatches
  <2> QED
    BY <1>3, <1>4, <1>6, <2>1 DEF ScanMatches, CallAt, TakeFingerprint, Fingerprint
<1> QED
  BY <1>4, <1>5, <1>7, <1>8 DEF RegistryInv

-----------------------------------------------------------------------------
(* Uses *)

LEMMA ReaderMay ==
  ASSUME NEW s \in Skills, NEW caller \in Callers, NEW seen, NEW v \in seen[s] \cap Loadable,
         allows(v, caller)
  PROVE  MayRead([skill |-> s, caller |-> caller], seen)
<1> DEFINE reader == [skill |-> s, caller |-> caller]
<1>1. reader \in [skill : Skills, caller : Callers] /\ reader.skill = s /\ reader.caller = caller
  OBVIOUS
<1> HIDE DEF reader
<1>2. v \in seen[reader.skill] \cap Loadable /\ allows(v, reader.caller)
  BY <1>1
<1>3. MayRead(reader, seen)
  BY <1>1, <1>2, Zenon DEF MayRead
<1> QED
  BY <1>3 DEF reader

LEMMA OpenFileKeeps ==
  ASSUME RegistryInv, NEW c \in Calls, NEW s \in Skills, NEW caller \in Callers,
         OpenFile(c, s, caller)
  PROVE  RegistryInv'
<1> DEFINE reader == [skill |-> s, caller |-> caller]
           r == [call[c] EXCEPT !.pc = "read", !.got = << >>, !.reader = reader]
<1>1. call[c] \in OpenCall /\ Knowing(call[c], disk, scan, missed) /\ call[c].pc = "got"
      /\ call[c].op = "look"
  BY OpenKnows DEF OpenFile, CallAt
<1>2. r \in OpenCall
  BY <1>1, NothingScanned DEF OpenCall
<1>3. /\ r.pc = "read" /\ r.reader = reader /\ r.seen = call[c].seen /\ r.op = "look"
      /\ r.names = call[c].names /\ r.excused = call[c].excused
  BY <1>1 DEF OpenCall
<1>4. call' = [call EXCEPT ![c] = r]
  BY OpenKnows DEF OpenFile, CallAt
<1>5. /\ reader \in [skill : Skills, caller : Callers]
      /\ reader.skill = s /\ reader.caller = caller
  OBVIOUS
<1> HIDE DEF r, reader
<1>6. call[c].got[s] \in Loadable /\ allows(call[c].got[s], caller) /\ s \in DOMAIN call[c].got
  BY <1>1, ScanSays DEF OpenFile, Authorized, OpenCall
<1>7. r.excused \/ MayRead(r.reader, r.seen)
  <2>1. r.excused \/ call[c].got[s] \in r.seen[s]
    BY <1>1, <1>3, <1>6 DEF Knowing, Fresh
  <2>2. call[c].got[s] \in r.seen[s] => MayRead(reader, r.seen)
    BY <1>6, ReaderMay DEF reader
  <2> QED
    BY <1>3, <2>1, <2>2
<1>8. Knowing(r, disk, scan, missed)
  BY <1>1, <1>3, <1>7 DEF Knowing
<1> QED
  BY <1>1, <1>2, <1>3, <1>4, <1>8, QuietCall DEF OpenFile

LEMMA LookUpAgainKeeps ==
  ASSUME RegistryInv, NEW c \in Calls, NEW s \in Skills, NEW caller \in Callers,
         LookUpAgain(c, s, caller)
  PROVE  RegistryInv'
<1> DEFINE reader == [skill |-> s, caller |-> caller]
           r == [call[c] EXCEPT !.pc = "stat", !.op = "again", !.got = << >>, !.reader = reader]
<1>1. call[c] \in OpenCall /\ Knowing(call[c], disk, scan, missed) /\ call[c].pc = "got"
  BY OpenKnows DEF LookUpAgain, CallAt
<1>2. r \in OpenCall
  BY <1>1, NothingScanned DEF OpenCall
<1>3. /\ r.pc = "stat" /\ r.reader = reader /\ r.seen = call[c].seen
      /\ r.names = call[c].names /\ r.excused = call[c].excused
  BY <1>1 DEF OpenCall
<1>4. call' = [call EXCEPT ![c] = r]
  BY OpenKnows DEF LookUpAgain, CallAt
<1>5. LooksAgain(reader)
  BY DEF LooksAgain, LookUpAgain
<1> HIDE DEF r, reader
<1>6. Knowing(r, disk, scan, missed)
  BY <1>1, <1>3, <1>5 DEF Knowing
<1> QED
  BY <1>1, <1>2, <1>3, <1>4, <1>6, QuietCall DEF LookUpAgain

\* An administrator reads what the second look has found.
LEMMA OpenAgainKeeps ==
  ASSUME RegistryInv, NEW c \in Calls, OpenAgain(c)
  PROVE  RegistryInv'
<1> DEFINE r == [call[c] EXCEPT !.pc = "read", !.got = << >>]
<1>1. call[c] \in OpenCall /\ Knowing(call[c], disk, scan, missed) /\ call[c].pc = "got"
      /\ call[c].op = "again" /\ call[c].reader.skill \in DOMAIN call[c].got
  BY OpenKnows DEF OpenAgain, CallAt
<1>2. r \in OpenCall
  BY <1>1, NothingScanned DEF OpenCall
<1>3. /\ r.pc = "read" /\ r.reader = call[c].reader /\ r.op = "again"
      /\ r.seen = call[c].seen /\ r.names = call[c].names /\ r.excused = call[c].excused
  BY <1>1 DEF OpenCall
<1>4. call' = [call EXCEPT ![c] = r]
  BY OpenKnows DEF OpenAgain, CallAt
<1> HIDE DEF r
<1>5. LooksAgain(call[c].reader)
  BY <1>1 DEF Knowing
<1>6. call[c].got[call[c].reader.skill] \in Loadable
  BY <1>1, ScanSays DEF OpenCall
<1>7. r.excused \/ MayRead(r.reader, r.seen)
  BY <1>1, <1>3, <1>5, <1>6 DEF Knowing, Fresh, MayRead, LooksAgain
<1>8. Knowing(r, disk, scan, missed)
  BY <1>1, <1>3, <1>5, <1>7 DEF Knowing
<1> QED
  BY <1>1, <1>2, <1>3, <1>4, <1>8, QuietCall DEF OpenAgain

\* The names that are listed loaded at some time during the call.
LEMMA AllNamesKeeps ==
  ASSUME RegistryInv, NEW c \in Calls, AllNames(c)
  PROVE  RegistryInv'
<1> DEFINE r == [call[c] EXCEPT !.names = DOMAIN call[c].got, !.got = << >>,
                   !.pc = IF DOMAIN call[c].got = {} THEN "listed" ELSE "stat"]
<1>1. call[c] \in OpenCall /\ Knowing(call[c], disk, scan, missed) /\ call[c].pc = "got"
  BY OpenKnows DEF AllNames, CallAt
<1>2. /\ DOMAIN call[c].got \subseteq Skills
      /\ \A s \in DOMAIN call[c].got : call[c].got[s] \in Loadable
  BY <1>1, ScanSays DEF OpenCall
<1>3. r \in OpenCall
  BY <1>1, <1>2, NothingScanned DEF OpenCall
<1>4. /\ r.pc \in {"listed", "stat"} /\ r.names = DOMAIN call[c].got
      /\ r.seen = call[c].seen /\ r.excused = call[c].excused
      /\ r.op = call[c].op /\ r.reader = call[c].reader
  BY <1>1 DEF OpenCall
<1>5. call' = [call EXCEPT ![c] = r]
  BY OpenKnows DEF AllNames, CallAt
<1> HIDE DEF r
<1>6. r.excused \/ \A s \in r.names : r.seen[s] \cap Loadable # {}
  BY <1>1, <1>2, <1>4 DEF Knowing, Fresh
<1>7. Knowing(r, disk, scan, missed)
  BY <1>1, <1>4, <1>6 DEF Knowing
<1> QED
  BY <1>1, <1>3, <1>4, <1>5, <1>7, QuietCall DEF AllNames

\* A name that is not there any more had been there.
LEMMA AllSkillKeeps ==
  ASSUME RegistryInv, NEW c \in Calls, AllSkill(c)
  PROVE  RegistryInv'
<1>1. PICK s \in call[c].names : call' = [call EXCEPT
         ![c].names = @ \ {s}, ![c].got = << >>,
         ![c].pc = IF s \notin DOMAIN call[c].got THEN "KeyError"
                   ELSE IF call[c].names = {s} THEN "listed" ELSE "stat"]
  BY DEF AllSkill
<1> DEFINE r == [call[c] EXCEPT !.names = @ \ {s}, !.got = << >>,
                   !.pc = IF s \notin DOMAIN call[c].got THEN "KeyError"
                          ELSE IF call[c].names = {s} THEN "listed" ELSE "stat"]
<1>2. call[c] \in OpenCall /\ Knowing(call[c], disk, scan, missed) /\ call[c].pc = "got"
  BY OpenKnows DEF AllSkill, CallAt
<1>3. call[c].names # None /\ call[c].names \in SUBSET Skills /\ s \in Skills
  BY <1>2 DEF AllSkill, OpenCall
<1>4. r \in OpenCall
  BY <1>2, <1>3, NothingScanned DEF OpenCall
<1>5. /\ r.pc \in {"KeyError", "listed", "stat"}
      /\ r.pc = "KeyError" => s \notin DOMAIN call[c].got
      /\ r.names = call[c].names \ {s}
      /\ r.seen = call[c].seen /\ r.excused = call[c].excused
      /\ r.op = call[c].op /\ r.reader = call[c].reader
  BY <1>2 DEF OpenCall
<1>6. call' = [call EXCEPT ![c] = r]
  BY <1>1, <1>2, OpenKnows DEF CallAt
<1> HIDE DEF r
<1>7. r.excused \/ \A t \in call[c].names : r.seen[t] \cap Loadable # {}
  BY <1>2, <1>3, <1>5 DEF Knowing
<1>8. r.pc = "KeyError" => r.excused \/ CameAndWent(r.seen)
  BY <1>2, <1>3, <1>5, <1>7 DEF Knowing, Fresh, CameAndWent
<1>9. Knowing(r, disk, scan, missed)
  BY <1>2, <1>5, <1>7, <1>8 DEF Knowing
<1> QED
  BY <1>2, <1>4, <1>5, <1>6, <1>9, QuietCall DEF AllSkill

-----------------------------------------------------------------------------
(* The directory *)

\* An open call r that sees a change still knows what it knew.
LEMMA SeesChange ==
  ASSUME RegistryInv, NEW s \in Skills, NEW v \in Versions, NEW c \in Calls,
         ~ CallAt(c, "idle"), NEW m \in BOOLEAN, missed => m,
         NEW r, r = [call[c] EXCEPT !.seen[s] = @ \cup {v}]
  PROVE  /\ r \in OpenCall /\ r.pc = call[c].pc
         /\ Knowing(r, [disk EXCEPT ![s] = v], scan, m)
<1> DEFINE d == [disk EXCEPT ![s] = v]
<1>1. call[c] \in OpenCall /\ Knowing(call[c], disk, scan, missed) /\ call[c].pc # "idle"
  BY OpenKnows DEF CallAt
<1>2. r \in OpenCall
  BY <1>1 DEF OpenCall
<1>3. /\ r.pc = call[c].pc /\ r.current = call[c].current /\ r.got = call[c].got
      /\ r.names = call[c].names /\ r.excused = call[c].excused
      /\ r.reader = call[c].reader /\ r.op = call[c].op
      /\ r.seen = [call[c].seen EXCEPT ![s] = @ \cup {v}]
  BY <1>1 DEF OpenCall
<1>4. call[c].seen \in [Skills -> SUBSET Versions] /\ call[c].names \in (SUBSET Skills) \cup {None}
  BY <1>1 DEF OpenCall
<1>5. /\ \A t \in Skills : call[c].seen[t] \subseteq r.seen[t]
      /\ v \in r.seen[s] /\ r.seen[s] = call[c].seen[s] \cup {v}
  BY <1>3, <1>4
<1>6. \A t \in Skills : d[t] = IF t = s THEN v ELSE disk[t]
  BY DEF RegistryInv, RegistryTypeOK, Disks
<1> HIDE DEF d
<1>7. \A t \in Skills : d[t] \in r.seen[t]
  BY <1>1, <1>5, <1>6 DEF Knowing
<1>8. r.pc = "compare" => \A t \in Skills : r.current[t] \in r.seen[t]
  BY <1>1, <1>3, <1>5 DEF Knowing
<1>9. r.pc = "take" => m \/ Fresh(scan, r.seen)
  BY <1>1, <1>3, <1>5, FreshStays DEF Knowing
<1>10. r.pc = "got" => r.excused \/ Fresh(r.got, r.seen)
  BY <1>1, <1>3, <1>5, FreshStays DEF Knowing
<1>11. r.pc = "read" => r.excused \/ MayRead(r.reader, r.seen)
  BY <1>1, <1>3, <1>5 DEF Knowing, MayRead
<1>12. r.names # None => r.excused \/ \A t \in r.names : r.seen[t] \cap Loadable # {}
  BY <1>1, <1>3, <1>4, <1>5 DEF Knowing
<1>13. r.pc = "KeyError" => r.excused \/ CameAndWent(r.seen)
  BY <1>1, <1>3, <1>5 DEF Knowing, CameAndWent
<1>14. r.pc = "raised" => CannotBeScanned(r.seen)
  BY <1>1, <1>3, <1>5 DEF Knowing, CannotBeScanned
<1>15. r.op = "again" => LooksAgain(r.reader)
  BY <1>1, <1>3 DEF Knowing
<1>16. Knowing(r, d, scan, m)
  BY <1>7, <1>8, <1>9, <1>10, <1>11, <1>12, <1>13, <1>14, <1>15 DEF Knowing
<1> QED
  BY <1>2, <1>3, <1>5, <1>16 DEF d

\* Every open call sees the change; a rescan whose fingerprint is to come misses it.
LEMMA ChangeKeeps ==
  ASSUME RegistryInv, NEW s \in Skills, NEW v \in Versions, Change(s, v)
  PROVE  RegistryInv'
<1> DEFINE r(c) == [call[c] EXCEPT !.seen[s] = @ \cup {v}]
<1>1. /\ disk \in Disks /\ disk' = [disk EXCEPT ![s] = v]
      /\ UNCHANGED <<scan, fingerprint, lock>>
      /\ missed' = (missed \/ \E c \in Calls : CallAt(c, "fingerprint"))
      /\ missed \in BOOLEAN
  BY DEF Change, RegistryInv, RegistryTypeOK
<1>2. disk' \in Disks /\ missed' \in BOOLEAN /\ (missed => missed')
  BY <1>1 DEF Disks
<1>3. call' = SeenNow(s, v)
  BY DEF Change
<1>4. ASSUME NEW c \in Calls, CallAt(c, "idle")
      PROVE  /\ call'[c] = NoCall /\ call'[c].pc = call[c].pc
             /\ Knowing(call'[c], disk', scan', missed')
  BY <1>3, <1>4 DEF SeenNow, NoCall, CallAt, Knowing
<1>5. ASSUME NEW c \in Calls, ~ CallAt(c, "idle")
      PROVE  /\ call'[c] \in OpenCall /\ call'[c].pc = call[c].pc
             /\ Knowing(call'[c], disk', scan', missed')
  <2>1. call'[c] = r(c)
    BY <1>3, <1>5 DEF SeenNow
  <2>2. /\ r(c) \in OpenCall /\ r(c).pc = call[c].pc
        /\ Knowing(r(c), [disk EXCEPT ![s] = v], scan, missed')
    BY <1>2, <1>5, SeesChange
  <2> HIDE DEF r
  <2> QED
    BY <1>1, <2>1, <2>2
<1>6. call' \in [Calls -> OpenCall \cup {NoCall}]
  <2>1. \A c \in Calls : call'[c] \in OpenCall \cup {NoCall}
    BY <1>4, <1>5
  <2>2. call' = [c \in Calls |-> call'[c]]
    BY <1>3 DEF SeenNow
  <2> QED
    BY <2>1, <2>2
<1>7. \A c \in Calls : call'[c].pc = call[c].pc
  BY <1>4, <1>5
<1>8. RegistryTypeOK'
  BY <1>1, <1>2, <1>6 DEF RegistryInv, RegistryTypeOK
<1>9. LockHeld'
  BY <1>1, <1>7 DEF RegistryInv, LockHeld
<1>10. ScanMatches'
  BY <1>1, <1>7 DEF RegistryInv, ScanMatches, CallAt
<1> QED
  BY <1>4, <1>5, <1>8, <1>9, <1>10 DEF RegistryInv

\* A file that goes under the scan ends it; nobody else was scanning.
LEMMA VanishKeeps ==
  ASSUME RegistryInv, NEW c \in Calls, NEW s \in Skills, Vanish(c, s)
  PROVE  RegistryInv'
<1>0. PICK v \in Versions : v = "absent"
  BY DEF Vanish
<1> DEFINE r(b) == [call[b] EXCEPT !.seen[s] = @ \cup {v}]
           q == [r(c) EXCEPT !.pc = "raised"]
<1>1. /\ disk \in Disks /\ disk' = [disk EXCEPT ![s] = v]
      /\ UNCHANGED <<scan, fingerprint, missed>>
      /\ missed \in BOOLEAN /\ call \in [Calls -> OpenCall \cup {NoCall}]
      /\ ~ CallAt(c, "idle") /\ call[c].pc = "scan"
  BY <1>0 DEF Vanish, CallAt, RegistryInv, RegistryTypeOK
<1>2. /\ disk' \in Disks /\ missed' \in BOOLEAN /\ (missed => missed')
      /\ ~ CallAt(c, "idle") /\ call[c].pc = "scan"
  BY <1>1 DEF Disks
<1>3. call' = [SeenNow(s, v) EXCEPT ![c].pc = "raised"]
  BY <1>0 DEF Vanish
<1>4. ASSUME NEW b \in Calls, CallAt(b, "idle")
      PROVE  /\ call'[b] = NoCall /\ call'[b].pc = call[b].pc
             /\ Knowing(call'[b], disk', scan', missed')
  BY <1>1, <1>3, <1>4 DEF SeenNow, NoCall, CallAt, Knowing
<1>5. ASSUME NEW b \in Calls, ~ CallAt(b, "idle"), b # c
      PROVE  /\ call'[b] \in OpenCall /\ call'[b].pc = call[b].pc
             /\ Knowing(call'[b], disk', scan', missed')
  <2>1. call'[b] = r(b)
    BY <1>3, <1>5 DEF SeenNow
  <2>2. /\ r(b) \in OpenCall /\ r(b).pc = call[b].pc
        /\ Knowing(r(b), [disk EXCEPT ![s] = v], scan, missed')
    BY <1>2, <1>5, SeesChange
  <2> HIDE DEF r
  <2> QED
    BY <1>1, <2>1, <2>2
<1>6. call'[c] \in OpenCall /\ call'[c].pc = "raised" /\ Knowing(call'[c], disk', scan', missed')
  <2>1. SeenNow(s, v)[c] = r(c)
    BY <1>1 DEF SeenNow
  <2>2. call'[c] = q
    BY <1>3, <2>1 DEF SeenNow
  <2>3. /\ r(c) \in OpenCall /\ r(c).pc = call[c].pc
        /\ Knowing(r(c), [disk EXCEPT ![s] = v], scan, missed')
    BY <1>2, SeesChange
  <2>4. /\ disk[s] # "absent" /\ disk[s] \in call[c].seen[s]
        /\ r(c).seen[s] = call[c].seen[s] \cup {v}
    BY <1>2, OpenKnows DEF Vanish, Knowing, CallAt, OpenCall
  <2> HIDE DEF r
  <2>5. CannotBeScanned(r(c).seen)
    BY <1>0, <2>3, <2>4 DEF CannotBeScanned
  <2>6. /\ q \in OpenCall /\ q.pc = "raised" /\ q.seen = r(c).seen /\ q.names = r(c).names
        /\ q.excused = r(c).excused /\ q.op = r(c).op /\ q.reader = r(c).reader
    BY <2>3 DEF OpenCall
  <2> HIDE DEF q
  <2>7. Knowing(q, disk', scan', missed')
    BY <1>1, <2>3, <2>5, <2>6 DEF Knowing
  <2> QED
    BY <2>2, <2>6, <2>7
<1>7. call' \in [Calls -> OpenCall \cup {NoCall}]
  <2>1. \A b \in Calls : call'[b] \in OpenCall \cup {NoCall}
    BY <1>4, <1>5, <1>6
  <2>2. call' = [b \in Calls |-> call'[b]]
    BY <1>3 DEF SeenNow
  <2> QED
    BY <2>1, <2>2
<1>8. \A b \in Calls : call'[b].pc = IF b = c THEN "raised" ELSE call[b].pc
  BY <1>4, <1>5, <1>6
<1>9. \A b \in Calls : /\ call'[b].pc \notin {"scan", "fingerprint"}
                       /\ call[b].pc # "fingerprint"
  BY <1>1, <1>8 DEF RegistryInv, LockHeld
<1>10. RegistryTypeOK'
  BY <1>1, <1>2, <1>7 DEF RegistryInv, RegistryTypeOK
<1>11. LockHeld' /\ ScanMatches'
  BY <1>1, <1>9 DEF RegistryInv, LockHeld, ScanMatches, CallAt
<1> QED
  BY <1>4, <1>5, <1>6, <1>10, <1>11 DEF RegistryInv

-----------------------------------------------------------------------------
(* What the run checks on a small instance *)

LEMMA RegistryInductive == RegistrySpec => []RegistryInv
<1>1. RegistryInit => RegistryInv
  <2>1. NoCall.pc = "idle"
    BY DEF NoCall
  <2> QED
    BY <2>1, ScanOfDisk
    DEF RegistryInit, RegistryInv, RegistryTypeOK, Disks, LockHeld, ScanMatches, Knowing,
        CallAt, Fingerprint
<1>2. RegistryInv /\ [RegistryNext]_registryVars => RegistryInv'
  <2>1. ASSUME RegistryInv, UNCHANGED registryVars PROVE RegistryInv'
    BY <2>1
    DEF registryVars, RegistryInv, RegistryTypeOK, LockHeld, ScanMatches, Knowing, CallAt
  <2>2. ASSUME RegistryInv, NEW c \in Calls, Refresh(c) PROVE RegistryInv'
    BY <2>2, StatKeeps, CompareKeeps, TakeKeeps, AcquireKeeps, ScanKeeps, TakeFingerprintKeeps,
       FailKeeps, VanishKeeps
    DEF Refresh
  <2>3. ASSUME RegistryInv, NEW c \in Calls, Use(c) PROVE RegistryInv'
    <3>1. CASE Answer(c) \/ ReadFile(c) \/ Leave(c)
      BY <2>3, <3>1, Ends DEF Answer, ReadFile, Leave, CallAt
    <3>2. CASE ~ (Answer(c) \/ ReadFile(c) \/ Leave(c))
      BY <2>3, <3>2, OpenFileKeeps, LookUpAgainKeeps, OpenAgainKeeps, AllNamesKeeps,
         AllSkillKeeps
      DEF Use
    <3> QED
      BY <3>1, <3>2
  <2> QED
    BY <2>1, <2>2, <2>3, StartKeeps, ChangeKeeps DEF RegistryNext
<1> QED
  BY <1>1, <1>2, PTL DEF RegistrySpec

\* What a look at the registry returns was on disk at some time during the call,
\* whichever thread scanned it, unless a change fell between the scan and the
\* fingerprint of the last reload (_ensure_fresh).
THEOREM ReadsAreFresh == RegistrySpec => []FreshReads
<1>1. RegistryInv => FreshReads
  BY DEF RegistryInv, FreshReads, Knowing, Fresh, CallAt
<1> QED
  BY <1>1, RegistryInductive, PTL

\* A file of a skill is read only for a caller who might see the skill at some
\* time during the call, or for an administrator while there was such a skill,
\* unless a change was missed (authorize, _authorized, read_file).
THEOREM FilesAreAllowed == RegistrySpec => []FilesWereAllowed
<1>1. RegistryInv => FilesWereAllowed
  <2> SUFFICES ASSUME RegistryInv, NEW c \in Calls, CallAt(c, "read"), ~ call[c].excused,
                      NEW reader, reader = call[c].reader
               PROVE  \E v \in call[c].seen[reader.skill] \cap Loadable :
                        \/ v = "public"
                        \/ /\ reader.caller.authenticated
                           /\ v = "permission" =>
                                {RequiredPermission, ADMIN_PERM, "*"}
                                  \cap reader.caller.permissions # {}
    BY DEF FilesWereAllowed
  <2>1. PICK v \in call[c].seen[reader.skill] \cap Loadable :
          \/ allows(v, reader.caller)
          \/ reader.caller.authenticated /\ IsAdmin(reader.caller)
    BY DEF RegistryInv, Knowing, MayRead, CallAt
  <2> QED
    BY <2>1 DEF allows, IsAdmin, Loadable
<1> QED
  BY <1>1, RegistryInductive, PTL

\* Listing all skills misses a name only when a skill went away while it ran or
\* a change was missed, and no scan raises but on a file it cannot cope with or
\* that went while the call ran (all, scan_skills).
THEOREM FailuresAlwaysHaveCause == RegistrySpec => []FailuresHaveCause
<1>1. RegistryInv => FailuresHaveCause
  BY DEF RegistryInv, FailuresHaveCause, Knowing, CameAndWent, WentAway, CannotBeScanned, CallAt
<1> QED
  BY <1>1, RegistryInductive, PTL

=============================================================================
