------------------------- MODULE AuthSessionsProofs -------------------------
(***************************************************************************)
(* What the sessions of an account keep, for any number of calls, session  *)
(* ids and token pairs: a refresh token buys once, what is over stays      *)
(* over, and, but for the sessions a DEL of the index dropped unseen, the  *)
(* index names what is usable and the logins that found single_device      *)
(* leave one usable session.                                               *)
(***************************************************************************)
EXTENDS AuthSessions, FiniteSetTheorems, TLAPS

Steps == {"idle", "commit", "hset", "sadd", "members", "issue", "revoke", "srem",
          "all members", "all del", "all idx", "rotate", "session", "blacklist",
          "verify", "store", "policy", "list members", "list", "list srem", "served"}

CallRecord ==
  [op : Operation \cup {None}, pc : Steps, sid : Sids \cup {None}, jti : 0..MaxJti,
   from : 0..MaxJti, todo : SUBSET Sids, taken : Sids \cup {None}, pw : Nat,
   rehash : BOOLEAN, policy : Policy \cup {None}, late : BOOLEAN]

\* The steps of a login that has written its session.
Opening == {"sadd", "members", "revoke", "srem", "issue"}

TypesHold ==
  /\ hash \in [Sids -> (1..MaxJti) \cup {None}]
  /\ minted \in [Sids -> 0..MaxJti]
  /\ index \subseteq Sids
  /\ issued \subseteq TokenPair
  /\ account \in [password : Nat, outdated : BOOLEAN, policy : Policy]
  /\ call \in [Calls -> CallRecord]

\* What a call that is under way knows: the session it is made in exists or has
\* existed, and so have those it is to look at; the one it takes off the index
\* is over; the pair it will hand out is the one after the pair it was paid with.
Sound(k) ==
  /\ k.pc \notin {"idle", "commit", "hset"} => k.sid \in Sids /\ minted[k.sid] > 0
  /\ \A s \in k.todo : minted[s] > 0
  /\ k.pc \in {"srem", "list srem"} => k.taken \in Sids /\ Over(k.taken)
  /\ k.pc \in {"commit", "hset", "sadd"} => k.op = "login" /\ k.from = 0
  /\ k.pc = "policy" => k.op = "policy"
  /\ k.pc = "members" => k.op \in {"login", "policy"}
  /\ k.pc \in Opening /\ k.op = "login" => k.jti = 1 /\ k.from = 0
  /\ k.pc = "issue" => k.jti = k.from + 1
  /\ k.pc = "session" => k.op \in Authenticated
  /\ k.pc = "blacklist" => k.op \in {"logout", "logout_all"}
  /\ k.late => k.pc = "session" /\ Over(k.sid)
  /\ k.pc \in {"rotate", "issue"} => k.op \in {"refresh", "login"}
  /\ k.pc = "rotate" => k.op = "refresh"
  /\ k.op = "refresh" /\ k.pc \in {"revoke", "srem"} =>
       k.todo = {k.sid} \/ hash[k.sid] = None

\* The inductive invariant: a stored session stores the newest pair of its id,
\* a pair is the one after the pair that paid for it, and every call is sound.
SessionInv ==
  /\ TypesHold
  /\ \A s \in Sids : hash[s] # None => hash[s] = minted[s]
  /\ \A s \in index : minted[s] > 0
  /\ \A t \in issued : minted[t.sid] > 0 /\ t.jti = t.from + 1
  /\ \A c \in Calls : Sound(call[c])

-----------------------------------------------------------------------------
(* The index *)

Opened(s) == \E t \in issued : t.sid = s

LoggingIn(c, s, pcs) ==
  call[c].op = "login" /\ call[c].pc \in pcs /\ call[c].sid = s

\* The steps of a login that has put its session on the index.
Indexing == {"members", "revoke", "srem", "issue"}

\* A refresh renews what was handed out, and a call about to delete the index has
\* ended all it had listed.
Careful(k) ==
  /\ k.op = "refresh" /\ k.pc \in {"rotate", "issue"} => Opened(k.sid)
  /\ k.pc = "all idx" => \A s \in k.todo : hash[s] = None

Indexed(s) ==
  Opened(s) \/ (\E c \in Calls : LoggingIn(c, s, Indexing)) => s \in index \cup unlisted

IndexInv ==
  /\ \A c \in Calls : Careful(call[c])
  /\ \A s \in Sids : hash[s] # None => Indexed(s)

-----------------------------------------------------------------------------
(* The device *)

\* A session is settled once its login has read whom to kick.
Settling == {"revoke", "srem", "issue"}
Kicking  == {"revoke", "srem"}

Settled(s) == Opened(s) \/ \E c \in Calls : LoggingIn(c, s, Settling)

\* The login of s is going to revoke u.
Kicks(s, u) == \E c \in Calls : LoggingIn(c, s, Kicking) /\ u \in call[c].todo

\* It is alive and settled, and its login was to leave it the only one.
Contends(s) == hash[s] # None /\ Settled(s) /\ s \in exclusive \ unlisted

Rivals(s, u) == s # u /\ Contends(s) /\ Contends(u)

\* The session it has just written is exclusive only if it is to kick.
Single(k) == k.pc = "sadd" /\ k.sid \in exclusive => k.policy = "single_device"

\* Of two settled sessions one is about to be revoked by the login of the other,
\* which has not handed out its tokens yet.
DeviceInv ==
  /\ \A c \in Calls : Single(call[c])
  /\ \A c \in Calls, s \in Sids : LoggingIn(c, s, Opening) => ~ Opened(s)
  /\ \A c, d \in Calls, s \in Sids :
       LoggingIn(c, s, Opening) /\ LoggingIn(d, s, Opening) => c = d
  /\ \A s, u \in Sids : Rivals(s, u) => Kicks(s, u) \/ Kicks(u, s)

-----------------------------------------------------------------------------
(* The inductive invariant is inductive *)

LEMMA Numbers == MaxJti \in Nat /\ MaxJti > 0 /\ None \notin Nat /\ None \notin Sids
BY SessionAssumption DEF SessionAssumption

LEMMA SessionInit == Init => SessionInv
<1> SUFFICES ASSUME Init PROVE SessionInv
  OBVIOUS
<1>1. IdleCall \in CallRecord
  BY Numbers DEF IdleCall, CallRecord, Steps
<1>2. TypesHold
  BY <1>1, SessionAssumption DEF Init, TypesHold, SessionAssumption
<1>3. Sound(IdleCall)
  BY Numbers DEF Sound, IdleCall, Opening
<1> QED
  BY <1>2, <1>3 DEF SessionInv, Init

\* What one call does leaves the others where they are.
LEMMA OthersStay ==
  ASSUME TypesHold, NEW c \in Calls, NEW next \in CallRecord,
         call' = [call EXCEPT ![c] = next]
  PROVE  /\ call' \in [Calls -> CallRecord] /\ call'[c] = next
         /\ \A d \in Calls \ {c} : call'[d] = call[d]
BY DEF TypesHold

\* A call stays sound while the sessions of others come and go.
LEMMA SoundStays ==
  ASSUME TypesHold, TypesHold',
         \A s \in Sids : minted[s] > 0 => minted'[s] > 0,
         \A s \in Sids : Over(s) => Over(s)',
         NEW d \in Calls, Sound(call[d]), call'[d] = call[d]
  PROVE  Sound(call[d])'
<1>1. call[d] \in CallRecord
  BY DEF TypesHold
<1>2. call[d].todo \subseteq Sids
  BY <1>1 DEF CallRecord
<1>3. call[d].late => call[d].sid \in Sids
  BY DEF Sound
<1> QED
  BY <1>2, <1>3 DEF Sound, Over, Opening

\* A step of one call that touches neither the sessions nor the pairs.
LEMMA QuietStep ==
  ASSUME SessionInv, NEW c \in Calls, NEW next \in CallRecord, Sound(next),
         call' = [call EXCEPT ![c] = next], UNCHANGED <<hash, minted, issued>>,
         index' \subseteq index \cup { s \in Sids : minted[s] > 0 },
         account' \in [password : Nat, outdated : BOOLEAN, policy : Policy]
  PROVE  SessionInv'
<1>1. TypesHold'
  BY OthersStay DEF SessionInv, TypesHold
<1>2. ASSUME NEW d \in Calls PROVE Sound(call[d])'
  <2>1. CASE d = c
    BY <2>1, OthersStay DEF SessionInv, Sound, Over
  <2>2. CASE d # c
    <3>1. call'[d] = call[d]
      BY <2>2, OthersStay DEF SessionInv
    <3> QED
      BY <3>1 DEF SessionInv, Sound, Over
  <2> QED
    BY <2>1, <2>2
<1>3. \A s \in index' : minted'[s] > 0
  BY DEF SessionInv
<1> QED
  BY <1>1, <1>2, <1>3 DEF SessionInv

LEMMA IdleIsSound == IdleCall \in CallRecord /\ (SessionInv => Sound(IdleCall))
<1>1. IdleCall \in CallRecord
  BY Numbers DEF IdleCall, CallRecord, Steps
<1>2. Sound(IdleCall)
  BY Numbers DEF Sound, IdleCall, Opening
<1> QED
  BY <1>1, <1>2

\* A call that returns.
LEMMA ReturnKeeps ==
  ASSUME SessionInv, NEW c \in Calls, Return(c), UNCHANGED <<hash, minted, issued>>,
         index' \subseteq index, account' = account
  PROVE  SessionInv'
BY QuietStep, IdleIsSound DEF Return, SessionInv, TypesHold

\* A call that only goes on to another step.
LEMMA GoToKeeps ==
  ASSUME SessionInv, NEW c \in Calls, NEW pc \in Steps, GoTo(c, pc),
         UNCHANGED <<hash, minted, issued>>,
         index' \subseteq index \cup { s \in Sids : minted[s] > 0 },
         account' \in [password : Nat, outdated : BOOLEAN, policy : Policy],
         Sound([call[c] EXCEPT !.pc = pc])
  PROVE  SessionInv'
<1>1. [call[c] EXCEPT !.pc = pc] \in CallRecord
  BY DEF SessionInv, TypesHold, CallRecord
<1>2. call' = [call EXCEPT ![c] = [call[c] EXCEPT !.pc = pc]]
  BY DEF GoTo
<1> QED
  BY <1>1, <1>2, QuietStep

\* The steps of a login but the two that touch sessions and pairs.
LEMMA OpenKeeps ==
  ASSUME SessionInv, NEW c \in Calls,
         LoginRead(c) \/ OauthRead(c) \/ LoginCommit(c) \/ CreateIndex(c)
  PROVE  SessionInv'
<1> USE Numbers
<1>0. /\ account \in [password : Nat, outdated : BOOLEAN, policy : Policy]
      /\ call[c] \in CallRecord /\ Sound(call[c])
  BY DEF SessionInv, TypesHold
<1>1. CASE LoginRead(c)
  <2> DEFINE next == [IdleCall EXCEPT !.op = "login", !.pc = "commit",
                                      !.pw = account.password,
                                      !.rehash = account.outdated,
                                      !.policy = account.policy]
  <2>1. next \in CallRecord
    BY <1>0, IdleIsSound DEF CallRecord, IdleCall, Steps, Operation
  <2>2. Sound(next)
    BY DEF Sound, IdleCall, Opening
  <2> QED
    BY <1>0, <1>1, <2>1, <2>2, QuietStep DEF LoginRead, store
<1>2. CASE OauthRead(c)
  <2> DEFINE next == [IdleCall EXCEPT !.op = "login", !.pc = "commit",
                                      !.policy = account.policy]
  <2>1. next \in CallRecord
    BY <1>0, IdleIsSound DEF CallRecord, IdleCall, Steps, Operation
  <2>2. Sound(next)
    BY DEF Sound, IdleCall, Opening
  <2> QED
    BY <1>0, <1>2, <2>1, <2>2, QuietStep DEF OauthRead, store
<1>3. CASE LoginCommit(c)
  <2>1. Sound([call[c] EXCEPT !.pc = "hset"])
    BY <1>0, <1>3 DEF Sound, CallRecord, LoginCommit, At, Opening
  <2>2. account' \in [password : Nat, outdated : BOOLEAN, policy : Policy]
    BY <1>0, <1>3 DEF LoginCommit, CallRecord
  <2> QED
    BY <1>3, <2>1, <2>2, GoToKeeps DEF LoginCommit, store, Steps
<1>4. CASE CreateIndex(c)
  <2> DEFINE pc == IF call[c].policy = "single_device" THEN "members" ELSE "issue"
  <2>1. call[c].sid \in Sids /\ minted[call[c].sid] > 0 /\ call[c].op = "login"
    BY <1>0, <1>4 DEF Sound, CreateIndex, At
  <2>2. Sound([call[c] EXCEPT !.pc = pc])
    BY <1>0, <1>4, <2>1 DEF Sound, CallRecord, CreateIndex, At, Opening
  <2> QED
    BY <1>0, <1>4, <2>1, <2>2, GoToKeeps DEF CreateIndex, Added, Steps
<1> QED
  BY <1>1, <1>2, <1>3, <1>4

\* A step of one call that touches sessions or pairs.
LEMMA SessionStep ==
  ASSUME SessionInv, NEW c \in Calls, NEW next \in CallRecord,
         call' = [call EXCEPT ![c] = next], Sound(call[c])',
         UNCHANGED <<index, account>>,
         hash' \in [Sids -> (1..MaxJti) \cup {None}],
         minted' \in [Sids -> 0..MaxJti], issued' \subseteq TokenPair,
         \A s \in Sids : minted[s] > 0 => minted'[s] > 0,
         \A s \in Sids : Over(s) => Over(s)',
         \A s \in Sids : hash'[s] # None => hash'[s] = minted'[s],
         \A t \in issued' : minted'[t.sid] > 0 /\ t.jti = t.from + 1
  PROVE  SessionInv'
<1>1. TypesHold'
  BY OthersStay DEF SessionInv, TypesHold
<1>2. ASSUME NEW d \in Calls, d # c PROVE Sound(call[d])'
  BY <1>1, <1>2, OthersStay, SoundStays DEF SessionInv
<1>3. \A s \in index' : minted'[s] > 0
  BY DEF SessionInv, TypesHold
<1> QED
  BY <1>1, <1>2, <1>3 DEF SessionInv

LEMMA CreateHashKeeps ==
  ASSUME SessionInv, NEW c \in Calls, NEW s \in Sids, CreateHash(c, s)
  PROVE  SessionInv'
<1> USE Numbers
<1> DEFINE next == [call[c] EXCEPT !.pc = "sadd", !.sid = s, !.jti = 1]
<1>1. call[c] \in CallRecord /\ Sound(call[c]) /\ call[c].pc = "hset"
  BY DEF SessionInv, TypesHold, CreateHash, At
<1>9. 1 \in 0..MaxJti /\ "sadd" \in Steps
  BY DEF Steps
<1>2. /\ next \in CallRecord /\ next.pc = "sadd" /\ next.sid = s /\ next.jti = 1
      /\ next.op = call[c].op /\ next.from = call[c].from /\ next.todo = call[c].todo
      /\ next.late = call[c].late
  BY <1>1, <1>9 DEF CallRecord
<1>3. call' = [call EXCEPT ![c] = next]
  BY <1>1 DEF CreateHash, SessionInv, TypesHold
<1> HIDE DEF next
<1>4. call'[c] = next
  BY <1>2, <1>3, OthersStay DEF SessionInv
<1>5. /\ hash' \in [Sids -> (1..MaxJti) \cup {None}] /\ minted' \in [Sids -> 0..MaxJti]
      /\ hash' = [hash EXCEPT ![s] = 1] /\ minted' = [minted EXCEPT ![s] = 1]
      /\ minted[s] = 0
  BY DEF CreateHash, FreshSid, SessionInv, TypesHold
<1>6. /\ \A u \in Sids : minted[u] > 0 => minted'[u] > 0
      /\ \A u \in Sids : Over(u) => Over(u)'
      /\ \A u \in Sids : hash'[u] # None => hash'[u] = minted'[u]
  BY <1>5 DEF SessionInv, TypesHold, Over
<1>7. \A t \in issued' : minted'[t.sid] > 0 /\ t.jti = t.from + 1
  BY <1>6 DEF CreateHash, SessionInv, TypesHold, TokenPair
<1>8. Sound(call[c])'
  <2>1. minted'[s] > 0
    BY <1>5 DEF SessionInv, TypesHold
  <2>2. call[c].from = 0
    BY <1>1 DEF Sound
  <2> QED
    BY <1>1, <1>2, <1>4, <1>6, <2>1, <2>2 DEF Sound, CallRecord, Opening
<1> QED
  BY <1>2, <1>3, <1>5, <1>6, <1>7, <1>8, SessionStep DEF CreateHash, SessionInv, TypesHold

LEMMA IssueKeeps ==
  ASSUME SessionInv, NEW c \in Calls, Issue(c)
  PROVE  SessionInv'
<1> USE Numbers
<1> DEFINE pair == [sid |-> call[c].sid, jti |-> call[c].jti, from |-> call[c].from]
<1>1. call[c] \in CallRecord /\ Sound(call[c]) /\ call[c].pc = "issue"
  BY DEF SessionInv, TypesHold, Issue, At
<1>2. pair \in TokenPair /\ minted[pair.sid] > 0 /\ pair.jti = pair.from + 1
  BY <1>1 DEF CallRecord, TokenPair, Sound
<1>3. UNCHANGED <<hash, minted, index, account>> /\ issued' = issued \cup {pair}
  BY DEF Issue, store
<1> HIDE DEF pair
<1>4. call' = [call EXCEPT ![c] = IdleCall] /\ IdleCall \in CallRecord /\ call'[c] = IdleCall
  BY IdleIsSound, OthersStay DEF Issue, Return, SessionInv
<1>5. Sound(call[c])'
  <2>1. Sound(IdleCall)'
    BY DEF IdleCall, Sound, Opening
  <2> QED
    BY <1>4, <2>1 DEF Sound
<1> QED
  BY <1>2, <1>3, <1>4, <1>5, SessionStep DEF SessionInv, TypesHold, Over

LEMMA RevokeHashKeeps ==
  ASSUME SessionInv, NEW c \in Calls, NEW s \in Sids, RevokeHash(c, s)
  PROVE  SessionInv'
<1> USE Numbers
<1> DEFINE next == [call[c] EXCEPT !.pc = "srem", !.todo = call[c].todo \ {s}, !.taken = s]
<1>1. /\ call[c] \in CallRecord /\ Sound(call[c]) /\ call[c].pc = "revoke"
      /\ s \in call[c].todo
  BY DEF SessionInv, TypesHold, RevokeHash, At
<1>2. /\ next \in CallRecord /\ next.pc = "srem" /\ next.sid = call[c].sid
      /\ next.jti = call[c].jti /\ next.op = call[c].op /\ next.from = call[c].from
      /\ next.todo = call[c].todo \ {s} /\ next.taken = s /\ next.late = call[c].late
  BY <1>1 DEF CallRecord, Steps
<1>3. call' = [call EXCEPT ![c] = next]
  BY <1>1 DEF RevokeHash, SessionInv, TypesHold
<1> HIDE DEF next
<1>4. call'[c] = next
  BY <1>2, <1>3, OthersStay DEF SessionInv
<1>5. /\ UNCHANGED <<minted, issued, index, account>>
      /\ hash' = [hash EXCEPT ![s] = None] /\ hash' \in [Sids -> (1..MaxJti) \cup {None}]
  BY DEF RevokeHash, Deleted, SessionInv, TypesHold
<1>6. /\ \A u \in Sids : Over(u) => Over(u)'
      /\ \A u \in Sids : hash'[u] # None => hash'[u] = minted'[u]
  BY <1>5 DEF SessionInv, TypesHold, Over
<1>7. Over(s)'
  BY <1>1, <1>5 DEF Sound, Over, SessionInv, TypesHold
<1>8. Sound(call[c])'
  <2>1. \A u \in next.todo : minted'[u] > 0
    BY <1>1, <1>2, <1>5 DEF Sound
  <2>2. next.op = "refresh" => hash'[next.sid] = None
    <3>1. ASSUME next.op = "refresh" PROVE call[c].todo = {call[c].sid} \/ Over(call[c].sid)
      BY <1>1, <1>2, <3>1 DEF Sound, Over
    <3>2. call[c].sid \in Sids
      BY <1>1 DEF Sound
    <3> QED
      BY <1>1, <1>2, <1>6, <1>7, <3>1, <3>2 DEF Over
  <2> QED
    BY <1>1, <1>2, <1>4, <1>5, <1>7, <2>1, <2>2 DEF Sound, Opening
<1> QED
  BY <1>2, <1>3, <1>5, <1>6, <1>8, SessionStep DEF SessionInv, TypesHold

\* The other steps of a call that revokes.
LEMMA RevokeKeeps ==
  ASSUME SessionInv, NEW c \in Calls,
         KickMembers(c) \/ RevokeIndex(c) \/ RevokeDone(c) \/ RevokeAllMembers(c)
  PROVE  SessionInv'
<1> USE Numbers
<1>0. call[c] \in CallRecord /\ Sound(call[c]) /\ index \subseteq Sids
  BY DEF SessionInv, TypesHold
<1>1. CASE KickMembers(c)
  <2> DEFINE next == [call[c] EXCEPT !.pc = "revoke", !.todo = index \ {call[c].sid}]
  <2>1. next \in CallRecord
    BY <1>0 DEF CallRecord, Steps
  <2>2. Sound(next)
    BY <1>0, <1>1 DEF Sound, KickMembers, At, CallRecord, Opening, SessionInv
  <2>3. call' = [call EXCEPT ![c] = next]
    BY <1>1 DEF KickMembers, SessionInv, TypesHold
  <2> QED
    BY <1>1, <2>1, <2>2, <2>3, QuietStep DEF KickMembers, store, SessionInv, TypesHold
<1>2. CASE RevokeIndex(c)
  <2> DEFINE next == [call[c] EXCEPT !.pc = "revoke", !.taken = None]
  <2>1. next \in CallRecord
    BY <1>0 DEF CallRecord, Steps
  <2>2. Sound(next)
    BY <1>0, <1>2 DEF Sound, RevokeIndex, At, CallRecord, Opening, SessionInv
  <2>3. call' = [call EXCEPT ![c] = next]
    BY <1>2 DEF RevokeIndex, SessionInv, TypesHold
  <2> QED
    BY <1>2, <2>1, <2>2, <2>3, QuietStep DEF RevokeIndex, SessionInv, TypesHold
<1>3. CASE RevokeDone(c)
  <2>1. CASE call[c].op = "login"
    <3>1. Sound([call[c] EXCEPT !.pc = "issue"])
      BY <1>0, <1>3, <2>1 DEF Sound, CallRecord, RevokeDone, At, Opening
    <3> QED
      BY <1>3, <2>1, <3>1, GoToKeeps DEF RevokeDone, store, Steps, SessionInv, TypesHold
  <2>2. CASE call[c].op # "login"
    BY <1>3, <2>2, ReturnKeeps DEF RevokeDone, store
  <2> QED
    BY <2>1, <2>2
<1>4. CASE RevokeAllMembers(c)
  <2>1. CASE index = {}
    BY <1>4, <2>1, ReturnKeeps DEF RevokeAllMembers, store
  <2>2. CASE index # {}
    <3> DEFINE next == [call[c] EXCEPT !.pc = "all del", !.todo = index]
    <3>1. next \in CallRecord
      BY <1>0 DEF CallRecord, Steps
    <3>2. Sound(next)
      BY <1>0, <1>4 DEF Sound, RevokeAllMembers, At, CallRecord, Opening, SessionInv
    <3>3. call' = [call EXCEPT ![c] = next]
      BY <1>4, <2>2 DEF RevokeAllMembers, SessionInv, TypesHold
    <3> QED
      BY <1>4, <3>1, <3>2, <3>3, QuietStep DEF RevokeAllMembers, store, SessionInv, TypesHold
  <2> QED
    BY <2>1, <2>2
<1> QED
  BY <1>1, <1>2, <1>3, <1>4

LEMMA RevokeAllKeeps ==
  ASSUME SessionInv, NEW c \in Calls, RevokeAllHashes(c) \/ RevokeAllIndex(c)
  PROVE  SessionInv'
<1> USE Numbers
<1>1. CASE RevokeAllHashes(c)
  <2> DEFINE next == [call[c] EXCEPT !.pc = "all idx"]
  <2>1. call[c] \in CallRecord /\ Sound(call[c]) /\ call[c].pc = "all del"
    BY <1>1 DEF SessionInv, TypesHold, RevokeAllHashes, At
  <2>2. /\ next \in CallRecord /\ next.pc = "all idx" /\ next.sid = call[c].sid
        /\ next.op = call[c].op /\ next.todo = call[c].todo /\ next.late = call[c].late
    BY <2>1 DEF CallRecord, Steps
  <2>3. call' = [call EXCEPT ![c] = next]
    BY <1>1 DEF RevokeAllHashes, GoTo, SessionInv, TypesHold
  <2> HIDE DEF next
  <2>4. call'[c] = next
    BY <2>2, <2>3, OthersStay DEF SessionInv
  <2>5. /\ UNCHANGED <<minted, issued, index, account>>
        /\ hash' = [s \in Sids |-> IF s \in call[c].todo THEN None ELSE hash[s]]
        /\ hash' \in [Sids -> (1..MaxJti) \cup {None}]
    BY <1>1 DEF RevokeAllHashes, SessionInv, TypesHold
  <2>6. /\ \A u \in Sids : Over(u) => Over(u)'
        /\ \A u \in Sids : hash'[u] # None => hash'[u] = minted'[u]
    BY <2>5 DEF SessionInv, TypesHold, Over
  <2>7. Sound(call[c])'
    BY <2>1, <2>2, <2>4, <2>5 DEF Sound, Opening
  <2> QED
    BY <2>2, <2>3, <2>5, <2>6, <2>7, SessionStep DEF SessionInv, TypesHold
<1>2. CASE RevokeAllIndex(c)
  BY <1>2, ReturnKeeps DEF RevokeAllIndex
<1> QED
  BY <1>1, <1>2

LEMMA RefreshReadKeeps ==
  ASSUME SessionInv, NEW c \in Calls, NEW t \in issued, RefreshRead(c, t)
  PROVE  SessionInv'
<1> USE Numbers
<1>1. t \in TokenPair /\ minted[t.sid] > 0 /\ t.sid \in Sids /\ t.jti \in 0..MaxJti
  BY DEF SessionInv, TypesHold, TokenPair
<1>2. CASE hash[t.sid] = None
  <2>1. call' = [call EXCEPT ![c] = call[c]] /\ call[c] \in CallRecord /\ Sound(call[c])
    BY <1>2 DEF RefreshRead, SessionInv, TypesHold
  <2> QED
    BY <2>1, QuietStep DEF RefreshRead, store, SessionInv, TypesHold
<1>3. CASE hash[t.sid] # None
  <2> DEFINE next == [IdleCall EXCEPT !.op = "refresh", !.pc = "rotate",
                                      !.sid = t.sid, !.jti = t.jti]
  <2>1. next \in CallRecord
    BY <1>1, IdleIsSound DEF CallRecord, IdleCall, Steps, Operation
  <2>2. Sound(next)
    BY <1>1 DEF Sound, IdleCall, Opening
  <2> QED
    BY <1>3, <2>1, <2>2, QuietStep DEF RefreshRead, store, SessionInv, TypesHold
<1> QED
  BY <1>2, <1>3

LEMMA RefreshReusedKeeps ==
  ASSUME SessionInv, NEW c \in Calls, RefreshReused(c)
  PROVE  SessionInv'
<1> USE Numbers
<1> DEFINE next == [call[c] EXCEPT !.pc = "revoke", !.todo = {call[c].sid}]
<1>1. call[c] \in CallRecord /\ Sound(call[c]) /\ call[c].pc = "rotate"
  BY DEF SessionInv, TypesHold, RefreshReused, At
<1>2. call[c].sid \in Sids /\ minted[call[c].sid] > 0 /\ call[c].op = "refresh"
  BY <1>1 DEF Sound
<1>3. next \in CallRecord
  BY <1>1, <1>2 DEF CallRecord, Steps
<1>4. Sound(next)
  BY <1>1, <1>2 DEF Sound, CallRecord, Opening
<1>5. call' = [call EXCEPT ![c] = next]
  BY DEF RefreshReused, OnReuse, SessionInv, TypesHold
<1> QED
  BY <1>3, <1>4, <1>5, QuietStep DEF RefreshReused, store, SessionInv, TypesHold

\* The pair a call has exchanged is the newest, so the next is the one after it.
LEMMA RefreshRotateKeeps ==
  ASSUME SessionInv, NEW c \in Calls, RefreshRotate(c)
  PROVE  SessionInv'
<1> USE Numbers
<1> DEFINE s == call[c].sid
           n == minted[s] + 1
           next == [call[c] EXCEPT !.pc = "issue", !.jti = n, !.from = call[c].jti]
<1>1. call[c] \in CallRecord /\ Sound(call[c]) /\ call[c].pc = "rotate"
  BY DEF SessionInv, TypesHold, RefreshRotate, At
<1>2. s \in Sids /\ minted[s] > 0 /\ call[c].op = "refresh"
  BY <1>1 DEF Sound
<1>3. call[c].jti = minted[s] /\ hash[s] # None
  BY <1>1, <1>2 DEF RefreshRotate, MayRotate, SessionInv, TypesHold, CallRecord
<1>4. n \in 1..MaxJti /\ n \in 0..MaxJti /\ n = call[c].jti + 1 /\ call[c].jti \in 0..MaxJti
  BY <1>2, <1>3 DEF RefreshRotate, SessionInv, TypesHold
<1>5. /\ hash' = [hash EXCEPT ![s] = n] /\ minted' = [minted EXCEPT ![s] = n]
      /\ UNCHANGED <<index, account, issued>>
  BY DEF RefreshRotate
<1>6. call' = [call EXCEPT ![c] = next]
  BY DEF RefreshRotate, SessionInv, TypesHold
<1> HIDE DEF n
<1>7. /\ next \in CallRecord /\ next.pc = "issue" /\ next.sid = s /\ next.jti = n
      /\ next.from = call[c].jti /\ next.op = "refresh" /\ next.todo = call[c].todo
      /\ next.late = call[c].late
  BY <1>1, <1>2, <1>4 DEF CallRecord, Steps
<1> HIDE DEF next
<1>8. call'[c] = next
  BY <1>6, <1>7, OthersStay DEF SessionInv
<1>9. hash' \in [Sids -> (1..MaxJti) \cup {None}] /\ minted' \in [Sids -> 0..MaxJti]
  BY <1>2, <1>4, <1>5 DEF SessionInv, TypesHold
<1>10. /\ \A u \in Sids : minted[u] > 0 => minted'[u] > 0
       /\ \A u \in Sids : Over(u) => Over(u)'
       /\ \A u \in Sids : hash'[u] # None => hash'[u] = minted'[u]
  BY <1>2, <1>3, <1>4, <1>5 DEF SessionInv, TypesHold, Over
<1>11. \A t \in issued' : minted'[t.sid] > 0 /\ t.jti = t.from + 1
  BY <1>5, <1>10 DEF SessionInv, TypesHold, TokenPair
<1>12. Sound(call[c])'
  <2>1. \A u \in next.todo : minted'[u] > 0
    BY <1>1, <1>7, <1>10 DEF Sound, CallRecord
  <2>2. minted'[s] > 0 /\ ~ next.late
    BY <1>1, <1>2, <1>7, <1>10 DEF Sound
  <2> QED
    BY <1>2, <1>4, <1>7, <1>8, <2>1, <2>2 DEF Sound, Opening
<1> QED
  BY <1>5, <1>6, <1>7, <1>9, <1>10, <1>11, <1>12, SessionStep DEF SessionInv, TypesHold

LEMMA CheckBlacklistKeeps ==
  ASSUME SessionInv, NEW c \in Calls, NEW t \in issued, NEW op \in Operations,
         CheckBlacklist(c, t, op)
  PROVE  SessionInv'
<1> USE Numbers
<1>1. /\ t \in TokenPair /\ minted[t.sid] > 0 /\ t.sid \in Sids /\ t.jti \in 0..MaxJti
      /\ op \in Operation /\ op \in Authenticated
  BY SessionAssumption
  DEF SessionInv, TypesHold, CheckBlacklist, SessionAssumption, TokenPair
<1>2. CASE <<t.sid, t.jti>> \in blacklist
  <2>1. call' = [call EXCEPT ![c] = call[c]] /\ call[c] \in CallRecord /\ Sound(call[c])
    BY <1>2 DEF CheckBlacklist, SessionInv, TypesHold
  <2> QED
    BY <2>1, QuietStep DEF CheckBlacklist, store, SessionInv, TypesHold
<1>3. CASE <<t.sid, t.jti>> \notin blacklist
  <2> DEFINE late == hash[t.sid] = None
             next == [IdleCall EXCEPT !.op = op, !.pc = "session", !.sid = t.sid,
                                      !.jti = t.jti, !.late = late]
  <2>0. late \in BOOLEAN /\ (late => Over(t.sid))
    BY <1>1 DEF Over
  <2>1. call' = [call EXCEPT ![c] = next]
    BY <1>3 DEF CheckBlacklist
  <2> HIDE DEF late
  <2>2. next \in CallRecord
    BY <1>1, <2>0, IdleIsSound DEF CallRecord, IdleCall, Steps
  <2>3. Sound(next)
    BY <1>1, <2>0 DEF Sound, IdleCall, Opening, Authenticated
  <2> QED
    BY <2>1, <2>2, <2>3, QuietStep DEF CheckBlacklist, store, SessionInv, TypesHold
<1> QED
  BY <1>2, <1>3

\* Where a call goes once its session has been found.
LEMMA FirstStepIsSound ==
  ASSUME NEW op \in Authenticated
  PROVE  /\ FirstStep[op] \in {"blacklist", "revoke", "list members", "verify", "policy",
                               "served"}
         /\ FirstStep[op] = "blacklist" <=> op \in {"logout", "logout_all"}
         /\ FirstStep[op] = "policy" <=> op = "policy"
         /\ FirstStep[op] = "verify" <=> op = "password"
         /\ FirstStep[op] = "revoke" <=> op = "kick"
<1>1. /\ FirstStep["logout"] = "blacklist" /\ FirstStep["logout_all"] = "blacklist"
      /\ FirstStep["kick"] = "revoke" /\ FirstStep["list"] = "list members"
      /\ FirstStep["password"] = "verify" /\ FirstStep["policy"] = "policy"
      /\ FirstStep["use"] = "served"
  BY DEF FirstStep
<1> QED
  BY <1>1 DEF Authenticated

LEMMA CheckSessionKeeps ==
  ASSUME SessionInv, NEW c \in Calls, CheckSession(c)
  PROVE  SessionInv'
<1> USE Numbers
<1>1. /\ call[c] \in CallRecord /\ Sound(call[c]) /\ call[c].pc = "session"
      /\ call[c].op \in Authenticated /\ call[c].sid \in Sids
  BY DEF SessionInv, TypesHold, CheckSession, At, Sound
<1>2. CASE ~ SessionAccepted(call[c].sid)
  BY <1>2, ReturnKeeps DEF CheckSession, store
<1>3. CASE SessionAccepted(call[c].sid)
  <2>1. PICK target \in Targets(c) :
          call' = [call EXCEPT ![c].pc = FirstStep[call[c].op], ![c].todo = target]
    BY <1>3 DEF CheckSession
  <2>2. \A s \in target : s \in Sids /\ minted[s] > 0
    <3>1. CASE call[c].op = "kick"
      <4>1. PICK s \in index \cup { t.sid : t \in issued } : target = {s}
        BY <2>1, <3>1 DEF Targets
      <4> QED
        BY <4>1 DEF SessionInv, TypesHold, TokenPair
    <3>2. CASE call[c].op # "kick"
      BY <2>1, <3>2 DEF Targets
    <3> QED
      BY <3>1, <3>2
  <2> DEFINE pc == FirstStep[call[c].op]
             next == [call[c] EXCEPT !.pc = pc, !.todo = target]
  <2>3. /\ pc \in {"blacklist", "revoke", "list members", "verify", "policy", "served"}
        /\ pc = "blacklist" => call[c].op \in {"logout", "logout_all"}
        /\ pc = "policy" => call[c].op = "policy"
    BY <1>1, FirstStepIsSound
  <2>4. call' = [call EXCEPT ![c] = next]
    BY <2>1 DEF SessionInv, TypesHold
  <2> HIDE DEF pc
  <2>5. /\ next \in CallRecord /\ next.pc = pc /\ next.sid = call[c].sid
        /\ next.op = call[c].op /\ next.todo = target /\ next.late = call[c].late
    BY <1>1, <2>2, <2>3 DEF CallRecord, Steps
  <2> HIDE DEF next
  <2>6. ~ call[c].late
    BY <1>1, <1>3 DEF Sound, Over, SessionAccepted
  <2>7. Sound(next)
    BY <1>1, <2>2, <2>3, <2>5, <2>6 DEF Sound, Opening, Authenticated
  <2> QED
    BY <2>4, <2>5, <2>7, QuietStep DEF CheckSession, store, SessionInv, TypesHold
<1> QED
  BY <1>2, <1>3

\* The steps of a request that was let in.
LEMMA ServingKeeps ==
  ASSUME SessionInv, NEW c \in Calls,
         \/ BlacklistAccess(c) \/ VerifyOldPassword(c) \/ StorePassword(c)
         \/ \E p \in Policies : StorePolicy(c, p)
         \/ ListMembers(c) \/ ListDangling(c) \/ Done(c)
         \/ \E s \in Sids : ListSession(c, s)
  PROVE  SessionInv'
<1> USE Numbers
<1>0. /\ call[c] \in CallRecord /\ Sound(call[c]) /\ index \subseteq Sids
      /\ account \in [password : Nat, outdated : BOOLEAN, policy : Policy]
      /\ \A pc \in Steps : GoTo(c, pc) =>
           call' = [call EXCEPT ![c] = [call[c] EXCEPT !.pc = pc]]
  BY DEF SessionInv, TypesHold, GoTo
<1>1. CASE BlacklistAccess(c)
  <2>1. CASE call[c].op = "logout_all"
    <3>1. Sound([call[c] EXCEPT !.pc = "all members"])
      BY <1>0, <1>1 DEF Sound, CallRecord, BlacklistAccess, At, Opening
    <3> QED
      BY <1>0, <1>1, <2>1, <3>1, GoToKeeps DEF BlacklistAccess, Steps
  <2>2. CASE call[c].op # "logout_all"
    <3> DEFINE next == [call[c] EXCEPT !.pc = "revoke", !.todo = {call[c].sid}]
    <3>1. call[c].sid \in Sids /\ minted[call[c].sid] > 0
      BY <1>0, <1>1 DEF Sound, BlacklistAccess, At
    <3>2. next \in CallRecord
      BY <1>0, <3>1 DEF CallRecord, Steps
    <3>3. Sound(next)
      BY <1>0, <1>1, <3>1 DEF Sound, BlacklistAccess, At, CallRecord, Opening, Authenticated
    <3>4. call' = [call EXCEPT ![c] = next]
      BY <1>1, <2>2 DEF BlacklistAccess, SessionInv, TypesHold
    <3> QED
      BY <1>0, <1>1, <3>2, <3>3, <3>4, QuietStep DEF BlacklistAccess
  <2> QED
    BY <2>1, <2>2
<1>2. CASE VerifyOldPassword(c)
  <2>1. Sound([call[c] EXCEPT !.pc = "store"])
    BY <1>0, <1>2 DEF Sound, CallRecord, VerifyOldPassword, At, Opening
  <2> QED
    BY <1>0, <1>2, <2>1, GoToKeeps DEF VerifyOldPassword, store, Steps
<1>3. CASE StorePassword(c)
  <2>1. Sound([call[c] EXCEPT !.pc = "all members"])
    BY <1>0, <1>3 DEF Sound, CallRecord, StorePassword, At, Opening
  <2>2. account' \in [password : Nat, outdated : BOOLEAN, policy : Policy]
    <3>1. account.password \in Nat /\ account.password + 1 \in Nat
      BY <1>0
    <3>2. account' = [account EXCEPT !.password = account.password + 1, !.outdated = FALSE]
      BY <1>3 DEF StorePassword
    <3> QED
      BY <1>0, <3>1, <3>2
  <2> QED
    BY <1>3, <2>1, <2>2, GoToKeeps DEF StorePassword, store, Steps
<1>4. ASSUME NEW p \in Policies, StorePolicy(c, p) PROVE SessionInv'
  <2> DEFINE kept == [account EXCEPT !.policy = p]
  <2>1. p \in Policy
    BY SessionAssumption DEF SessionAssumption
  <2>2. kept \in [password : Nat, outdated : BOOLEAN, policy : Policy]
    BY <1>0, <2>1
  <2>3. CASE p = "single_device"
    <3>1. Sound([call[c] EXCEPT !.pc = "members"])
      BY <1>0, <1>4 DEF Sound, CallRecord, StorePolicy, At, Opening
    <3> QED
      BY <1>4, <2>2, <2>3, <3>1, GoToKeeps DEF StorePolicy, store, Steps
  <2>4. CASE p # "single_device"
    <3>1. call' = [call EXCEPT ![c] = IdleCall]
      BY <1>4, <2>4 DEF StorePolicy, Return
    <3> QED
      BY <1>4, <2>2, <3>1, IdleIsSound, QuietStep DEF StorePolicy, store
  <2> QED
    BY <2>3, <2>4
<1>5. CASE ListMembers(c)
  <2> DEFINE next == [call[c] EXCEPT !.pc = "list", !.todo = index]
  <2>1. next \in CallRecord
    BY <1>0 DEF CallRecord, Steps
  <2>2. Sound(next)
    BY <1>0, <1>5 DEF Sound, ListMembers, At, CallRecord, Opening, SessionInv
  <2>3. call' = [call EXCEPT ![c] = next]
    BY <1>5 DEF ListMembers, SessionInv, TypesHold
  <2> QED
    BY <1>0, <1>5, <2>1, <2>2, <2>3, QuietStep DEF ListMembers, store
<1>6. CASE ListDangling(c)
  <2> DEFINE next == [call[c] EXCEPT !.pc = "list", !.taken = None]
  <2>1. next \in CallRecord
    BY <1>0 DEF CallRecord, Steps
  <2>2. Sound(next)
    BY <1>0, <1>6 DEF Sound, ListDangling, At, CallRecord, Opening, SessionInv
  <2>3. call' = [call EXCEPT ![c] = next]
    BY <1>6 DEF ListDangling, SessionInv, TypesHold
  <2> QED
    BY <1>0, <1>6, <2>1, <2>2, <2>3, QuietStep DEF ListDangling
<1>7. CASE Done(c)
  BY <1>7, ReturnKeeps DEF Done, store
<1>8. ASSUME NEW s \in Sids, ListSession(c, s) PROVE SessionInv'
  <2> DEFINE pc == IF hash[s] = None THEN "list srem" ELSE "list"
             taken == IF hash[s] = None THEN s ELSE None
             next == [call[c] EXCEPT !.pc = pc, !.todo = call[c].todo \ {s}, !.taken = taken]
  <2>0. call[c].pc = "list" /\ s \in call[c].todo
    BY <1>8 DEF ListSession, At
  <2>1. /\ pc \in {"list", "list srem"} /\ taken \in Sids \cup {None}
        /\ pc = "list srem" => taken \in Sids /\ Over(taken)
    BY <1>0, <2>0 DEF Sound, Over
  <2>2. call' = [call EXCEPT ![c] = next]
    BY <1>8 DEF ListSession, SessionInv, TypesHold
  <2> HIDE DEF pc, taken
  <2>3. /\ next \in CallRecord /\ next.pc = pc /\ next.sid = call[c].sid
        /\ next.op = call[c].op /\ next.todo = call[c].todo \ {s} /\ next.taken = taken
        /\ next.late = call[c].late
    BY <1>0, <2>1 DEF CallRecord, Steps
  <2> HIDE DEF next
  <2>4. Sound(next)
    BY <1>0, <2>0, <2>1, <2>3 DEF Sound, Opening
  <2> QED
    BY <1>0, <1>8, <2>2, <2>3, <2>4, QuietStep DEF ListSession, store
<1> QED
  BY <1>1, <1>2, <1>3, <1>4, <1>5, <1>6, <1>7, <1>8

LEMMA ExpireKeeps ==
  ASSUME SessionInv, NEW s \in Sids, Expire(s)
  PROVE  SessionInv'
<1> USE Numbers
<1>1. TypesHold'
  BY DEF Expire, SessionInv, TypesHold
<1>2. /\ \A u \in Sids : Over(u) => Over(u)'
      /\ \A u \in Sids : hash'[u] # None => hash'[u] = minted'[u]
      /\ UNCHANGED <<minted, index, issued, call>>
  BY DEF Expire, SessionInv, TypesHold, Over
<1>3. ASSUME NEW c \in Calls PROVE Sound(call[c])'
  BY <1>1, <1>2, SoundStays DEF SessionInv
<1> QED
  BY <1>1, <1>2, <1>3 DEF SessionInv

LEMMA SessionNext == SessionInv /\ [Next]_vars => SessionInv'
<1> SUFFICES ASSUME SessionInv, [Next]_vars PROVE SessionInv'
  OBVIOUS
<1>1. CASE UNCHANGED vars
  BY <1>1 DEF SessionInv, TypesHold, Sound, Over, vars, store
<1>2. ASSUME NEW c \in Calls, Open(c) PROVE SessionInv'
  BY <1>2, OpenKeeps, CreateHashKeeps, IssueKeeps DEF Open
<1>3. ASSUME NEW c \in Calls, Revoke(c) PROVE SessionInv'
  BY <1>3, RevokeKeeps, RevokeHashKeeps, RevokeAllKeeps DEF Revoke
<1>4. ASSUME NEW c \in Calls, Refresh(c) PROVE SessionInv'
  BY <1>4, RefreshReadKeeps, RefreshRotateKeeps, RefreshReusedKeeps DEF Refresh
<1>5. ASSUME NEW c \in Calls, Authenticate(c) PROVE SessionInv'
  BY <1>5, CheckBlacklistKeeps, CheckSessionKeeps DEF Authenticate
<1>6. ASSUME NEW c \in Calls, Serving(c) PROVE SessionInv'
  BY <1>6, ServingKeeps DEF Serving
<1>7. ASSUME NEW c \in Calls, Abort(c) PROVE SessionInv'
  BY <1>7, ReturnKeeps DEF Abort, store
<1>8. ASSUME NEW s \in Sids, Expire(s) PROVE SessionInv'
  BY <1>8, ExpireKeeps
<1> QED
  BY <1>1, <1>2, <1>3, <1>4, <1>5, <1>6, <1>7, <1>8 DEF Next

LEMMA SessionsAlwaysSound == Spec => []SessionInv
BY SessionInit, SessionNext, PTL DEF Spec

-----------------------------------------------------------------------------
(* Theorems *)

\* A refresh token buys one new pair at most, whoever presents it and however
\* often: a pair was paid with the one before it, and each is minted once.
THEOREM RefreshBuysOnce == Spec => []RefreshOnce
<1>1. SessionInv => RefreshOnce
  <2> SUFFICES ASSUME SessionInv, NEW t \in issued, NEW u \in issued,
                      t.sid = u.sid, t.from = u.from
               PROVE  t = u
    BY DEF RefreshOnce
  <2>1. t.jti = u.jti /\ t \in TokenPair /\ u \in TokenPair
    BY DEF SessionInv, TypesHold
  <2> QED
    BY <2>1 DEF TokenPair
<1> QED
  BY <1>1, SessionsAlwaysSound, PTL

\* A token of a session that was over before the call came in is never let
\* through: by the time the session is looked up it is still over.
THEOREM EndedAlwaysStaysOut == Spec => []EndedStaysOut
<1>1. SessionInv => EndedStaysOut
  BY DEF SessionInv, Sound, EndedStaysOut, At
<1> QED
  BY <1>1, SessionsAlwaysSound, PTL

\* A caller that is told its refresh token was reused finds the session over,
\* whoever revoked it.
THEOREM ReplayAlwaysEnds == Spec => []ReplayEndsSession
<1>1. SessionInv => ReplayEndsSession
  <2> SUFFICES ASSUME SessionInv, NEW c \in Calls, call[c].op = "refresh",
                      call[c].pc = "revoke", call[c].todo = {}
               PROVE  Over(call[c].sid)
    BY DEF ReplayEndsSession, At
  <2>1. Sound(call[c])
    BY DEF SessionInv
  <2> QED
    BY <2>1 DEF Sound, Over
<1> QED
  BY <1>1, SessionsAlwaysSound, PTL

\* Only a rotation writes to an id that was opened before, and it compares what
\* is stored with a pair: what is over has nothing stored.
LEMMA OverStays ==
  ASSUME SessionInv, [Next]_vars, NEW s \in Sids, Over(s)
  PROVE  Over(s)'
<1> USE Numbers
<1>1. CASE UNCHANGED <<hash, minted>>
  BY <1>1 DEF Over
<1>2. ASSUME NEW c \in Calls, NEW u \in Sids, CreateHash(c, u) PROVE Over(s)'
  BY <1>2 DEF CreateHash, FreshSid, Over, SessionInv, TypesHold
<1>3. ASSUME NEW c \in Calls, NEW u \in Sids, RevokeHash(c, u) PROVE Over(s)'
  BY <1>3 DEF RevokeHash, Deleted, Over, SessionInv, TypesHold
<1>4. ASSUME NEW c \in Calls, RevokeAllHashes(c) PROVE Over(s)'
  BY <1>4 DEF RevokeAllHashes, Over
<1>5. ASSUME NEW c \in Calls, RefreshRotate(c) PROVE Over(s)'
  <2>1. call[c].jti \in 0..MaxJti /\ hash[call[c].sid] = call[c].jti
    BY <1>5 DEF RefreshRotate, MayRotate, SessionInv, TypesHold, CallRecord
  <2>2. call[c].sid # s
    BY <2>1 DEF Over
  <2> QED
    BY <1>5, <2>2 DEF RefreshRotate, Over, SessionInv, TypesHold
<1>6. ASSUME NEW u \in Sids, Expire(u) PROVE Over(s)'
  BY <1>6 DEF Expire, Over, SessionInv, TypesHold
<1>7. ASSUME NEW c \in Calls, Open(c) PROVE Over(s)'
  BY <1>1, <1>2, <1>7
  DEF Open, LoginRead, OauthRead, LoginCommit, CreateIndex, Issue, store
<1>8. ASSUME NEW c \in Calls, Revoke(c) PROVE Over(s)'
  BY <1>1, <1>3, <1>4, <1>8
  DEF Revoke, KickMembers, RevokeIndex, RevokeDone, RevokeAllMembers, RevokeAllIndex, store
<1>9. ASSUME NEW c \in Calls, Refresh(c) PROVE Over(s)'
  BY <1>1, <1>5, <1>9 DEF Refresh, RefreshRead, RefreshReused, store
<1>10. ASSUME NEW c \in Calls, Authenticate(c) \/ Abort(c) PROVE Over(s)'
  BY <1>1, <1>10 DEF Authenticate, CheckBlacklist, CheckSession, Abort, store
<1>11. ASSUME NEW c \in Calls, Serving(c) PROVE Over(s)'
  BY <1>1, <1>11
  DEF Serving, BlacklistAccess, VerifyOldPassword, StorePassword, StorePolicy,
      ListMembers, ListSession, ListDangling, Done, store
<1> QED
  BY <1>1, <1>6, <1>7, <1>8, <1>9, <1>10, <1>11 DEF Next, vars, store

\* No refresh that read a session before it was revoked brings it back, whatever
\* else happens between its steps.
THEOREM RevokedAlwaysStaysRevoked == Spec => RevokedStaysRevoked
<1>1. SessionInv /\ [Next]_vars => [\A s \in Sids : Over(s) => Over(s)']_vars
  BY OverStays
<1> QED
  BY <1>1, SessionsAlwaysSound, PTL DEF Spec, RevokedStaysRevoked

-----------------------------------------------------------------------------
(* What is usable is indexed *)

LEMMA IndexInit == Init => IndexInv
<1> SUFFICES ASSUME Init PROVE IndexInv
  OBVIOUS
<1>1. ASSUME NEW c \in Calls PROVE call[c] = IdleCall
  BY DEF Init
<1>2. Careful(IdleCall)
  BY DEF Careful, IdleCall
<1> QED
  BY <1>1, <1>2 DEF Init, IndexInv

\* A step of one call that opens no session: nothing comes back, and what is not
\* over leaves the index only as unlisted.
LEMMA IndexStep ==
  ASSUME IndexInv, NEW c \in Calls, \A d \in Calls \ {c} : call'[d] = call[d],
         SessionInv, UNCHANGED issued,
         \A s \in Sids : hash'[s] # None =>
           hash[s] # None /\ (s \in index \cup unlisted => s \in index' \cup unlisted'),
         Careful(call[c])',
         \A s \in Sids : hash'[s] # None /\ LoggingIn(c, s, Indexing)' =>
           s \in index' \cup unlisted' \/ LoggingIn(c, s, Indexing)
  PROVE  IndexInv'
<1>1. ASSUME NEW d \in Calls PROVE Careful(call[d])'
  <2>1. CASE d = c
    BY <2>1
  <2>2. CASE d # c
    <3>1. Careful(call[d]) /\ call'[d] = call[d] /\ call[d].todo \subseteq Sids
      BY <2>2 DEF IndexInv, SessionInv, TypesHold, CallRecord
    <3>2. Opened(call[d].sid)' <=> Opened(call[d].sid)
      BY <3>1 DEF Opened
    <3> QED
      BY <3>1, <3>2 DEF Careful
  <2> QED
    BY <2>1, <2>2
<1>2. ASSUME NEW s \in Sids, hash'[s] # None, NEW d \in Calls,
             LoggingIn(d, s, Indexing)'
      PROVE  s \in index' \cup unlisted'
  <2>1. s \in index' \cup unlisted' \/ LoggingIn(d, s, Indexing)
    BY <1>2 DEF LoggingIn
  <2> QED
    BY <1>2, <2>1 DEF IndexInv, Indexed
<1>3. ASSUME NEW s \in Sids, hash'[s] # None, Opened(s)' PROVE s \in index' \cup unlisted'
  BY <1>3 DEF IndexInv, Indexed, Opened
<1> QED
  BY <1>1, <1>2, <1>3 DEF IndexInv, Indexed

\* A call that returns is in no way any more.
LEMMA ReturnLeaves ==
  ASSUME SessionInv, NEW c \in Calls, Return(c)
  PROVE  /\ \A d \in Calls \ {c} : call'[d] = call[d]
         /\ call'[c] = IdleCall /\ Careful(call[c])'
         /\ \A s : ~ LoggingIn(c, s, Opening)' /\ ~ LoggingIn(c, s, Indexing)'
<1>1. /\ \A d \in Calls \ {c} : call'[d] = call[d]
      /\ call'[c] = IdleCall /\ call'[c].pc = "idle"
  BY DEF Return, SessionInv, TypesHold, IdleCall
<1>2. Careful(call[c])'
  BY <1>1 DEF Careful, IdleCall
<1> QED
  BY <1>1, <1>2 DEF LoggingIn, Opening, Indexing

LEMMA ReturnIndex ==
  ASSUME SessionInv, IndexInv, NEW c \in Calls, Return(c), UNCHANGED issued,
         \A s \in Sids : hash'[s] # None =>
           hash[s] # None /\ (s \in index \cup unlisted => s \in index' \cup unlisted')
  PROVE  IndexInv'
BY ReturnLeaves, IndexStep

LEMMA CreateHashIndex ==
  ASSUME SessionInv, IndexInv, NEW c \in Calls, NEW s \in Sids, CreateHash(c, s)
  PROVE  IndexInv'
<1>1. /\ minted[s] = 0 /\ hash' = [hash EXCEPT ![s] = 1]
      /\ UNCHANGED <<index, issued, unlisted>>
      /\ hash \in [Sids -> (1..MaxJti) \cup {None}]
  BY DEF CreateHash, FreshSid, SessionInv, TypesHold
<1>2. /\ \A d \in Calls \ {c} : call'[d] = call[d]
      /\ call'[c].pc = "sadd" /\ call'[c].op = "login"
  <2>1. Sound(call[c]) /\ call \in [Calls -> CallRecord]
    BY DEF SessionInv, TypesHold
  <2>2. call[c].op = "login"
    BY <2>1 DEF CreateHash, At, Sound
  <2> QED
    BY <2>1, <2>2 DEF CreateHash, CallRecord
<1>3. ~ Opened(s)'
  BY <1>1 DEF SessionInv, TypesHold, TokenPair, Opened
<1>4. ASSUME NEW d \in Calls PROVE ~ LoggingIn(d, s, Indexing)'
  <2>1. CASE d = c
    BY <1>2, <2>1 DEF LoggingIn, Indexing
  <2>2. CASE d # c
    <3>1. Sound(call[d]) /\ call'[d] = call[d] /\ ~ minted[s] > 0
      BY <1>1, <1>2, <2>2 DEF SessionInv
    <3> QED
      BY <3>1 DEF LoggingIn, Sound, Indexing
  <2> QED
    BY <2>1, <2>2
<1>5. ASSUME NEW u \in Sids, u # s, hash'[u] # None PROVE Indexed(u)'
  <2>1. Indexed(u)
    BY <1>1, <1>5 DEF IndexInv
  <2>2. Opened(u)' => Opened(u)
    BY <1>1 DEF Opened
  <2>3. ASSUME NEW d \in Calls, LoggingIn(d, u, Indexing)' PROVE LoggingIn(d, u, Indexing)
    BY <1>2, <2>3 DEF LoggingIn, Indexing
  <2> QED
    BY <1>1, <2>1, <2>2, <2>3 DEF Indexed
<1>6. ASSUME NEW d \in Calls PROVE Careful(call[d])'
  <2>1. CASE d = c
    BY <1>2, <2>1 DEF Careful
  <2>2. CASE d # c
    <3>1. Careful(call[d]) /\ call'[d] = call[d] /\ call[d].todo \subseteq Sids
      BY <1>2, <2>2 DEF IndexInv, SessionInv, TypesHold, CallRecord
    <3>2. Opened(call[d].sid)' <=> Opened(call[d].sid)
      BY <1>1, <3>1 DEF Opened
    <3>3. s \notin call[d].todo
      <4>1. \A u \in call[d].todo : minted[u] > 0
        BY DEF SessionInv, Sound
      <4> QED
        BY <1>1, <4>1
    <3> QED
      BY <1>1, <3>1, <3>2, <3>3 DEF Careful
  <2> QED
    BY <2>1, <2>2
<1>7. Indexed(s)'
  BY <1>3, <1>4 DEF Indexed
<1> QED
  BY <1>5, <1>6, <1>7 DEF IndexInv

LEMMA IssueIndex ==
  ASSUME SessionInv, IndexInv, NEW c \in Calls, Issue(c)
  PROVE  IndexInv'
<1> DEFINE pair == [sid |-> call[c].sid, jti |-> call[c].jti, from |-> call[c].from]
<1>1. /\ issued' = issued \cup {pair} /\ pair.sid = call[c].sid
      /\ UNCHANGED <<hash, index, unlisted>> /\ call[c].pc = "issue"
  BY DEF Issue, store, history, At
<1> HIDE DEF pair
<1>2. /\ \A d \in Calls \ {c} : call'[d] = call[d]
      /\ Careful(call[c])' /\ \A s : ~ LoggingIn(c, s, Indexing)'
  BY ReturnLeaves DEF Issue
<1>3. \A s : Opened(s)' <=> Opened(s) \/ s = call[c].sid
  BY <1>1 DEF Opened
<1>4. /\ call[c].sid \in Sids
      /\ hash[call[c].sid] # None => call[c].sid \in index \cup unlisted
  <2>1. Sound(call[c]) /\ Careful(call[c])
    BY DEF SessionInv, IndexInv
  <2>2. call[c].sid \in Sids /\ call[c].op \in {"login", "refresh"}
    BY <1>1, <2>1 DEF Sound
  <2>3. CASE call[c].op = "login"
    BY <1>1, <2>2, <2>3 DEF IndexInv, Indexed, LoggingIn, Indexing
  <2>4. CASE call[c].op = "refresh"
    BY <1>1, <2>1, <2>2, <2>4 DEF IndexInv, Indexed, Careful
  <2> QED
    BY <2>2, <2>3, <2>4
<1>5. ASSUME NEW d \in Calls PROVE Careful(call[d])'
  BY <1>1, <1>2, <1>3 DEF IndexInv, Careful
<1>6. ASSUME NEW s \in Sids, hash'[s] # None PROVE Indexed(s)'
  <2>1. Indexed(s) /\ hash[s] # None /\ index' = index /\ unlisted' = unlisted
    BY <1>1, <1>6 DEF IndexInv
  <2>2. ASSUME NEW d \in Calls, LoggingIn(d, s, Indexing)' PROVE LoggingIn(d, s, Indexing)
    BY <1>2, <2>2 DEF LoggingIn
  <2> QED
    BY <1>3, <1>4, <2>1, <2>2 DEF Indexed
<1> QED
  BY <1>5, <1>6 DEF IndexInv

\* What a step of a call says of the call: where it goes, and that it stays the
\* call it was.
Goes(c, pc) ==
  /\ \A d \in Calls \ {c} : call'[d] = call[d]
  /\ call'[c].pc = pc /\ call'[c].op = call[c].op /\ call'[c].sid = call[c].sid

LEMMA WhereTo ==
  ASSUME SessionInv, NEW c \in Calls
  PROVE  /\ LoginCommit(c) => Goes(c, "hset")
         /\ CreateIndex(c) =>
              Goes(c, IF call[c].policy = "single_device" THEN "members" ELSE "issue")
         /\ KickMembers(c) => /\ Goes(c, "revoke")
                              /\ call'[c].todo = index \ {call[c].sid}
         /\ \A s \in Sids : RevokeHash(c, s) => /\ Goes(c, "srem")
                                                /\ call'[c].todo = call[c].todo \ {s}
         /\ RevokeIndex(c) => Goes(c, "revoke") /\ call'[c].todo = call[c].todo
         /\ RevokeDone(c) => IF call[c].op = "login" THEN Goes(c, "issue") ELSE Return(c)
         /\ RefreshRotate(c) => Goes(c, "issue")
         /\ RefreshReused(c) => Goes(c, "revoke")
<1> USE DEF Goes
<1>0. call \in [Calls -> CallRecord] /\ call[c] \in CallRecord
  BY DEF SessionInv, TypesHold
<1>1. ASSUME LoginCommit(c) PROVE Goes(c, "hset")
  BY <1>0, <1>1 DEF LoginCommit, GoTo, CallRecord
<1>2. ASSUME CreateIndex(c)
      PROVE  Goes(c, IF call[c].policy = "single_device" THEN "members" ELSE "issue")
  BY <1>0, <1>2 DEF CreateIndex, GoTo, CallRecord
<1>3. ASSUME KickMembers(c)
      PROVE  Goes(c, "revoke") /\ call'[c].todo = index \ {call[c].sid}
  BY <1>0, <1>3 DEF KickMembers, CallRecord
<1>4. ASSUME NEW s \in Sids, RevokeHash(c, s)
      PROVE  Goes(c, "srem") /\ call'[c].todo = call[c].todo \ {s}
  BY <1>0, <1>4 DEF RevokeHash, CallRecord
<1>5. ASSUME RevokeIndex(c) PROVE Goes(c, "revoke") /\ call'[c].todo = call[c].todo
  BY <1>0, <1>5 DEF RevokeIndex, CallRecord
<1>6. ASSUME RevokeDone(c)
      PROVE  IF call[c].op = "login" THEN Goes(c, "issue") ELSE Return(c)
  BY <1>0, <1>6 DEF RevokeDone, GoTo, CallRecord
<1>7. ASSUME RefreshRotate(c) PROVE Goes(c, "issue")
  BY <1>0, <1>7 DEF RefreshRotate, CallRecord
<1>8. ASSUME RefreshReused(c) PROVE Goes(c, "revoke")
  BY <1>0, <1>8 DEF RefreshReused, CallRecord
<1> QED
  BY <1>1, <1>2, <1>3, <1>4, <1>5, <1>6, <1>7, <1>8

LEMMA OpenIndex ==
  ASSUME SessionInv, IndexInv, NEW c \in Calls, Open(c)
  PROVE  IndexInv'
<1>0. /\ call \in [Calls -> CallRecord] /\ Sound(call[c]) /\ Careful(call[c])
      /\ index \subseteq Sids
  BY DEF SessionInv, TypesHold, IndexInv
<1>1. ASSUME LoginRead(c) \/ OauthRead(c) PROVE IndexInv'
  <2>1. /\ \A d \in Calls \ {c} : call'[d] = call[d]
        /\ call'[c].pc = "commit" /\ call'[c].op = "login"
        /\ UNCHANGED <<hash, index, issued, unlisted>>
    BY <1>0, <1>1 DEF LoginRead, OauthRead, IdleCall, store, history
  <2>2. Careful(call[c])' /\ \A s \in Sids : ~ LoggingIn(c, s, Indexing)'
    BY <2>1 DEF Careful, LoggingIn, Indexing
  <2> QED
    BY <2>1, <2>2, IndexStep
<1>2. CASE LoginCommit(c)
  <2>1. Goes(c, "hset") /\ call[c].op = "login" /\ UNCHANGED <<hash, index, issued, unlisted>>
    BY <1>0, <1>2, WhereTo DEF Sound, LoginCommit, At, store, history
  <2>2. Careful(call[c])' /\ \A s \in Sids : ~ LoggingIn(c, s, Indexing)'
    BY <2>1 DEF Careful, LoggingIn, Indexing, Goes
  <2> QED
    BY <2>1, <2>2, IndexStep DEF Goes
<1>3. CASE CreateIndex(c)
  <2> DEFINE pc == IF call[c].policy = "single_device" THEN "members" ELSE "issue"
  <2>1. Goes(c, pc) /\ call[c].op = "login" /\ UNCHANGED <<hash, issued, unlisted>>
    BY <1>0, <1>3, WhereTo DEF Sound, CreateIndex, At, store, history
  <2>2. index' = index \cup {call[c].sid}
    BY <1>3 DEF CreateIndex, Added
  <2>3. pc \in {"members", "issue"}
    OBVIOUS
  <2> HIDE DEF pc
  <2>4. Careful(call[c])' /\ \A s \in Sids : LoggingIn(c, s, Indexing)' => s \in index'
    BY <2>1, <2>2, <2>3 DEF Careful, LoggingIn, Goes
  <2> QED
    BY <2>1, <2>2, <2>4, IndexStep DEF Goes
<1> QED
  BY <1>1, <1>2, <1>3, CreateHashIndex, IssueIndex DEF Open

LEMMA RevokeIndexed ==
  ASSUME SessionInv, IndexInv, NEW c \in Calls, Revoke(c)
  PROVE  IndexInv'
<1>0. /\ Sound(call[c]) /\ Careful(call[c]) /\ hash \in [Sids -> (1..MaxJti) \cup {None}]
      /\ call \in [Calls -> CallRecord] /\ call[c] \in CallRecord
  BY DEF SessionInv, TypesHold, IndexInv
\* The step goes on revoking, as the call it is.
<1>1. ASSUME NEW pc \in {"revoke", "srem", "issue"}, Goes(c, pc),
             call[c].pc \in {"members", "revoke", "srem"}, UNCHANGED issued,
             call[c].op = "login" \/ pc # "issue",
             \A s \in Sids : hash'[s] # None =>
               hash[s] # None /\ (s \in index \cup unlisted => s \in index' \cup unlisted')
      PROVE  IndexInv'
  <2>1. Careful(call[c])'
    BY <1>0, <1>1 DEF Careful, Goes
  <2>2. \A s \in Sids : LoggingIn(c, s, Indexing)' => LoggingIn(c, s, Indexing)
    BY <1>1 DEF LoggingIn, Indexing, Goes
  <2> QED
    BY <1>1, <2>1, <2>2, IndexStep DEF Goes
<1>2. CASE KickMembers(c)
  <2>1. UNCHANGED <<hash, index, issued, unlisted>> /\ call[c].pc = "members"
    BY <1>2 DEF KickMembers, At, store, history
  <2> QED
    BY <1>1, <1>2, <2>1, WhereTo
<1>3. ASSUME NEW s \in Sids, RevokeHash(c, s) PROVE IndexInv'
  <2>1. \A u \in Sids : hash'[u] # None => hash[u] # None
    BY <1>0, <1>3 DEF RevokeHash, Deleted
  <2>2. UNCHANGED <<index, issued, unlisted>> /\ call[c].pc = "revoke"
    BY <1>3 DEF RevokeHash, At, history
  <2> QED
    BY <1>1, <1>3, <2>1, <2>2, WhereTo
<1>4. CASE RevokeIndex(c)
  <2>1. /\ hash[call[c].taken] = None /\ UNCHANGED <<hash, issued, unlisted>>
        /\ index' = index \ {call[c].taken} /\ call[c].pc = "srem"
    BY <1>0, <1>4 DEF Sound, RevokeIndex, At, Over, history
  <2> QED
    BY <1>1, <1>4, <2>1, WhereTo
<1>5. CASE RevokeDone(c)
  <2>1. UNCHANGED <<hash, index, issued, unlisted>> /\ call[c].pc = "revoke"
    BY <1>5 DEF RevokeDone, At, store, history
  <2>2. CASE call[c].op = "login"
    BY <1>1, <1>5, <2>1, <2>2, WhereTo
  <2>3. CASE call[c].op # "login"
    BY <1>5, <2>1, <2>3, WhereTo, ReturnIndex
  <2> QED
    BY <2>2, <2>3
<1>6. CASE RevokeAllMembers(c)
  <2>1. UNCHANGED <<hash, index, issued, unlisted>>
    BY <1>6 DEF RevokeAllMembers, store, history
  <2>2. CASE index = {}
    BY <1>6, <2>1, <2>2, ReturnIndex DEF RevokeAllMembers
  <2>3. CASE index # {}
    <3>1. Goes(c, "all del")
      BY <1>0, <1>6, <2>3 DEF RevokeAllMembers, Goes, CallRecord
    <3>2. Careful(call[c])' /\ \A s \in Sids : ~ LoggingIn(c, s, Indexing)'
      BY <3>1 DEF Careful, LoggingIn, Indexing, Goes
    <3> QED
      BY <2>1, <3>1, <3>2, IndexStep DEF Goes
  <2> QED
    BY <2>2, <2>3
\* Every session it had listed is over from here on.
<1>7. CASE RevokeAllHashes(c)
  <2>1. /\ hash' = [s \in Sids |-> IF s \in call[c].todo THEN None ELSE hash[s]]
        /\ UNCHANGED <<index, issued, unlisted>> /\ call[c].todo \subseteq Sids
    BY <1>0, <1>7 DEF RevokeAllHashes, history, CallRecord
  <2>2. Goes(c, "all idx") /\ call'[c].todo = call[c].todo
    BY <1>0, <1>7 DEF RevokeAllHashes, GoTo, Goes, CallRecord
  <2>3. Careful(call[c])' /\ \A s \in Sids : ~ LoggingIn(c, s, Indexing)'
    BY <2>1, <2>2 DEF Careful, LoggingIn, Indexing, Goes
  <2>4. \A s \in Sids : hash'[s] # None => hash[s] # None
    BY <2>1
  <2> QED
    BY <2>1, <2>2, <2>3, <2>4, IndexStep DEF Goes
\* So what the DEL of the index drops is over or was not listed.
<1>8. CASE RevokeAllIndex(c)
  <2>1. /\ UNCHANGED <<hash, issued>> /\ unlisted' = unlisted \cup (index \ call[c].todo)
        /\ Return(c) /\ call[c].pc = "all idx"
    BY <1>8 DEF RevokeAllIndex, At
  <2>2. \A s \in call[c].todo : hash[s] = None
    BY <1>0, <2>1 DEF Careful
  <2> QED
    BY <2>1, <2>2, ReturnIndex
<1> QED
  BY <1>2, <1>3, <1>4, <1>5, <1>6, <1>7, <1>8 DEF Revoke

LEMMA RefreshIndex ==
  ASSUME SessionInv, IndexInv, NEW c \in Calls, Refresh(c)
  PROVE  IndexInv'
<1> USE Numbers
<1>0. /\ call \in [Calls -> CallRecord] /\ Sound(call[c]) /\ Careful(call[c])
      /\ hash \in [Sids -> (1..MaxJti) \cup {None}]
  BY DEF SessionInv, TypesHold, IndexInv
<1>1. ASSUME NEW t \in issued, RefreshRead(c, t) PROVE IndexInv'
  <2>1. CASE hash[t.sid] = None
    <3>1. UNCHANGED <<call, hash, index, issued, unlisted>>
      BY <1>1, <2>1 DEF RefreshRead, store, history
    <3>2. Careful(call[c])' /\ \A s : LoggingIn(c, s, Indexing)' => LoggingIn(c, s, Indexing)
      BY <1>0, <3>1 DEF Careful, Opened, LoggingIn
    <3> QED
      BY <3>1, <3>2, IndexStep
  <2>2. CASE hash[t.sid] # None
    <3>1. /\ \A d \in Calls \ {c} : call'[d] = call[d]
          /\ call'[c].pc = "rotate" /\ call'[c].op = "refresh" /\ call'[c].sid = t.sid
          /\ UNCHANGED <<hash, index, issued, unlisted>>
      <4> DEFINE next == [IdleCall EXCEPT !.op = "refresh", !.pc = "rotate",
                                          !.sid = t.sid, !.jti = t.jti]
      <4>1. next.pc = "rotate" /\ next.op = "refresh" /\ next.sid = t.sid
        BY DEF IdleCall
      <4>2. call' = [call EXCEPT ![c] = next] /\ UNCHANGED <<hash, index, issued, unlisted>>
        BY <1>1, <2>2 DEF RefreshRead, store, history
      <4> HIDE DEF next
      <4> QED
        BY <1>0, <4>1, <4>2
    <3>2. Careful(call[c])' /\ \A s \in Sids : ~ LoggingIn(c, s, Indexing)'
      BY <3>1 DEF Careful, Opened, LoggingIn, Indexing
    <3> QED
      BY <3>1, <3>2, IndexStep
  <2> QED
    BY <2>1, <2>2
<1>2. CASE RefreshRotate(c)
  <2>1. /\ Goes(c, "issue") /\ call[c].op = "refresh" /\ call[c].pc = "rotate"
        /\ UNCHANGED <<index, issued, unlisted>> /\ call[c].sid \in Sids
    BY <1>0, <1>2, WhereTo DEF Sound, RefreshRotate, At, history
  <2>2. \A s \in Sids : hash'[s] # None => hash[s] # None
    <3>1. hash[call[c].sid] = call[c].jti /\ call[c].jti # None
      BY <1>0, <1>2 DEF RefreshRotate, MayRotate, CallRecord
    <3> QED
      BY <1>0, <1>2, <3>1 DEF RefreshRotate
  <2>3. Careful(call[c])' /\ \A s \in Sids : ~ LoggingIn(c, s, Indexing)'
    BY <1>0, <2>1 DEF Careful, Opened, LoggingIn, Indexing, Goes
  <2> QED
    BY <2>1, <2>2, <2>3, IndexStep DEF Goes
<1>3. CASE RefreshReused(c)
  <2>1. /\ Goes(c, "revoke") /\ call[c].op = "refresh" /\ call[c].pc = "rotate"
        /\ UNCHANGED <<hash, index, issued, unlisted>>
    BY <1>0, <1>3, WhereTo DEF Sound, RefreshReused, At, store, history
  <2>2. Careful(call[c])' /\ \A s \in Sids : ~ LoggingIn(c, s, Indexing)'
    BY <2>1 DEF Careful, LoggingIn, Goes
  <2> QED
    BY <2>1, <2>2, IndexStep DEF Goes
<1> QED
  BY <1>1, <1>2, <1>3 DEF Refresh

LEMMA AuthenticateIndex ==
  ASSUME SessionInv, IndexInv, NEW c \in Calls, Authenticate(c)
  PROVE  IndexInv'
<1>0. /\ call \in [Calls -> CallRecord] /\ Sound(call[c]) /\ Careful(call[c])
  BY DEF SessionInv, TypesHold, IndexInv
<1>1. ASSUME NEW t \in issued, NEW op \in Operations, CheckBlacklist(c, t, op)
      PROVE  IndexInv'
  <2>1. /\ op \notin {"login", "refresh"}
        /\ UNCHANGED <<hash, index, issued, unlisted>>
    BY <1>1 DEF CheckBlacklist, Authenticated, store, history
  <2>2. CASE <<t.sid, t.jti>> \in blacklist
    <3>1. UNCHANGED call
      BY <1>1, <2>2 DEF CheckBlacklist
    <3>2. Careful(call[c])' /\ \A s : LoggingIn(c, s, Indexing)' => LoggingIn(c, s, Indexing)
      BY <1>0, <2>1, <3>1 DEF Careful, Opened, LoggingIn
    <3> QED
      BY <2>1, <3>1, <3>2, IndexStep
  <2>3. CASE <<t.sid, t.jti>> \notin blacklist
    <3> DEFINE late == hash[t.sid] = None
               next == [IdleCall EXCEPT !.op = op, !.pc = "session", !.sid = t.sid,
                                        !.jti = t.jti, !.late = late]
    <3>1. next.pc = "session" /\ next.op = op
      BY DEF IdleCall
    <3>2. call' = [call EXCEPT ![c] = next]
      BY <1>1, <2>3 DEF CheckBlacklist
    <3> HIDE DEF next
    <3>3. call'[c] = next /\ \A d \in Calls \ {c} : call'[d] = call[d]
      BY <1>0, <3>2
    <3>4. Careful(call[c])' /\ \A s \in Sids : ~ LoggingIn(c, s, Indexing)'
      BY <2>1, <3>1, <3>3 DEF Careful, LoggingIn, Indexing
    <3> QED
      BY <2>1, <3>3, <3>4, IndexStep
  <2> QED
    BY <2>2, <2>3
<1>2. CASE CheckSession(c)
  <2>1. UNCHANGED <<hash, index, issued, unlisted>>
    BY <1>2 DEF CheckSession, store, history
  <2>2. CASE ~ SessionAccepted(call[c].sid)
    BY <1>2, <2>1, <2>2, ReturnIndex DEF CheckSession
  <2>3. CASE SessionAccepted(call[c].sid)
    <3>1. /\ \A d \in Calls \ {c} : call'[d] = call[d]
          /\ call'[c].pc = FirstStep[call[c].op] /\ call'[c].op = call[c].op
      BY <1>0, <1>2, <2>3 DEF CheckSession, CallRecord
    <3>2. call[c].op \in Authenticated
      BY <1>0, <1>2 DEF Sound, CheckSession, At
    <3>3. call'[c].pc \in {"blacklist", "revoke", "list members", "verify", "policy", "served"}
      BY <3>1, <3>2, FirstStepIsSound
    <3>4. Careful(call[c])' /\ \A s \in Sids : ~ LoggingIn(c, s, Indexing)'
      BY <3>1, <3>2, <3>3 DEF Careful, LoggingIn, Authenticated
    <3> QED
      BY <2>1, <3>1, <3>4, IndexStep
  <2> QED
    BY <2>2, <2>3
<1> QED
  BY <1>1, <1>2 DEF Authenticate

LEMMA ServingIndex ==
  ASSUME SessionInv, IndexInv, NEW c \in Calls, Serving(c)
  PROVE  IndexInv'
<1>0. /\ call \in [Calls -> CallRecord] /\ call[c] \in CallRecord
      /\ Sound(call[c]) /\ Careful(call[c])
  BY DEF SessionInv, TypesHold, IndexInv
\* The step serves on, as the call it is, which is not a login.
<1>1. ASSUME NEW pc \in {"revoke", "members", "list", "list srem", "all members", "store"},
             Goes(c, pc), call[c].op # "login" \/ pc \notin Indexing,
             UNCHANGED <<hash, issued, unlisted>>,
             \A s \in Sids : hash[s] # None => (s \in index => s \in index')
      PROVE  IndexInv'
  <2>1. Careful(call[c])' /\ \A s \in Sids : ~ LoggingIn(c, s, Indexing)'
    BY <1>0, <1>1 DEF Careful, LoggingIn, Goes
  <2> QED
    BY <1>1, <2>1, IndexStep DEF Goes
<1>2. CASE BlacklistAccess(c)
  <2>1. call[c].op # "login" /\ UNCHANGED <<hash, index, issued, unlisted>>
    BY <1>0, <1>2 DEF Sound, BlacklistAccess, At, history
  <2>2. CASE call[c].op = "logout_all"
    <3>0. call' = [call EXCEPT ![c].pc = "all members"]
      BY <1>2, <2>2 DEF BlacklistAccess, GoTo
    <3>1. Goes(c, "all members")
      BY <1>0, <3>0 DEF Goes, CallRecord
    <3> QED
      BY <1>1, <2>1, <3>1
  <2>3. CASE call[c].op # "logout_all"
    <3>1. Goes(c, "revoke")
      BY <1>0, <1>2, <2>3 DEF BlacklistAccess, Goes, CallRecord
    <3> QED
      BY <1>1, <2>1, <3>1
  <2> QED
    BY <2>2, <2>3
<1>3. ASSUME NEW p \in Policies, StorePolicy(c, p) PROVE IndexInv'
  <2>1. UNCHANGED <<hash, index, issued, unlisted>> /\ call[c].pc = "policy" /\ call[c].op = "policy"
    BY <1>0, <1>3 DEF StorePolicy, store, history, Sound, At
  <2>2. CASE p = "single_device"
    <3>1. Goes(c, "members")
      BY <1>0, <1>3, <2>2 DEF StorePolicy, GoTo, Goes, CallRecord
    <3> QED
      BY <1>1, <2>1, <3>1
  <2>3. CASE p # "single_device"
    BY <1>3, <2>1, <2>3, ReturnIndex DEF StorePolicy
  <2> QED
    BY <2>2, <2>3
<1>4. CASE ListMembers(c)
  <2>1. Goes(c, "list")
    BY <1>0, <1>4 DEF ListMembers, Goes, CallRecord
  <2>2. UNCHANGED <<hash, index, issued, unlisted>>
    BY <1>4 DEF ListMembers, store, history
  <2> QED
    BY <1>1, <2>1, <2>2 DEF Indexing
<1>5. CASE ListDangling(c)
  <2>1. Goes(c, "list")
    BY <1>0, <1>5 DEF ListDangling, Goes, CallRecord
  <2>2. /\ hash[call[c].taken] = None /\ index' = index \ {call[c].taken}
        /\ UNCHANGED <<hash, issued, unlisted>>
    BY <1>0, <1>5 DEF Sound, Over, ListDangling, At, history
  <2> QED
    BY <1>1, <2>1, <2>2 DEF Indexing
<1>6. CASE Done(c)
  BY <1>6, ReturnIndex DEF Done, store, history
<1>7. ASSUME NEW s \in Sids, ListSession(c, s) PROVE IndexInv'
  <2> DEFINE pc == IF hash[s] = None THEN "list srem" ELSE "list"
  <2>1. Goes(c, pc)
    BY <1>0, <1>7 DEF ListSession, Goes, CallRecord
  <2>2. pc \in {"list", "list srem"}
    OBVIOUS
  <2> HIDE DEF pc
  <2>3. UNCHANGED <<hash, index, issued, unlisted>>
    BY <1>7 DEF ListSession, store, history
  <2> QED
    BY <1>1, <2>1, <2>2, <2>3 DEF Indexing
<1>8. ASSUME VerifyOldPassword(c) \/ StorePassword(c) PROVE IndexInv'
  <2>1. UNCHANGED <<hash, index, issued, unlisted>>
    BY <1>8 DEF VerifyOldPassword, StorePassword, store, history
  <2>2. Goes(c, "store") \/ Goes(c, "all members")
    BY <1>0, <1>8 DEF VerifyOldPassword, StorePassword, GoTo, Goes, CallRecord
  <2> QED
    BY <1>1, <2>1, <2>2 DEF Indexing
<1> QED
  BY <1>2, <1>3, <1>4, <1>5, <1>6, <1>7, <1>8 DEF Serving

LEMMA IndexNext ==
  ASSUME SessionInv, IndexInv, [Next]_vars
  PROVE  IndexInv'
<1>1. CASE UNCHANGED vars
  BY <1>1 DEF IndexInv, Careful, Indexed, Opened, LoggingIn, vars, store, history
<1>2. ASSUME NEW c \in Calls, Abort(c) PROVE IndexInv'
  BY <1>2, ReturnIndex DEF Abort, store, history
<1>3. ASSUME NEW s \in Sids, Expire(s) PROVE IndexInv'
  <2>1. /\ UNCHANGED <<index, issued, call, unlisted>>
        /\ \A u \in Sids : hash'[u] # None => hash[u] # None
    BY <1>3 DEF Expire, SessionInv, TypesHold, history
  <2>2. \A c, u, pcs : LoggingIn(c, u, pcs)' <=> LoggingIn(c, u, pcs)
    BY <2>1 DEF LoggingIn
  <2>3. \A u : Opened(u)' <=> Opened(u)
    BY <2>1 DEF Opened
  <2>4. ASSUME NEW c \in Calls PROVE Careful(call[c])'
    <3>1. Careful(call[c]) /\ call[c].todo \subseteq Sids
      BY DEF IndexInv, SessionInv, TypesHold, CallRecord
    <3> QED
      BY <2>1, <2>3, <3>1 DEF Careful
  <2>5. ASSUME NEW u \in Sids, hash'[u] # None PROVE Indexed(u)'
    BY <2>1, <2>2, <2>3, <2>5 DEF IndexInv, Indexed
  <2> QED
    BY <2>4, <2>5 DEF IndexInv
<1> QED
  BY <1>1, <1>2, <1>3, OpenIndex, RevokeIndexed, RefreshIndex, AuthenticateIndex,
     ServingIndex DEF Next

\* The index names every usable session, whatever calls overlap and wherever they
\* stop: only ids of sessions that are over are taken off it one by one, and the
\* DEL of the whole index drops, besides ids of sessions that are over, those its
\* call had not listed.
THEOREM UsableAlwaysIndexed == Spec => []UsableIsIndexed
<1>1. SessionInv /\ IndexInv /\ [Next]_vars => IndexInv'
  BY IndexNext
<1>2. IndexInv => UsableIsIndexed
  BY DEF IndexInv, Indexed, Opened, UsableIsIndexed, Usable
<1> QED
  BY IndexInit, <1>1, <1>2, SessionsAlwaysSound, PTL DEF Spec

-----------------------------------------------------------------------------
(* One usable session on one device *)

LEMMA DeviceInit == Init => DeviceInv
<1> SUFFICES ASSUME Init PROVE DeviceInv
  OBVIOUS
<1>1. ASSUME NEW c \in Calls
      PROVE  Single(call[c]) /\ \A s : ~ LoggingIn(c, s, Opening)
  BY DEF Init, IdleCall, Single, LoggingIn, Opening
<1>2. \A s, u \in Sids : ~ Rivals(s, u)
  BY DEF Init, Rivals, Contends
<1> QED
  BY <1>1, <1>2 DEF DeviceInv, Init

LEMMA Phases ==
  ASSUME NEW c, NEW s
  PROVE  /\ LoggingIn(c, s, Kicking) => LoggingIn(c, s, Settling)
         /\ LoggingIn(c, s, Settling) => LoggingIn(c, s, Opening) /\ LoggingIn(c, s, Indexing)
BY DEF LoggingIn, Kicking, Settling, Opening, Indexing

\* A step of one call that opens no session and settles no exclusive one, and
\* gives up whom it kicks only when they are over or its own login has ended.
LEMMA DeviceStep ==
  ASSUME DeviceInv, NEW c \in Calls, \A d \in Calls \ {c} : call'[d] = call[d],
         UNCHANGED <<issued, exclusive>>, unlisted \subseteq unlisted',
         \A s \in Sids : hash'[s] # None => hash[s] # None, Single(call[c])',
         \A s \in Sids : LoggingIn(c, s, Opening)' => LoggingIn(c, s, Opening),
         \A s \in Sids : s \in exclusive /\ LoggingIn(c, s, Settling)' =>
           LoggingIn(c, s, Settling),
         \A s, u \in Sids :
           LoggingIn(c, s, Kicking) /\ u \in call[c].todo /\ hash'[u] # None =>
             \/ LoggingIn(c, s, Kicking)' /\ u \in call'[c].todo
             \/ ~ LoggingIn(c, s, Settling)'
  PROVE  DeviceInv'
<1>1. ASSUME NEW d \in Calls PROVE Single(call[d])'
  <2>1. CASE d = c
    BY <2>1
  <2>2. CASE d # c
    BY <2>2 DEF DeviceInv, Single
  <2> QED
    BY <2>1, <2>2
<1>2. ASSUME NEW d \in Calls, NEW s \in Sids
      PROVE  /\ LoggingIn(d, s, Opening)' => LoggingIn(d, s, Opening)
             /\ s \in exclusive /\ LoggingIn(d, s, Settling)' => LoggingIn(d, s, Settling)
             /\ d # c => (LoggingIn(d, s, Kicking)' <=> LoggingIn(d, s, Kicking))
  BY DEF LoggingIn
<1>3. ASSUME NEW s \in Sids PROVE Opened(s)' <=> Opened(s)
  BY DEF Opened
<1>4. ASSUME NEW s \in Sids, NEW u \in Sids, hash'[s] # None, hash'[u] # None,
             Settled(s)', Kicks(s, u)
      PROVE  Kicks(s, u)'
  <2>1. PICK d \in Calls : LoggingIn(d, s, Kicking) /\ u \in call[d].todo
    BY <1>4 DEF Kicks
  <2>2. LoggingIn(d, s, Opening) /\ ~ Opened(s)
    BY <2>1, Phases DEF DeviceInv
  <2>3. PICK e \in Calls : LoggingIn(e, s, Settling)'
    BY <1>3, <1>4, <2>2 DEF Settled
  <2>4. LoggingIn(e, s, Opening)
    <3>1. LoggingIn(e, s, Opening)'
      BY <2>3 DEF LoggingIn, Settling, Opening
    <3> QED
      BY <1>2, <3>1
  <2>5. e = d
    BY <2>2, <2>4 DEF DeviceInv
  <2>6. CASE d = c
    BY <1>4, <2>1, <2>3, <2>5, <2>6 DEF Kicks
  <2>7. CASE d # c
    BY <1>2, <2>1, <2>7 DEF Kicks
  <2> QED
    BY <2>6, <2>7
<1>5. ASSUME NEW s \in Sids, NEW u \in Sids, Rivals(s, u)'
      PROVE  Kicks(s, u)' \/ Kicks(u, s)'
  <2>1. ASSUME NEW v \in Sids, Contends(v)' PROVE Contends(v)
    <3>1. v \in exclusive /\ v \notin unlisted /\ hash[v] # None
      BY <2>1 DEF Contends
    <3>2. Settled(v)
      BY <1>2, <1>3, <2>1, <3>1 DEF Contends, Settled
    <3> QED
      BY <3>1, <3>2 DEF Contends
  <2>2. Rivals(s, u)
    BY <1>5, <2>1 DEF Rivals
  <2>3. Kicks(s, u) \/ Kicks(u, s)
    BY <2>2 DEF DeviceInv
  <2> QED
    BY <1>4, <1>5, <2>3 DEF Rivals, Contends
<1> QED
  BY <1>1, <1>2, <1>3, <1>5 DEF DeviceInv

\* A step of a call that is no login with a session, before and after.
LEMMA Aside ==
  ASSUME DeviceInv, NEW c \in Calls, \A d \in Calls \ {c} : call'[d] = call[d],
         UNCHANGED <<issued, history>>,
         \A s \in Sids : hash'[s] # None => hash[s] # None,
         call[c].op # "login" \/ call[c].pc \notin Opening,
         call'[c].op # "login" \/ call'[c].pc \notin Opening,
         Single(call[c])'
  PROVE  DeviceInv'
<1>1. \A s : ~ LoggingIn(c, s, Opening) /\ ~ LoggingIn(c, s, Opening)'
  BY DEF LoggingIn
<1>2. \A s : /\ ~ LoggingIn(c, s, Kicking)
             /\ ~ LoggingIn(c, s, Settling)'
  BY <1>1 DEF LoggingIn, Kicking, Settling, Opening
<1> QED
  BY <1>1, <1>2, DeviceStep DEF history

\* A call that ends without handing out tokens.
LEMMA ReturnDevice ==
  ASSUME SessionInv, DeviceInv, NEW c \in Calls, Return(c),
         UNCHANGED <<hash, issued, exclusive>>, unlisted \subseteq unlisted'
  PROVE  DeviceInv'
<1>1. call'[c].pc = "idle" /\ \A d \in Calls \ {c} : call'[d] = call[d]
  BY ReturnLeaves DEF IdleCall
<1>2. \A s : ~ LoggingIn(c, s, Opening)' /\ ~ LoggingIn(c, s, Settling)'
  BY <1>1 DEF LoggingIn, Opening, Settling
<1>3. Single(call[c])'
  BY <1>1 DEF Single
<1> QED
  BY <1>1, <1>2, <1>3, DeviceStep

LEMMA CreateHashDevice ==
  ASSUME SessionInv, DeviceInv, NEW c \in Calls, NEW s \in Sids, CreateHash(c, s)
  PROVE  DeviceInv'
<1>1. /\ minted[s] = 0 /\ hash' = [hash EXCEPT ![s] = 1] /\ UNCHANGED <<unlisted, issued>>
      /\ exclusive' = IF call[c].policy = "single_device"
                      THEN exclusive \cup {s} ELSE exclusive \ {s}
      /\ hash \in [Sids -> (1..MaxJti) \cup {None}] /\ call[c].pc = "hset"
  BY DEF CreateHash, FreshSid, SessionInv, TypesHold, At
<1>2. /\ \A d \in Calls \ {c} : call'[d] = call[d]
      /\ call'[c].pc = "sadd" /\ call'[c].sid = s /\ call'[c].policy = call[c].policy
  <2>1. call \in [Calls -> CallRecord]
    BY DEF SessionInv, TypesHold
  <2> QED
    BY <2>1 DEF CreateHash, CallRecord
<1>3. ~ Opened(s) /\ \A u : Opened(u)' <=> Opened(u)
  BY <1>1 DEF SessionInv, TypesHold, TokenPair, Opened
<1>4. ASSUME NEW d \in Calls PROVE ~ LoggingIn(d, s, Opening)
  <2>1. Sound(call[d]) /\ ~ minted[s] > 0
    BY <1>1 DEF SessionInv
  <2> QED
    BY <2>1 DEF LoggingIn, Sound, Opening
<1>5. ASSUME NEW d \in Calls PROVE Single(call[d])'
  <2>1. CASE d = c
    BY <1>1, <1>2, <2>1 DEF Single
  <2>2. CASE d # c
    <3>1. Single(call[d]) /\ call'[d] = call[d]
      BY <1>2, <2>2 DEF DeviceInv
    <3>2. call[d].pc = "sadd" => call[d].sid # s
      <4>1. Sound(call[d]) /\ ~ minted[s] > 0
        BY <1>1 DEF SessionInv
      <4> QED
        BY <4>1 DEF Sound
    <3> QED
      BY <1>1, <3>1, <3>2 DEF Single
  <2> QED
    BY <2>1, <2>2
<1>6. ASSUME NEW d \in Calls, NEW u, LoggingIn(d, u, Opening)'
      PROVE  IF d = c THEN u = s ELSE LoggingIn(d, u, Opening)
  BY <1>2, <1>6 DEF LoggingIn
<1>7. ASSUME NEW d \in Calls, NEW u
      PROVE  /\ LoggingIn(d, u, Settling)' <=> LoggingIn(d, u, Settling)
             /\ LoggingIn(d, u, Kicking)' <=> LoggingIn(d, u, Kicking)
             /\ LoggingIn(d, u, Kicking) => call'[d] = call[d]
  <2>1. CASE d = c
    BY <1>1, <1>2, <2>1 DEF LoggingIn, Settling, Kicking
  <2>2. CASE d # c
    BY <1>2, <2>2 DEF LoggingIn
  <2> QED
    BY <2>1, <2>2
<1>8. ASSUME NEW u \in Sids PROVE Settled(u)' <=> Settled(u)
  BY <1>3, <1>7 DEF Settled
<1>9. ~ Settled(s)
  BY <1>3, <1>4, Phases DEF Settled
<1>10. ASSUME NEW u \in Sids, NEW v \in Sids, Rivals(u, v)'
       PROVE  Kicks(u, v)' \/ Kicks(v, u)'
  <2>1. u # s /\ v # s
    BY <1>8, <1>9, <1>10 DEF Rivals, Contends
  <2>2. Rivals(u, v)
    BY <1>1, <1>8, <1>10, <2>1 DEF Rivals, Contends
  <2>3. Kicks(u, v) \/ Kicks(v, u)
    BY <2>2 DEF DeviceInv
  <2> QED
    BY <1>7, <2>3 DEF Kicks
<1> QED
  BY <1>1, <1>3, <1>4, <1>5, <1>6, <1>10 DEF DeviceInv

\* Whoever is settled by now is on the index, and so on the list of a login that
\* settles.
LEMMA KickMembersDevice ==
  ASSUME SessionInv, IndexInv, DeviceInv, NEW c \in Calls, KickMembers(c)
  PROVE  DeviceInv'
<1>1. /\ Goes(c, "revoke") /\ call'[c].todo = index \ {call[c].sid}
      /\ UNCHANGED <<hash, issued, history>> /\ call[c].pc = "members"
  BY WhereTo DEF KickMembers, store, At
<1>2. CASE call[c].op # "login"
  <2>1. call'[c].op # "login" /\ Single(call[c])'
    BY <1>1, <1>2 DEF Goes, Single
  <2> QED
    BY <1>1, <1>2, <2>1, Aside DEF Goes
<1>3. CASE call[c].op = "login"
  <2>0. PICK s \in Sids : s = call[c].sid
    BY <1>1 DEF SessionInv, Sound
  <2>1. LoggingIn(c, s, Opening) /\ LoggingIn(c, s, Kicking)'
    BY <1>1, <1>3, <2>0 DEF LoggingIn, Opening, Kicking, Goes
  <2>2. ASSUME NEW d \in Calls, NEW u \in Sids
        PROVE  /\ LoggingIn(d, u, Opening)' <=> LoggingIn(d, u, Opening)
               /\ LoggingIn(d, u, Settling)' => LoggingIn(d, u, Settling) \/ (d = c /\ u = s)
               /\ LoggingIn(d, u, Kicking) => LoggingIn(d, u, Kicking)' /\ call'[d] = call[d]
    <3>1. CASE d = c
      BY <1>1, <2>0, <3>1 DEF LoggingIn, Opening, Settling, Kicking, Goes
    <3>2. CASE d # c
      BY <1>1, <3>2 DEF LoggingIn, Goes
    <3> QED
      BY <3>1, <3>2
  <2>3. ASSUME NEW d \in Calls PROVE Single(call[d])'
    BY <1>1 DEF Single, DeviceInv, Goes, history
  <2>4. ASSUME NEW u \in Sids PROVE Opened(u)' <=> Opened(u)
    BY <1>1 DEF Opened
  <2>5. ASSUME NEW u \in Sids, u # s, Settled(u)' PROVE Settled(u)
    BY <2>2, <2>4, <2>5 DEF Settled
  <2>6. ASSUME NEW u \in Sids, u # s, Contends(u)' PROVE Kicks(s, u)'
    <3>0. hash[u] # None /\ Settled(u) /\ u \notin unlisted
      BY <1>1, <2>5, <2>6 DEF Contends, history
    <3>1. u \in index
      BY <3>0, Phases DEF IndexInv, Indexed, Settled
    <3> QED
      BY <1>1, <2>0, <2>1, <2>6, <3>1 DEF Kicks
  <2>7. ASSUME NEW u \in Sids, NEW v \in Sids, Rivals(u, v)'
        PROVE  Kicks(u, v)' \/ Kicks(v, u)'
    <3>1. CASE u = s \/ v = s
      BY <2>6, <2>7, <3>1 DEF Rivals
    <3>2. CASE u # s /\ v # s
      <4>1. Rivals(u, v)
        BY <1>1, <2>5, <2>7, <3>2 DEF Rivals, Contends, history
      <4>2. Kicks(u, v) \/ Kicks(v, u)
        BY <4>1 DEF DeviceInv
      <4> QED
        BY <2>2, <4>2 DEF Kicks
    <3> QED
      BY <3>1, <3>2
  <2> QED
    BY <1>1, <2>2, <2>3, <2>4, <2>7 DEF DeviceInv
<1> QED
  BY <1>2, <1>3

\* What is handed out was settled: by its login, or when it was opened.
LEMMA IssueDevice ==
  ASSUME SessionInv, IndexInv, DeviceInv, NEW c \in Calls, Issue(c)
  PROVE  DeviceInv'
<1> DEFINE s == call[c].sid
           pair == [sid |-> call[c].sid, jti |-> call[c].jti, from |-> call[c].from]
<1>1. /\ issued' = issued \cup {pair} /\ pair.sid = s /\ call[c].pc = "issue"
      /\ UNCHANGED <<hash, exclusive, unlisted>>
  BY DEF Issue, store, history, At
<1> HIDE DEF pair
<1>2. /\ \A d \in Calls \ {c} : call'[d] = call[d]
      /\ call'[c].pc = "idle" /\ \A u : ~ LoggingIn(c, u, Opening)'
  BY ReturnLeaves DEF Issue, IdleCall
<1>3. \A u : Opened(u)' <=> Opened(u) \/ u = s
  BY <1>1 DEF Opened
<1>4. /\ s \in Sids
      /\ Opened(s) \/ (LoggingIn(c, s, Settling) /\ LoggingIn(c, s, Opening))
  <2>1. Sound(call[c]) /\ Careful(call[c])
    BY DEF SessionInv, IndexInv
  <2>2. s \in Sids /\ call[c].op \in {"login", "refresh"}
    BY <1>1, <2>1 DEF Sound
  <2> QED
    BY <1>1, <2>1, <2>2 DEF Careful, LoggingIn, Settling, Opening
<1>5. ASSUME NEW d \in Calls, NEW u \in Sids
      PROVE  /\ LoggingIn(d, u, Opening)' => d # c /\ LoggingIn(d, u, Opening)
             /\ LoggingIn(d, u, Settling)' => LoggingIn(d, u, Settling)
             /\ LoggingIn(d, u, Kicking) => LoggingIn(d, u, Kicking)' /\ call'[d] = call[d]
  <2>1. CASE d = c
    <3>1. ~ LoggingIn(d, u, Kicking)
      BY <1>1, <2>1 DEF LoggingIn, Kicking
    <3> QED
      BY <1>2, <2>1, <3>1 DEF LoggingIn, Settling, Opening
  <2>2. CASE d # c
    BY <1>2, <2>2 DEF LoggingIn
  <2> QED
    BY <2>1, <2>2
<1>6. ASSUME NEW d \in Calls PROVE Single(call[d])'
  BY <1>1, <1>2 DEF Single, DeviceInv
<1>7. ASSUME NEW d \in Calls, NEW u \in Sids, LoggingIn(d, u, Opening)'
      PROVE  ~ Opened(u)'
  <2>1. d # c /\ LoggingIn(d, u, Opening) /\ ~ Opened(u)
    BY <1>5, <1>7 DEF DeviceInv
  <2>2. u # s
    BY <1>4, <2>1 DEF DeviceInv
  <2> QED
    BY <1>3, <2>1, <2>2
<1>8. ASSUME NEW u \in Sids, Settled(u)' PROVE Settled(u)
  BY <1>3, <1>4, <1>5, <1>8 DEF Settled
<1>9. ASSUME NEW u \in Sids, NEW v \in Sids, Rivals(u, v)'
      PROVE  Kicks(u, v)' \/ Kicks(v, u)'
  <2>1. Rivals(u, v)
    BY <1>1, <1>8, <1>9 DEF Rivals, Contends
  <2>2. Kicks(u, v) \/ Kicks(v, u)
    BY <2>1 DEF DeviceInv
  <2> QED
    BY <1>5, <2>2 DEF Kicks
<1> QED
  BY <1>1, <1>5, <1>6, <1>7, <1>9 DEF DeviceInv

LEMMA OpenDevice ==
  ASSUME SessionInv, IndexInv, DeviceInv, NEW c \in Calls, Open(c)
  PROVE  DeviceInv'
<1>0. /\ call \in [Calls -> CallRecord] /\ call[c] \in CallRecord
      /\ Sound(call[c]) /\ Single(call[c])
  BY DEF SessionInv, TypesHold, DeviceInv
<1>1. ASSUME LoginRead(c) \/ OauthRead(c) PROVE DeviceInv'
  <2>1. /\ \A d \in Calls \ {c} : call'[d] = call[d]
        /\ call'[c].pc = "commit"
        /\ UNCHANGED <<hash, issued, history>> /\ call[c].pc = "idle"
    BY <1>0, <1>1 DEF LoginRead, OauthRead, IdleCall, store, Start, At
  <2>2. Single(call[c])' /\ call[c].pc \notin Opening /\ call'[c].pc \notin Opening
    BY <2>1 DEF Single, Opening
  <2> QED
    BY <2>1, <2>2, Aside
<1>2. CASE LoginCommit(c)
  <2>1. Goes(c, "hset") /\ UNCHANGED <<hash, issued, history>> /\ call[c].pc = "commit"
    BY <1>2, WhereTo DEF LoginCommit, At, store
  <2>2. Single(call[c])' /\ call[c].pc \notin Opening /\ call'[c].pc \notin Opening
    BY <2>1 DEF Single, Opening, Goes
  <2> QED
    BY <2>1, <2>2, Aside DEF Goes
\* Only a session that is not exclusive is settled without a look at the others.
<1>3. CASE CreateIndex(c)
  <2> DEFINE pc == IF call[c].policy = "single_device" THEN "members" ELSE "issue"
  <2>1. call[c].pc = "sadd" /\ UNCHANGED <<hash, issued, exclusive, unlisted>>
    BY <1>3 DEF CreateIndex, At, history
  <2>2. Goes(c, pc)
    BY <1>3, WhereTo
  <2>3. /\ pc \in {"members", "issue"}
        /\ pc = "issue" => call[c].policy # "single_device"
    OBVIOUS
  <2> HIDE DEF pc
  <2>4. Single(call[c])'
    BY <2>2, <2>3 DEF Single, Goes
  <2>5. \A s : /\ LoggingIn(c, s, Opening)' => LoggingIn(c, s, Opening)
               /\ ~ LoggingIn(c, s, Kicking)
    BY <2>1, <2>2 DEF LoggingIn, Opening, Kicking, Goes
  <2>6. ASSUME NEW s \in Sids, s \in exclusive, LoggingIn(c, s, Settling)' PROVE FALSE
    <3>1. pc = "issue" /\ call[c].sid = s
      BY <2>2, <2>3, <2>6 DEF LoggingIn, Settling, Goes
    <3> QED
      BY <1>0, <2>1, <2>3, <2>6, <3>1 DEF Single
  <2> QED
    BY <2>1, <2>2, <2>4, <2>5, <2>6, DeviceStep DEF Goes
<1> QED
  BY <1>1, <1>2, <1>3, CreateHashDevice, IssueDevice DEF Open

LEMMA RevokeDevice ==
  ASSUME SessionInv, IndexInv, DeviceInv, NEW c \in Calls, Revoke(c)
  PROVE  DeviceInv'
<1>0. /\ hash \in [Sids -> (1..MaxJti) \cup {None}]
      /\ call \in [Calls -> CallRecord] /\ call[c] \in CallRecord
  BY DEF SessionInv, TypesHold
\* The step goes on kicking, all but those that are over.
<1>1. ASSUME NEW pc \in {"revoke", "srem", "issue"}, Goes(c, pc),
             call[c].pc \in Kicking, UNCHANGED <<issued, history>>,
             \A s \in Sids : hash'[s] # None => hash[s] # None,
             \A u \in Sids : u \in call[c].todo /\ hash'[u] # None =>
               pc # "issue" /\ u \in call'[c].todo
      PROVE  DeviceInv'
  <2>1. Single(call[c])'
    BY <1>1 DEF Single, Goes
  <2>2. \A s \in Sids : /\ LoggingIn(c, s, Opening)' => LoggingIn(c, s, Opening)
                        /\ LoggingIn(c, s, Settling)' => LoggingIn(c, s, Settling)
                        /\ pc # "issue" => (LoggingIn(c, s, Kicking) => LoggingIn(c, s, Kicking)')
    BY <1>1 DEF LoggingIn, Opening, Settling, Kicking, Goes
  <2> QED
    BY <1>1, <2>1, <2>2, DeviceStep DEF Goes, history
<1>2. ASSUME NEW s \in Sids, RevokeHash(c, s) PROVE DeviceInv'
  <2>1. /\ hash' = [hash EXCEPT ![s] = None] /\ UNCHANGED <<issued, history>>
        /\ call[c].pc \in Kicking
    BY <1>2 DEF RevokeHash, Deleted, At, Kicking
  <2>2. Goes(c, "srem") /\ call'[c].todo = call[c].todo \ {s}
    BY <1>2, WhereTo
  <2> QED
    BY <1>0, <1>1, <2>1, <2>2
<1>3. CASE RevokeIndex(c)
  <2>1. UNCHANGED <<hash, issued, history>> /\ call[c].pc \in Kicking
    BY <1>3 DEF RevokeIndex, At, Kicking
  <2>2. Goes(c, "revoke") /\ call'[c].todo = call[c].todo
    BY <1>3, WhereTo
  <2> QED
    BY <1>1, <2>1, <2>2
<1>4. CASE RevokeDone(c)
  <2>1. UNCHANGED <<hash, issued, history>> /\ call[c].pc \in Kicking /\ call[c].todo = {}
    BY <1>4 DEF RevokeDone, At, Kicking, store
  <2>2. CASE call[c].op = "login"
    BY <1>1, <1>4, <2>1, <2>2, WhereTo
  <2>3. CASE call[c].op # "login"
    BY <1>4, <2>1, <2>3, WhereTo, ReturnDevice DEF history
  <2> QED
    BY <2>2, <2>3
\* revoke_all_sessions is no login's.
<1>5. CASE RevokeAllMembers(c)
  <2>1. UNCHANGED <<hash, issued, history>> /\ call[c].pc = "all members"
    BY <1>5 DEF RevokeAllMembers, store, At
  <2>2. CASE index = {}
    BY <1>5, <2>1, <2>2, ReturnDevice DEF RevokeAllMembers, history
  <2>3. CASE index # {}
    <3>1. Goes(c, "all del")
      BY <1>0, <1>5, <2>3 DEF RevokeAllMembers, Goes, CallRecord
    <3>2. Single(call[c])' /\ call[c].pc \notin Opening /\ call'[c].pc \notin Opening
      BY <2>1, <3>1 DEF Single, Opening, Goes
    <3> QED
      BY <2>1, <3>1, <3>2, Aside DEF Goes
  <2> QED
    BY <2>2, <2>3
<1>6. CASE RevokeAllHashes(c)
  <2>1. /\ UNCHANGED <<issued, history>> /\ call[c].pc = "all del"
        /\ \A s \in Sids : hash'[s] # None => hash[s] # None
    BY <1>6 DEF RevokeAllHashes, At
  <2>2. Goes(c, "all idx")
    BY <1>0, <1>6 DEF RevokeAllHashes, GoTo, Goes, CallRecord
  <2>3. Single(call[c])' /\ call[c].pc \notin Opening /\ call'[c].pc \notin Opening
    BY <2>1, <2>2 DEF Single, Opening, Goes
  <2> QED
    BY <2>1, <2>2, <2>3, Aside DEF Goes
<1>7. CASE RevokeAllIndex(c)
  BY <1>7, ReturnDevice DEF RevokeAllIndex
<1> QED
  BY <1>2, <1>3, <1>4, <1>5, <1>6, <1>7, KickMembersDevice DEF Revoke

LEMMA RefreshDevice ==
  ASSUME SessionInv, DeviceInv, NEW c \in Calls, Refresh(c)
  PROVE  DeviceInv'
<1> USE Numbers
<1>0. /\ call \in [Calls -> CallRecord] /\ call[c] \in CallRecord /\ Sound(call[c])
      /\ hash \in [Sids -> (1..MaxJti) \cup {None}]
  BY DEF SessionInv, TypesHold
<1>1. ASSUME NEW t \in issued, RefreshRead(c, t) PROVE DeviceInv'
  <2>1. /\ \A d \in Calls \ {c} : call'[d] = call[d]
        /\ call[c].pc = "idle" /\ call'[c].pc \in {"idle", "rotate"}
        /\ UNCHANGED <<hash, issued, history>>
    BY <1>0, <1>1 DEF RefreshRead, IdleCall, Start, At, store
  <2>2. Single(call[c])' /\ call[c].pc \notin Opening /\ call'[c].pc \notin Opening
    BY <2>1 DEF Single, Opening
  <2> QED
    BY <1>0, <2>1, <2>2, Aside
<1>2. CASE RefreshRotate(c)
  <2>1. /\ Goes(c, "issue") /\ call[c].op = "refresh" /\ UNCHANGED <<issued, history>>
    BY <1>0, <1>2, WhereTo DEF Sound, RefreshRotate, At
  <2>2. \A s \in Sids : hash'[s] # None => hash[s] # None
    <3>1. hash[call[c].sid] = call[c].jti /\ call[c].jti # None
      BY <1>0, <1>2 DEF RefreshRotate, MayRotate, CallRecord
    <3> QED
      BY <1>0, <1>2, <3>1 DEF RefreshRotate
  <2>3. Single(call[c])' /\ call'[c].op # "login"
    BY <2>1 DEF Single, Goes
  <2> QED
    BY <1>0, <2>1, <2>2, <2>3, Aside DEF Goes
<1>3. CASE RefreshReused(c)
  <2>1. /\ Goes(c, "revoke") /\ call[c].op = "refresh"
        /\ UNCHANGED <<hash, issued, history>>
    BY <1>0, <1>3, WhereTo DEF Sound, RefreshReused, At, store
  <2>2. Single(call[c])' /\ call'[c].op # "login"
    BY <2>1 DEF Single, Goes
  <2> QED
    BY <1>0, <2>1, <2>2, Aside DEF Goes
<1> QED
  BY <1>1, <1>2, <1>3 DEF Refresh

LEMMA AuthenticateDevice ==
  ASSUME SessionInv, DeviceInv, NEW c \in Calls, Authenticate(c)
  PROVE  DeviceInv'
<1>0. call \in [Calls -> CallRecord] /\ call[c] \in CallRecord /\ Sound(call[c])
  BY DEF SessionInv, TypesHold
<1>1. ASSUME NEW t \in issued, NEW op \in Operations, CheckBlacklist(c, t, op)
      PROVE  DeviceInv'
  <2>1. UNCHANGED <<hash, issued, history>> /\ call[c].pc = "idle"
    BY <1>1 DEF CheckBlacklist, Start, At, store
  <2>2. CASE <<t.sid, t.jti>> \in blacklist
    <3>1. call' = call
      BY <1>1, <2>2 DEF CheckBlacklist
    <3> QED
      BY <1>0, <2>1, <3>1, Aside DEF Opening, Single
  <2>3. CASE <<t.sid, t.jti>> \notin blacklist
    <3> DEFINE late == hash[t.sid] = None
               next == [IdleCall EXCEPT !.op = op, !.pc = "session", !.sid = t.sid,
                                        !.jti = t.jti, !.late = late]
    <3>1. next.pc = "session"
      BY DEF IdleCall
    <3>2. call' = [call EXCEPT ![c] = next]
      BY <1>1, <2>3 DEF CheckBlacklist
    <3> HIDE DEF next
    <3>3. call'[c].pc = "session" /\ \A d \in Calls \ {c} : call'[d] = call[d]
      BY <1>0, <3>1, <3>2
    <3> QED
      BY <1>0, <2>1, <3>3, Aside DEF Opening, Single
  <2> QED
    BY <2>2, <2>3
<1>2. CASE CheckSession(c)
  <2>1. /\ UNCHANGED <<hash, issued, history>>
        /\ call[c].pc = "session" /\ call[c].op \in Authenticated
    BY <1>0, <1>2 DEF CheckSession, store, At, Sound
  <2>2. CASE ~ SessionAccepted(call[c].sid)
    BY <1>2, <2>1, <2>2, ReturnDevice DEF CheckSession, history
  <2>3. CASE SessionAccepted(call[c].sid)
    <3>1. /\ \A d \in Calls \ {c} : call'[d] = call[d]
          /\ call'[c].pc = FirstStep[call[c].op] /\ call'[c].op = call[c].op
      BY <1>0, <1>2, <2>3 DEF CheckSession, CallRecord
    <3>2. call'[c].pc \notin {"commit", "hset", "sadd"}
      BY <2>1, <3>1, FirstStepIsSound
    <3> QED
      BY <1>0, <2>1, <3>1, <3>2, Aside DEF Opening, Single, Authenticated
  <2> QED
    BY <2>2, <2>3
<1> QED
  BY <1>1, <1>2 DEF Authenticate

LEMMA ServingDevice ==
  ASSUME SessionInv, DeviceInv, NEW c \in Calls, Serving(c)
  PROVE  DeviceInv'
<1>0. /\ call \in [Calls -> CallRecord] /\ call[c] \in CallRecord /\ Sound(call[c])
  BY DEF SessionInv, TypesHold
\* The step serves on, as the call it is, which is not a login with a session.
<1>1. ASSUME NEW pc \in {"revoke", "members", "list", "list srem", "all members", "store"},
             Goes(c, pc), UNCHANGED <<hash, issued, history>>,
             \/ call[c].op # "login"
             \/ pc \notin Opening /\ call[c].pc \notin Opening
      PROVE  DeviceInv'
  <2>1. /\ Single(call[c])' /\ (call[c].op # "login" \/ call[c].pc \notin Opening)
        /\ call'[c].op # "login" \/ call'[c].pc \notin Opening
    BY <1>1 DEF Single, Goes
  <2> QED
    BY <1>1, <2>1, Aside DEF Goes
<1>2. CASE BlacklistAccess(c)
  <2>1. call[c].op # "login" /\ UNCHANGED <<hash, issued, history>>
    BY <1>0, <1>2 DEF Sound, BlacklistAccess, At
  <2>2. CASE call[c].op = "logout_all"
    <3>0. call' = [call EXCEPT ![c].pc = "all members"]
      BY <1>2, <2>2 DEF BlacklistAccess, GoTo
    <3>1. Goes(c, "all members")
      BY <1>0, <3>0 DEF Goes, CallRecord
    <3> QED
      BY <1>1, <2>1, <3>1
  <2>3. CASE call[c].op # "logout_all"
    <3>1. Goes(c, "revoke")
      BY <1>0, <1>2, <2>3 DEF BlacklistAccess, Goes, CallRecord
    <3> QED
      BY <1>1, <2>1, <3>1
  <2> QED
    BY <2>2, <2>3
<1>3. ASSUME NEW p \in Policies, StorePolicy(c, p) PROVE DeviceInv'
  <2>1. UNCHANGED <<hash, issued, history>> /\ call[c].op = "policy"
    BY <1>0, <1>3 DEF StorePolicy, store, Sound, At
  <2>2. CASE p = "single_device"
    <3>1. Goes(c, "members")
      BY <1>0, <1>3, <2>2 DEF StorePolicy, GoTo, Goes, CallRecord
    <3> QED
      BY <1>1, <2>1, <3>1
  <2>3. CASE p # "single_device"
    BY <1>3, <2>1, <2>3, ReturnDevice DEF StorePolicy, history
  <2> QED
    BY <2>2, <2>3
<1>4. CASE ListMembers(c)
  <2>1. Goes(c, "list")
    BY <1>0, <1>4 DEF ListMembers, Goes, CallRecord
  <2> QED
    BY <1>1, <1>4, <2>1 DEF ListMembers, store, Opening, At
<1>5. CASE ListDangling(c)
  <2>1. Goes(c, "list")
    BY <1>0, <1>5 DEF ListDangling, Goes, CallRecord
  <2> QED
    BY <1>1, <1>5, <2>1 DEF ListDangling, Opening, At
<1>6. CASE Done(c)
  BY <1>6, ReturnDevice DEF Done, store, history
<1>7. ASSUME NEW s \in Sids, ListSession(c, s) PROVE DeviceInv'
  <2> DEFINE pc == IF hash[s] = None THEN "list srem" ELSE "list"
  <2>1. Goes(c, pc)
    BY <1>0, <1>7 DEF ListSession, Goes, CallRecord
  <2>2. pc \in {"list", "list srem"}
    OBVIOUS
  <2> HIDE DEF pc
  <2> QED
    BY <1>1, <1>7, <2>1, <2>2 DEF ListSession, store, Opening, At
<1>8. ASSUME VerifyOldPassword(c) \/ StorePassword(c) PROVE DeviceInv'
  <2>1. /\ UNCHANGED <<hash, issued, history>> /\ call[c].pc \notin Opening
    BY <1>8 DEF VerifyOldPassword, StorePassword, store, Opening, At
  <2>2. Goes(c, "store") \/ Goes(c, "all members")
    BY <1>0, <1>8 DEF VerifyOldPassword, StorePassword, GoTo, Goes, CallRecord
  <2>3. "store" \notin Opening /\ "all members" \notin Opening
    BY DEF Opening
  <2> QED
    BY <1>1, <2>1, <2>2, <2>3
<1> QED
  BY <1>2, <1>3, <1>4, <1>5, <1>6, <1>7, <1>8 DEF Serving

LEMMA DeviceNext ==
  ASSUME SessionInv, IndexInv, DeviceInv, [Next]_vars
  PROVE  DeviceInv'
<1>1. CASE UNCHANGED vars
  BY <1>1 DEF DeviceInv, Single, Rivals, Contends, Kicks, Settled, Opened, LoggingIn,
     vars, store, history
<1>2. ASSUME NEW c \in Calls, Abort(c) PROVE DeviceInv'
  BY <1>2, ReturnDevice DEF Abort, store, history
<1>3. ASSUME NEW s \in Sids, Expire(s) PROVE DeviceInv'
  <2>1. /\ UNCHANGED <<exclusive, unlisted, issued, call>>
        /\ \A u \in Sids : hash'[u] # None => hash[u] # None
    BY <1>3 DEF Expire, history, SessionInv, TypesHold
  <2>2. /\ \A c, u, pcs : LoggingIn(c, u, pcs)' <=> LoggingIn(c, u, pcs)
        /\ \A u : Opened(u)' <=> Opened(u)
    BY <2>1 DEF LoggingIn, Opened
  <2>3. \A u, v \in Sids : Rivals(u, v)' => Rivals(u, v)
    BY <2>1, <2>2 DEF Rivals, Contends, Settled
  <2>4. \A u, v \in Sids : Kicks(u, v) => Kicks(u, v)'
    BY <2>1, <2>2 DEF Kicks
  <2>5. \A c \in Calls : Single(call[c])'
    BY <2>1 DEF DeviceInv, Single
  <2> QED
    BY <2>1, <2>2, <2>3, <2>4, <2>5 DEF DeviceInv
<1> QED
  BY <1>1, <1>2, <1>3, OpenDevice, RevokeDevice, RefreshDevice, AuthenticateDevice,
     ServingDevice DEF Next

\* Of the sessions whose logins found single_device at most one is usable, however
\* logins, ends of sessions, changes of the password and of the policy run together,
\* fail or are cut short, but for those revoke_all_sessions dropped unseen: of two
\* that were handed out one would still be about to be revoked, and its rival would
\* not have been handed out.
THEOREM AlwaysSingleDevice == Spec => []SingleDevice
<1>1. SessionInv /\ IndexInv /\ [Next]_vars => IndexInv'
  BY IndexNext
<1>2. SessionInv /\ IndexInv /\ DeviceInv /\ [Next]_vars => DeviceInv'
  BY DeviceNext
<1>3. DeviceInv => SingleDevice
  <2> DEFINE Bound == (Usable \cap exclusive) \ unlisted
  <2> SUFFICES ASSUME DeviceInv PROVE Cardinality(Bound) <= 1
    BY DEF SingleDevice
  <2>1. ASSUME NEW s \in Bound, NEW u \in Bound PROVE s = u
    <3>1. /\ s \in Sids /\ u \in Sids /\ Opened(s) /\ Opened(u)
          /\ Contends(s) /\ Contends(u)
      BY DEF Usable, Opened, Contends, Settled
    <3>2. ~ Kicks(s, u) /\ ~ Kicks(u, s)
      BY <3>1, Phases DEF DeviceInv, Kicks
    <3>3. ~ Rivals(s, u)
      BY <3>1, <3>2 DEF DeviceInv
    <3> QED
      BY <3>1, <3>3 DEF Rivals
  <2> HIDE DEF Bound
  <2>2. CASE Bound = {}
    BY <2>2, FS_EmptySet
  <2>3. CASE Bound # {}
    <3>1. PICK s : s \in Bound
      BY <2>3
    <3>2. Bound = {s}
      BY <2>1, <3>1
    <3> QED
      BY <3>2, FS_Singleton
  <2> QED
    BY <2>2, <2>3
<1>4. Init => DeviceInv
  BY DeviceInit
<1> QED
  BY IndexInit, <1>1, <1>2, <1>3, <1>4, SessionsAlwaysSound, PTL DEF Spec

=============================================================================
