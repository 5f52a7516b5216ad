---------------------------- MODULE AuthSessions ----------------------------
(***************************************************************************)
(* The login sessions of one account (services/session_store.py,           *)
(* auth_service.py, account_service.py, deps.py): every call of the API    *)
(* that opens, checks, renews or revokes a session, as the Redis commands  *)
(* and database statements it awaits, interleaved with those of the other  *)
(* calls.                                                                  *)
(*                                                                         *)
(* Abstractions.  The access and the refresh token that are handed out     *)
(* together are one pair, which any caller may hold and present again.  A  *)
(* password is its version.  A key that outlives its TTL is gone (Expire); *)
(* EXPIRE itself, device data, audit rows and the cached permissions are   *)
(* left out.  Settings are the defaults: refresh tokens rotate and the     *)
(* session check is strict.                                                *)
(***************************************************************************)
EXTENDS Naturals, FiniteSets

CONSTANTS
  Calls,        \* API calls in flight together
  Sids,         \* session ids
  Operations,   \* what the callers of this instance ask for
  Policies,     \* the login policies they ask for
  FirstPolicy,  \* the account's login_policy to start with
  Outdated,     \* its password hash was made with older parameters
  MaxJti,       \* bound on token pairs per session
  MaxPassword,  \* bound on password versions
  None

Operation == {"login", "oauth", "refresh", "logout", "logout_all", "kick",
              "list", "password", "policy", "use"}

Policy == {"multi_device", "single_device"}

ASSUME SessionAssumption ==
  /\ Operations \subseteq Operation
  /\ Policies \subseteq Policy
  /\ FirstPolicy \in Policy
  /\ Outdated \in BOOLEAN
  /\ MaxJti \in Nat \ {0}
  /\ MaxPassword \in Nat
  /\ None \notin Nat
  /\ None \notin Sids

VARIABLES
  hash,       \* auth:sess:{sid}: its refresh_jti, or None
  index,      \* auth:sess-idx: the sids
  blacklist,  \* auth:blk: the token pairs whose access token was logged out
  account,    \* password, whether its hash is outdated, login_policy
  minted,     \* how many token pairs were minted for each sid
  issued,     \* the token pairs handed out
  call,       \* the calls in flight
  exclusive,  \* the sids whose login read the policy single_device (history)
  unlisted    \* the sids a DEL of the index took off it though revoke_all had
              \* not listed them (history)

store   == <<hash, index, blacklist>>
history == <<exclusive, unlisted>>
vars    == <<store, account, minted, issued, call, history>>

\* from: the pair whose refresh token bought this one, 0 after a login.
TokenPair == [sid : Sids, jti : 1..MaxJti, from : 0..MaxJti]

IdleCall ==
  [ op     |-> None,
    pc     |-> "idle",
    sid    |-> None,   \* the session the call opens or is made in
    jti    |-> 0,      \* of the token pair it presents or will hand out
    from   |-> 0,      \* of the refresh token it has exchanged
    todo   |-> {},     \* sids still to be looked at
    taken  |-> None,   \* the sid it is taking off the index
    pw     |-> 0,      \* the password it verified
    rehash |-> FALSE,  \* the login found outdated hash parameters
    policy |-> None,   \* the login_policy it read
    late   |-> FALSE ] \* its session was over before it started (history)

Init ==
  /\ hash = [s \in Sids |-> None]
  /\ index = {}
  /\ blacklist = {}
  /\ account = [password |-> 0, outdated |-> Outdated, policy |-> FirstPolicy]
  /\ minted = [s \in Sids |-> 0]
  /\ issued = {}
  /\ call = [c \in Calls |-> IdleCall]
  /\ exclusive = {}
  /\ unlisted = {}

At(c, pc)    == call[c].pc = pc
GoTo(c, pc)  == call' = [call EXCEPT ![c].pc = pc]
Return(c)    == call' = [call EXCEPT ![c] = IdleCall]
Start(c, op) == At(c, "idle") /\ op \in Operations

-----------------------------------------------------------------------------
(* login, oauth_login and _issue_token_pair *)

\* The credential and its account are read and the password is verified.  A
\* login that fails here touches no session.
LoginRead(c) ==
  /\ Start(c, "login")
  /\ call' = [call EXCEPT ![c] =
                [IdleCall EXCEPT !.op = "login", !.pc = "commit",
                                 !.pw = account.password,
                                 !.rehash = account.outdated,
                                 !.policy = account.policy]]
  /\ UNCHANGED <<store, account, minted, issued, history>>

\* oauth_login of a known account, which no change of the password outdates.
OauthRead(c) ==
  /\ Start(c, "oauth")
  /\ call' = [call EXCEPT ![c] =
                [IdleCall EXCEPT !.op = "login", !.pc = "commit",
                                 !.policy = account.policy]]
  /\ UNCHANGED <<store, account, minted, issued, history>>

\* The commit writes the hash of the password that was verified back when its
\* parameters were outdated.
LoginCommit(c) ==
  /\ At(c, "commit")
  /\ account' = IF call[c].rehash
                THEN [account EXCEPT !.password = call[c].pw, !.outdated = FALSE]
                ELSE account
  /\ GoTo(c, "hset")
  /\ UNCHANGED <<store, minted, issued, history>>

FreshSid(s) == minted[s] = 0

\* create_session writes the session under a new id.
CreateHash(c, s) ==
  /\ At(c, "hset")
  /\ FreshSid(s)
  /\ hash' = [hash EXCEPT ![s] = 1]
  /\ minted' = [minted EXCEPT ![s] = 1]
  /\ call' = [call EXCEPT ![c].pc = "sadd", ![c].sid = s, ![c].jti = 1]
  /\ exclusive' = IF call[c].policy = "single_device"
                  THEN exclusive \cup {s} ELSE exclusive \ {s}
  /\ UNCHANGED <<index, blacklist, account, issued, unlisted>>

Forgotten(s) == {}  \* mutant: no SADD
Added(s)     == {s}

\* It adds the id to the index; a single_device account goes on to kick.
CreateIndex(c) ==
  /\ At(c, "sadd")
  /\ index' = index \cup Added(call[c].sid)
  /\ GoTo(c, IF call[c].policy = "single_device" THEN "members" ELSE "issue")
  /\ UNCHANGED <<hash, blacklist, account, minted, issued, history>>

\* The token pair is handed out.
Issue(c) ==
  /\ At(c, "issue")
  /\ issued' = issued \cup
       {[sid |-> call[c].sid, jti |-> call[c].jti, from |-> call[c].from]}
  /\ Return(c)
  /\ UNCHANGED <<store, account, minted, history>>

-----------------------------------------------------------------------------
(* revoke_session, kick_other_sessions and revoke_all_sessions *)

\* kick_other_sessions reads the index.
KickMembers(c) ==
  /\ At(c, "members")
  /\ call' = [call EXCEPT ![c].pc = "revoke", ![c].todo = index \ {call[c].sid}]
  /\ UNCHANGED <<store, account, minted, issued, history>>

Kept(s)    == hash  \* mutant: only the index entry goes
Deleted(s) == [hash EXCEPT ![s] = None]

\* revoke_session deletes the session ...
RevokeHash(c, s) ==
  /\ At(c, "revoke")
  /\ s \in call[c].todo
  /\ hash' = Deleted(s)
  /\ call' = [call EXCEPT ![c].pc = "srem", ![c].todo = @ \ {s}, ![c].taken = s]
  /\ UNCHANGED <<index, blacklist, account, minted, issued, history>>

\* ... and takes it off the index.
RevokeIndex(c) ==
  /\ At(c, "srem")
  /\ index' = index \ {call[c].taken}
  /\ call' = [call EXCEPT ![c].pc = "revoke", ![c].taken = None]
  /\ UNCHANGED <<hash, blacklist, account, minted, issued, history>>

\* Nothing is left to revoke: a login hands out its tokens, a refresh answers
\* that its token was reused, any other call returns.
RevokeDone(c) ==
  /\ At(c, "revoke")
  /\ call[c].todo = {}
  /\ IF call[c].op = "login" THEN GoTo(c, "issue") ELSE Return(c)
  /\ UNCHANGED <<store, account, minted, issued, history>>

\* revoke_all_sessions reads the index and is done when it is empty.
RevokeAllMembers(c) ==
  /\ At(c, "all members")
  /\ IF index = {}
     THEN Return(c)
     ELSE call' = [call EXCEPT ![c].pc = "all del", ![c].todo = index]
  /\ UNCHANGED <<store, account, minted, issued, history>>

\* One DEL of all the sessions it read.
RevokeAllHashes(c) ==
  /\ At(c, "all del")
  /\ hash' = [s \in Sids |-> IF s \in call[c].todo THEN None ELSE hash[s]]
  /\ GoTo(c, "all idx")
  /\ UNCHANGED <<index, blacklist, account, minted, issued, history>>

\* DEL of the index, whatever it holds by now.
RevokeAllIndex(c) ==
  /\ At(c, "all idx")
  /\ index' = {}
  /\ unlisted' = unlisted \cup (index \ call[c].todo)
  /\ Return(c)
  /\ UNCHANGED <<hash, blacklist, account, minted, issued, exclusive>>

-----------------------------------------------------------------------------
(* refresh *)

\* The session is read; if it is gone the call answers that it was revoked.
RefreshRead(c, t) ==
  /\ Start(c, "refresh")
  /\ t \in issued
  /\ IF hash[t.sid] = None
     THEN UNCHANGED call
     ELSE call' = [call EXCEPT ![c] =
                     [IdleCall EXCEPT !.op = "refresh", !.pc = "rotate",
                                      !.sid = t.sid, !.jti = t.jti]]
  /\ UNCHANGED <<store, account, minted, issued, history>>

MayRotateAlive(stored, presented) == stored # None  \* mutant: no comparison
MayRotateAny(stored, presented) == TRUE             \* mutant: HSET, no script

\* The Lua script: compare refresh_jti and set the new one.
MayRotate(stored, presented) == stored = presented

RefreshRotate(c) ==
  LET s == call[c].sid
  IN  /\ At(c, "rotate")
      /\ MayRotate(hash[s], call[c].jti)
      /\ minted[s] < MaxJti
      /\ minted' = [minted EXCEPT ![s] = @ + 1]
      /\ hash' = [hash EXCEPT ![s] = minted[s] + 1]
      /\ call' = [call EXCEPT ![c].pc = "issue",
                              ![c].jti = minted[s] + 1, ![c].from = call[c].jti]
      /\ UNCHANGED <<index, blacklist, account, issued, history>>

OnReuseNothing(s) == {}  \* mutant: reported, nothing revoked
OnReuse(s)        == {s}

\* A refresh token that is not the newest: the session is revoked.
RefreshReused(c) ==
  /\ At(c, "rotate")
  /\ ~ MayRotate(hash[call[c].sid], call[c].jti)
  /\ call' = [call EXCEPT ![c].pc = "revoke", ![c].todo = OnReuse(call[c].sid)]
  /\ UNCHANGED <<store, account, minted, issued, history>>

-----------------------------------------------------------------------------
(* get_current, and the calls it lets in *)

Authenticated == {"logout", "logout_all", "kick", "list", "password", "policy", "use"}

\* The blacklist is asked for the access token that is presented.
CheckBlacklist(c, t, op) ==
  /\ op \in Authenticated
  /\ Start(c, op)
  /\ t \in issued
  /\ IF <<t.sid, t.jti>> \in blacklist
     THEN UNCHANGED call
     ELSE call' = [call EXCEPT ![c] =
                     [IdleCall EXCEPT !.op = op, !.pc = "session",
                                      !.sid = t.sid, !.jti = t.jti,
                                      !.late = hash[t.sid] = None]]
  /\ UNCHANGED <<store, account, minted, issued, history>>

FirstStep ==
  [ logout |-> "blacklist", logout_all |-> "blacklist", kick |-> "revoke",
    list |-> "list members", password |-> "verify", policy |-> "policy",
    use |-> "served" ]

\* mutant: the signature and the blacklist are all that is checked
SessionAcceptedUnread(s) == TRUE

\* strict_session_check
SessionAccepted(s) == hash[s] # None

\* kick is told which session to revoke: any but its own that has been listed
\* or has handed out its id with its tokens.
Targets(c) == IF call[c].op = "kick"
              THEN { {s} : s \in (index \cup { t.sid : t \in issued }) \ {call[c].sid} }
              ELSE { {} }

\* Then the session must exist.
CheckSession(c) ==
  /\ At(c, "session")
  /\ IF SessionAccepted(call[c].sid)
     THEN \E target \in Targets(c) :
            call' = [call EXCEPT ![c].pc = FirstStep[call[c].op],
                                 ![c].todo = target]
     ELSE Return(c)
  /\ UNCHANGED <<store, account, minted, issued, history>>

\* logout blacklists the access token for the time it has left, which is none
\* when only the leeway let it in; then it revokes one session or all.
BlacklistAccess(c) ==
  /\ At(c, "blacklist")
  /\ blacklist' \in {blacklist, blacklist \cup {<<call[c].sid, call[c].jti>>}}
  /\ IF call[c].op = "logout_all"
     THEN GoTo(c, "all members")
     ELSE call' = [call EXCEPT ![c].pc = "revoke", ![c].todo = {call[c].sid}]
  /\ UNCHANGED <<hash, index, account, minted, issued, history>>

\* change_password verifies the old password against what is stored now ...
VerifyOldPassword(c) ==
  /\ At(c, "verify")
  /\ GoTo(c, "store")
  /\ UNCHANGED <<store, account, minted, issued, history>>

\* ... stores the hash of the new one and revokes all sessions.
StorePassword(c) ==
  /\ At(c, "store")
  /\ account.password < MaxPassword
  /\ account' = [account EXCEPT !.password = @ + 1, !.outdated = FALSE]
  /\ GoTo(c, "all members")
  /\ UNCHANGED <<store, minted, issued, history>>

\* set_login_policy commits the policy; single_device kicks the others.
StorePolicy(c, p) ==
  /\ At(c, "policy")
  /\ account' = [account EXCEPT !.policy = p]
  /\ IF p = "single_device" THEN GoTo(c, "members") ELSE Return(c)
  /\ UNCHANGED <<store, minted, issued, history>>

\* list_sessions reads the index, then each session, and takes the ids whose
\* session has expired off the index.
ListMembers(c) ==
  /\ At(c, "list members")
  /\ call' = [call EXCEPT ![c].pc = "list", ![c].todo = index]
  /\ UNCHANGED <<store, account, minted, issued, history>>

ListSession(c, s) ==
  /\ At(c, "list")
  /\ s \in call[c].todo
  /\ call' = [call EXCEPT ![c].pc = IF hash[s] = None THEN "list srem" ELSE "list",
                          ![c].todo = @ \ {s},
                          ![c].taken = IF hash[s] = None THEN s ELSE None]
  /\ UNCHANGED <<store, account, minted, issued, history>>

ListDangling(c) ==
  /\ At(c, "list srem")
  /\ index' = index \ {call[c].taken}
  /\ call' = [call EXCEPT ![c].pc = "list", ![c].taken = None]
  /\ UNCHANGED <<hash, blacklist, account, minted, issued, history>>

\* The list is complete, or any other route has served.
Done(c) ==
  /\ \/ At(c, "served")
     \/ At(c, "list") /\ call[c].todo = {}
  /\ Return(c)
  /\ UNCHANGED <<store, account, minted, issued, history>>

-----------------------------------------------------------------------------
(* Time and failures *)

\* A session is gone when its TTL has run out; a login is faster than that.
Expire(s) ==
  /\ hash[s] # None
  /\ \A c \in Calls : call[c].op = "login" => call[c].sid # s
  /\ hash' = [hash EXCEPT ![s] = None]
  /\ UNCHANGED <<index, blacklist, account, minted, issued, call, history>>

\* Redis or the database fails, the account was locked since, or the process
\* dies: the call stops where it is.
Abort(c) ==
  /\ ~ At(c, "idle")
  /\ Return(c)
  /\ UNCHANGED <<store, account, minted, issued, history>>

Open(c) ==
  \/ LoginRead(c) \/ OauthRead(c) \/ LoginCommit(c)
  \/ \E s \in Sids : CreateHash(c, s)
  \/ CreateIndex(c) \/ Issue(c)

Revoke(c) ==
  \/ KickMembers(c)
  \/ \E s \in Sids : RevokeHash(c, s)
  \/ RevokeIndex(c) \/ RevokeDone(c)
  \/ RevokeAllMembers(c) \/ RevokeAllHashes(c) \/ RevokeAllIndex(c)

Refresh(c) ==
  \/ \E t \in issued : RefreshRead(c, t)
  \/ RefreshRotate(c) \/ RefreshReused(c)

Authenticate(c) ==
  \/ \E t \in issued, op \in Operations : CheckBlacklist(c, t, op)
  \/ CheckSession(c)

Serving(c) ==
  \/ BlacklistAccess(c) \/ VerifyOldPassword(c) \/ StorePassword(c)
  \/ \E p \in Policies : StorePolicy(c, p)
  \/ ListMembers(c) \/ ListDangling(c) \/ Done(c)
  \/ \E s \in Sids : ListSession(c, s)

Next ==
  \/ \E c \in Calls :
       Open(c) \/ Revoke(c) \/ Refresh(c) \/ Authenticate(c) \/ Serving(c) \/ Abort(c)
  \/ \E s \in Sids : Expire(s)

Spec == Init /\ [][Next]_vars

-----------------------------------------------------------------------------
(* Properties *)

\* A refresh token buys one new pair at most, however many callers present it
\* at once (the CAS of rotate_refresh_jti).
RefreshOnce ==
  \A t, u \in issued :
    t.sid = u.sid /\ t.from = u.from => t = u

Over(s) == minted[s] > 0 /\ hash[s] = None

\* What was revoked or has expired never comes back: no refresh that read the
\* session before it was revoked writes it again.
RevokedStaysRevoked == [][\A s \in Sids : Over(s) => Over(s)']_vars

\* No token of a session that was over before the call came in is let through:
\* neither the one that was blacklisted nor an older one of the same session.
EndedStaysOut ==
  \A c \in Calls : call[c].late => At(c, "session")

\* When a caller is told that its refresh token was reused the session is over:
\* thief and owner are both out.
ReplayEndsSession ==
  \A c \in Calls :
    call[c].op = "refresh" /\ At(c, "revoke") /\ call[c].todo = {} =>
      Over(call[c].sid)

Usable == { s \in Sids : hash[s] # None /\ \E t \in issued : t.sid = s }

\* Of the sessions opened by logins that found the policy single_device at most
\* one is usable at any time, in whatever order logins, renewals, revocations and
\* changes of the policy interleave or fail; unless revoke_all_sessions took it
\* off the index unseen, where no later login can find it.
SingleDevice == Cardinality((Usable \cap exclusive) \ unlisted) <= 1

\* The index names every usable session (revoke_all_sessions and
\* kick_other_sessions reach only what it names), whatever calls overlap: the one
\* way off it without being revoked is the DEL with which revoke_all_sessions
\* ends, for a session that was indexed after its SMEMBERS.
UsableIsIndexed == Usable \ unlisted \subseteq index

=============================================================================
