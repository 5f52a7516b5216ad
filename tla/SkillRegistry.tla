---------------------------- MODULE SkillRegistry ---------------------------
(***************************************************************************)
(* The skill registry of a process (skills/registry.py, loader.py,         *)
(* schema.py) between the directory it caches and the calls that read it:  *)
(* the tools, the middleware and the API (skills/tools.py,                 *)
(* middleware/agent_skills.py, api/v1/skills.py).  Tools run in threads,   *)
(* so calls interleave; only a rescan holds the lock.                      *)
(*                                                                         *)
(* A skill on disk is the version of its SKILL.md, which says who may see  *)
(* it; its fingerprint is that version.  A version may come back with its  *)
(* old time and size, as when a directory is moved away and back.          *)
(***************************************************************************)
EXTENDS Absent, Naturals, FiniteSets

CONSTANTS
  Skills,    \* names of directories
  Versions,  \* what the directory of a skill may hold in this instance
  Callers,   \* who calls: permissions and authenticated
  Calls      \* calls in flight together

\* Version: what a directory may hold.  absent: no SKILL.md; broken: one that
\* load_skill_dir refuses with SkillLoadError; raises: one it fails on otherwise
\* (not UTF-8, not to be read, tools that are no list); else its visibility.
Loadable == {"public", "auth", "permission"}
Version == {"absent", "broken", "raises"} \cup Loadable

RequiredPermission == "skill:gated"  \* requires_permissions of a gated skill
ADMIN_PERM == "skill:admin"

ASSUME SkillAssumption ==
  /\ Callers \subseteq [permissions : SUBSET {RequiredPermission, ADMIN_PERM, "*"},
                        authenticated : BOOLEAN]
  /\ Versions \subseteq Version
  /\ None \notin Skills \cup Calls

VARIABLES
  disk,         \* what the directory holds
  scan,         \* _scan.skills: name -> the manifest's version
  fingerprint,  \* _fingerprint
  lock,         \* the call that holds _lock, or None
  call,         \* the calls
  missed        \* history: the directory changed after the last scan had read
                \* it and before its fingerprint was taken

registryVars == <<disk, scan, fingerprint, lock, call, missed>>

\* scan_skills catches SkillLoadError alone; anything else escapes it.
ScanRaises(d) == \E s \in Skills : d[s] = "raises"

\* What it returns otherwise: what loads; a broken skill is skipped.
scan_skills(d) ==
  [s \in { t \in Skills : d[t] \in Loadable } |-> d[s]]

\* mutant: the fingerprint is the names of the directories
NamesOnly(d) == [s \in Skills |-> IF d[s] = "absent" THEN "absent" ELSE "broken"]

\* _fingerprint: time and size of each SKILL.md there is.
Fingerprint(d) == d

\* mutant: whoever is logged in
AllowsLoggedIn(version, caller) == version = "public" \/ caller.authenticated

allows(version, caller) ==
  \/ version = "public"
  \/ /\ caller.authenticated
     /\ \/ "*" \in caller.permissions
        \/ version = "auth"
        \/ RequiredPermission \in caller.permissions

IsAdmin(caller) == caller.permissions \cap {ADMIN_PERM, "*"} # {}

NoCall == [pc |-> "idle"]

RegistryInit ==
  /\ disk \in [Skills -> Versions] /\ ~ ScanRaises(disk)
  /\ scan = scan_skills(disk) /\ fingerprint = Fingerprint(disk)
  /\ lock = None /\ call = [c \in Calls |-> NoCall] /\ missed = FALSE

CallAt(c, pc) == call[c].pc = pc
GoTo(c, pc) == call' = [call EXCEPT ![c].pc = pc]
CallReturns(c) == call' = [call EXCEPT ![c] = NoCall]

-----------------------------------------------------------------------------
(* _ensure_fresh and reload *)

\* A call that looks at the registry, lists all of it or reloads it.  Who calls
\* and for which skill matters only once it has looked.
Start(c, op) ==
  /\ CallAt(c, "idle")
  /\ call' = [call EXCEPT ![c] =
       [pc |-> IF op = "reload" THEN "lock" ELSE "stat", op |-> op,
        current |-> None, got |-> << >>, names |-> None,
        seen |-> [t \in Skills |-> {disk[t]}], excused |-> FALSE, reader |-> None]]
  /\ UNCHANGED <<disk, scan, fingerprint, lock, missed>>

Stat(c) ==
  /\ CallAt(c, "stat")
  /\ call' = [call EXCEPT ![c].pc = "compare", ![c].current = Fingerprint(disk)]
  /\ UNCHANGED <<disk, scan, fingerprint, lock, missed>>

Compare(c) ==
  /\ CallAt(c, "compare")
  /\ call' = [call EXCEPT ![c].current = None,
       ![c].pc = IF call[c].current = fingerprint THEN "take" ELSE "lock"]
  /\ UNCHANGED <<disk, scan, fingerprint, lock, missed>>

Got(c, result) ==
  call' = [call EXCEPT ![c].pc = "got", ![c].got = result, ![c].excused = @ \/ missed]

\* What was scanned last is returned, whoever scanned it.
Take(c) ==
  /\ CallAt(c, "take")
  /\ Got(c, scan)
  /\ UNCHANGED <<disk, scan, fingerprint, lock, missed>>

Acquire(c) ==
  /\ CallAt(c, "lock")
  /\ lock = None
  /\ lock' = c
  /\ GoTo(c, "scan")
  /\ UNCHANGED <<disk, scan, fingerprint, missed>>

\* mutant: the skills are dropped before they are scanned again
ScanCleared(c) ==
  /\ CallAt(c, "scan")
  /\ ~ ScanRaises(disk)
  /\ scan' = << >>
  /\ missed' = FALSE
  /\ GoTo(c, "fingerprint")
  /\ UNCHANGED <<disk, fingerprint, lock>>

Scan(c) ==
  /\ CallAt(c, "scan")
  /\ ~ ScanRaises(disk)
  /\ scan' = scan_skills(disk)
  /\ missed' = FALSE
  /\ GoTo(c, "fingerprint")
  /\ UNCHANGED <<disk, fingerprint, lock>>

\* An exception out of the scan frees the lock and ends the call; what was
\* scanned and its fingerprint stay as they were.
Fail(c) ==
  /\ CallAt(c, "scan")
  /\ ScanRaises(disk)
  /\ lock' = None
  /\ GoTo(c, "raised")
  /\ UNCHANGED <<disk, scan, fingerprint, missed>>

\* The fingerprint is taken after the scan.
TakeFingerprint(c) ==
  /\ CallAt(c, "fingerprint")
  /\ fingerprint' = Fingerprint(disk)
  /\ lock' = None
  /\ Got(c, scan)
  /\ UNCHANGED <<disk, scan, missed>>

-----------------------------------------------------------------------------
(* What the callers do with it *)

\* authorize: the manifest of the name, if it loads and is visible.
Authorized(c, s, caller) == s \in DOMAIN call[c].got /\ allows(call[c].got[s], caller)

\* What needs the manifest alone: visible_to, load_skill and get_skill, which
\* render it, after an administrator's second look too; the reload; and the
\* answer that there is no such skill, the same for one that is not to be seen.
Answer(c) ==
  /\ CallAt(c, "got")
  /\ call[c].op \in {"look", "again", "reload"}
  /\ CallReturns(c)
  /\ UNCHANGED <<disk, scan, fingerprint, lock, missed>>

\* Of an authorized skill, read_skill_file and get_skill_file read a file.
OpenFile(c, s, caller) ==
  /\ CallAt(c, "got")
  /\ call[c].op = "look"
  /\ Authorized(c, s, caller)
  /\ call' = [call EXCEPT ![c].pc = "read", ![c].got = << >>,
                          ![c].reader = [skill |-> s, caller |-> caller]]
  /\ UNCHANGED <<disk, scan, fingerprint, lock, missed>>

\* The API gives an administrator what is not visible too: the name is looked
\* up once more.
LookUpAgain(c, s, caller) ==
  /\ CallAt(c, "got")
  /\ call[c].op = "look"
  /\ caller.authenticated /\ IsAdmin(caller) /\ ~ Authorized(c, s, caller)
  /\ call' = [call EXCEPT ![c].pc = "stat", ![c].op = "again", ![c].got = << >>,
                          ![c].reader = [skill |-> s, caller |-> caller]]
  /\ UNCHANGED <<disk, scan, fingerprint, lock, missed>>

\* What the second look finds is the administrator's, and get_skill_file reads
\* the file.
OpenAgain(c) ==
  /\ CallAt(c, "got")
  /\ call[c].op = "again"
  /\ call[c].reader.skill \in DOMAIN call[c].got
  /\ call' = [call EXCEPT ![c].pc = "read", ![c].got = << >>]
  /\ UNCHANGED <<disk, scan, fingerprint, lock, missed>>

\* read_file: what is on disk by now, or nothing.
ReadFile(c) ==
  /\ CallAt(c, "read")
  /\ CallReturns(c)
  /\ UNCHANGED <<disk, scan, fingerprint, lock, missed>>

\* all(): the names first, then each manifest from a fresh look of its own; a
\* name that is gone by then is a KeyError.
AllNames(c) ==
  /\ CallAt(c, "got")
  /\ call[c].op = "all" /\ call[c].names = None
  /\ call' = [call EXCEPT ![c].names = DOMAIN call[c].got, ![c].got = << >>,
                          ![c].pc = IF DOMAIN call[c].got = {} THEN "listed" ELSE "stat"]
  /\ UNCHANGED <<disk, scan, fingerprint, lock, missed>>

AllSkill(c) ==
  /\ CallAt(c, "got")
  /\ call[c].op = "all" /\ call[c].names # None
  /\ \E s \in call[c].names :
       call' = [call EXCEPT
         ![c].names = @ \ {s}, ![c].got = << >>,
         ![c].pc = IF s \notin DOMAIN call[c].got THEN "KeyError"
                   ELSE IF call[c].names = {s} THEN "listed" ELSE "stat"]
  /\ UNCHANGED <<disk, scan, fingerprint, lock, missed>>

\* The list is returned; what was raised is an internal error to the caller.
Leave(c) ==
  /\ call[c].pc \in {"listed", "KeyError", "raised"}
  /\ CallReturns(c)
  /\ UNCHANGED <<disk, scan, fingerprint, lock, missed>>

-----------------------------------------------------------------------------
(* The directory changes under the registry *)

SeenNow(s, v) ==
  [c \in Calls |-> IF CallAt(c, "idle") THEN NoCall
                   ELSE [call[c] EXCEPT !.seen[s] = @ \cup {v}]]

Change(s, v) ==
  /\ disk[s] # v
  /\ disk' = [disk EXCEPT ![s] = v]
  /\ call' = SeenNow(s, v)
  /\ missed' = (missed \/ \E c \in Calls : CallAt(c, "fingerprint"))
  /\ UNCHANGED <<scan, fingerprint, lock>>

\* A SKILL.md goes after load_skill_dir has found it and before it reads it: that
\* too is no SkillLoadError.
Vanish(c, s) ==
  /\ CallAt(c, "scan")
  /\ disk[s] # "absent" /\ "absent" \in Versions
  /\ disk' = [disk EXCEPT ![s] = "absent"]
  /\ lock' = None
  /\ call' = [SeenNow(s, "absent") EXCEPT ![c].pc = "raised"]
  /\ UNCHANGED <<scan, fingerprint, missed>>

Refresh(c) ==
  \/ Stat(c) \/ Compare(c) \/ Take(c) \/ Acquire(c) \/ Scan(c) \/ Fail(c) \/ TakeFingerprint(c)
  \/ \E s \in Skills : Vanish(c, s)

Use(c) ==
  \/ Answer(c) \/ OpenAgain(c) \/ ReadFile(c) \/ AllNames(c) \/ AllSkill(c) \/ Leave(c)
  \/ \E s \in Skills, caller \in Callers : OpenFile(c, s, caller) \/ LookUpAgain(c, s, caller)

RegistryNext ==
  \/ \E c \in Calls :
       \/ \E op \in {"look", "all", "reload"} : Start(c, op)
       \/ Refresh(c) \/ Use(c)
  \/ \E s \in Skills, v \in Versions : Change(s, v)

RegistrySpec == RegistryInit /\ [][RegistryNext]_registryVars

-----------------------------------------------------------------------------
(* Properties *)

\* What a look at the registry returns for a skill was on disk at some time
\* during the call, whichever thread scanned it: a skill is added, changed and
\* removed without a restart (_ensure_fresh).  Except for a change that fell
\* between the scan and the fingerprint of the last reload: that one is missed.
FreshReads ==
  \A c \in Calls :
    CallAt(c, "got") /\ ~ call[c].excused =>
      \A s \in Skills :
        IF s \in DOMAIN call[c].got THEN call[c].got[s] \in call[c].seen[s]
        ELSE call[c].seen[s] \ Loadable # {}

\* An attachment is read from the disk after the skill was looked up: while the
\* call ran, and unless a change was missed, there was such a skill and its
\* caller was one who may see it or an administrator of skills, who may read
\* any (api/v1/skills.py).
FilesWereAllowed ==
  \A c \in Calls :
    CallAt(c, "read") /\ ~ call[c].excused =>
      \E v \in call[c].seen[call[c].reader.skill] \cap Loadable :
        \/ v = "public"
        \/ /\ call[c].reader.caller.authenticated
           /\ v = "permission" =>
                {RequiredPermission, ADMIN_PERM, "*"} \cap call[c].reader.caller.permissions # {}

WentAway(c, s) == call[c].seen[s] \ Loadable # {} /\ call[c].seen[s] \cap Loadable # {}

\* No call fails on a directory that held nothing but sound and refused skills
\* all along: all() misses a name only when a skill went away while it ran or a
\* change was missed, and a scan raises only on a file it cannot cope with or
\* that went away under it.
FailuresHaveCause ==
  \A c \in Calls :
    /\ CallAt(c, "KeyError") /\ ~ call[c].excused => \E s \in Skills : WentAway(c, s)
    /\ CallAt(c, "raised") =>
         \E s \in Skills :
           \/ "raises" \in call[c].seen[s]
           \/ "absent" \in call[c].seen[s] /\ call[c].seen[s] # {"absent"}

=============================================================================
