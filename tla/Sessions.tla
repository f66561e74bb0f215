------------------------------- MODULE Sessions -------------------------------
(***************************************************************************)
(* Users, their sessions, and the requests made under them.  A session     *)
(* ends when nobody used it for a while, when its life is over, or when it *)
(* is logged out; each request slides its window first and looks it up     *)
(* again in its handler, which are two critical sections.  Both files are  *)
(* rewritten in place after every change, and nobody looks whether that    *)
(* succeeded.                                                              *)
(*                                                                         *)
(* A token is the number of the session: it is never drawn twice.  Users'  *)
(* names are lower case, and passwords are right or wrong.                 *)
(***************************************************************************)
EXTENDS Naturals, FiniteSets

CONSTANTS
  Handlers,   \* requests under way; each may carry another token when it is done
  Names,
  None,       \* no account, no session
  Wanted,     \* the roles that registrations ask for
  Remembers,  \* whether sessions are to be remembered
  Idle,       \* how long an unused session lasts, by whether it is to be remembered
  Life,       \* how long a session lasts at most
  MaxTokens,  \* bound on the sessions that are issued
  MaxClock,   \* bound on the time
  Faults      \* what may go wrong

ValidRoles == {"platform_admin", "security_officer", "compliance_officer", "data_steward",
               "data_analyst", "auditor", "agent_runtime"}

ASSUME SessionsAssumption ==
  /\ Remembers \subseteq BOOLEAN
  /\ Idle \in [BOOLEAN -> Nat \ {0}]
  /\ Life \in [BOOLEAN -> Nat \ {0}]
  /\ MaxTokens \in Nat /\ MaxClock \in Nat
  /\ Faults \subseteq {"disk", "crash"}

Tokens == 1 .. MaxTokens

VARIABLES
  clock,
  users,         \* the accounts in memory
  usersFile,     \* and as they would be loaded
  sessions,      \* the sessions in memory
  sessionsFile,  \* and as they would be loaded
  token,         \* the token of each request, 0 if it carries none yet
  issued,        \* the number of sessions issued so far
  issuedAt,      \* history: when each session was issued
  remembered,    \* history: whether it was to be remembered
  lastUse,       \* history: and when it was used last
  ended,         \* history: the sessions that were logged out
  faulty         \* history: a file was not written

vars == <<clock, users, usersFile, sessions, sessionsFile, token, issued, issuedAt,
          remembered, lastUse, ended, faulty>>

account == <<users, usersFile>>
history == <<issuedAt, remembered, lastUse, ended>>

NoSessions == [t \in Tokens |-> None]
NoUsers == [n \in Names |-> None]

Earlier(a, b) == IF a < b THEN a ELSE b

-----------------------------------------------------------------------------
(* Weakened forms of operators below, which the properties must tell apart. *)

\* A touched session keeps its deadline.
SlidNever(s) == s

\* A session that is removed is removed from memory only.
RemovedUnsaved(t) ==
  /\ sessions' = [sessions EXCEPT ![t] = None]
  /\ UNCHANGED <<sessionsFile, faulty>>

-----------------------------------------------------------------------------
(* The two files. *)

\* What a write leaves: everything, or, if it fails, what was there before or
\* a file that cannot be read.
Written(old, new, empty) == {new} \cup (IF "disk" \in Faults THEN {old, empty} ELSE {})

SaveUsers ==
  /\ usersFile' \in Written(usersFile, users', NoUsers)

SaveSessions ==
  /\ sessionsFile' \in Written(sessionsFile, sessions', NoSessions)
  /\ faulty' = (faulty \/ sessionsFile' # sessions')

-----------------------------------------------------------------------------
(* One session. *)

Live(s) == s # None /\ clock < s.idleAt /\ clock < s.maxAt

Session(n, role, remember) ==
  [name |-> n, role |-> role, remember |-> remember,
   idleAt |-> clock + Idle[remember], maxAt |-> clock + Life[remember]]

Slid(s) == [s EXCEPT !.idleAt = Earlier(clock + Idle[s.remember], s.maxAt)]

Removed(t) ==
  /\ sessions' = [sessions EXCEPT ![t] = None]
  /\ SaveSessions

IssueSession(n, role, remember) ==
  /\ issued < MaxTokens
  /\ issued' = issued + 1
  /\ sessions' = [sessions EXCEPT ![issued + 1] = Session(n, role, remember)]
  /\ SaveSessions
  /\ issuedAt' = [issuedAt EXCEPT ![issued + 1] = clock]
  /\ remembered' = [remembered EXCEPT ![issued + 1] = remember]
  /\ lastUse' = [lastUse EXCEPT ![issued + 1] = clock]
  /\ UNCHANGED ended

\* lookupSession: one that is over is removed; one that is used slides.
LookupSession(t, touch) ==
  /\ UNCHANGED <<issuedAt, remembered, ended>>
  /\ \/ /\ Live(sessions[t]) /\ touch
        /\ sessions' = [sessions EXCEPT ![t] = Slid(@)]
        /\ SaveSessions
        /\ lastUse' = [lastUse EXCEPT ![t] = clock]
     \/ /\ Live(sessions[t]) /\ ~touch
        /\ UNCHANGED <<sessions, sessionsFile, faulty, lastUse>>
     \/ /\ sessions[t] # None /\ ~Live(sessions[t])
        /\ Removed(t)
        /\ UNCHANGED lastUse
     \/ /\ sessions[t] = None
        /\ UNCHANGED <<sessions, sessionsFile, faulty, lastUse>>

-----------------------------------------------------------------------------
(* Requests. *)

\* The first account gets the role it asks for, later ones do not.
SignupRole(wanted) ==
  IF users = NoUsers
    THEN IF wanted \in ValidRoles THEN wanted ELSE "platform_admin"
    ELSE "data_analyst"

Register(n, wanted, remember) ==
  /\ users[n] = None
  /\ users' = [users EXCEPT ![n] = [role |-> SignupRole(wanted), legacy |-> FALSE]]
  /\ SaveUsers
  /\ IssueSession(n, SignupRole(wanted), remember)
  /\ UNCHANGED <<clock, token>>

\* With the right password; a wrong one changes nothing.  An account with an
\* old hash gets a new one.
Login(n, remember) ==
  /\ users[n] # None
  /\ users' = [users EXCEPT ![n].legacy = FALSE]
  /\ IF users[n].legacy THEN SaveUsers ELSE UNCHANGED usersFile
  /\ IssueSession(n, users[n].role, remember)
  /\ UNCHANGED <<clock, token>>

\* WithSessionTouch, before the handler runs.
Touch(h, t) ==
  /\ token[h] = 0
  /\ t <= issued
  /\ token' = [token EXCEPT ![h] = t]
  /\ LookupSession(t, TRUE)
  /\ UNCHANGED <<clock, account, issued>>

Done(h) == token' = [token EXCEPT ![h] = 0]

\* It acts as the session's user and role, otherwise as its headers say.
Accepted(h) == Live(sessions[token[h]])

\* The handler asks who the actor is; GET /v1/auth/session slides once more.
Check(h, slides) ==
  /\ token[h] # 0
  /\ LookupSession(token[h], slides)
  /\ Done(h)
  /\ UNCHANGED <<clock, account, issued>>

Logout(h) ==
  /\ token[h] # 0
  /\ IF sessions[token[h]] # None THEN Removed(token[h])
     ELSE UNCHANGED <<sessions, sessionsFile, faulty>>
  /\ ended' = ended \cup {token[h]}
  /\ Done(h)
  /\ UNCHANGED <<clock, account, issued, issuedAt, remembered, lastUse>>

Tick ==
  /\ clock < MaxClock
  /\ clock' = clock + 1
  /\ UNCHANGED <<account, sessions, sessionsFile, token, issued, history, faulty>>

\* The process ends; the next one loads the accounts, and the sessions that
\* are not over.
Restart ==
  /\ "crash" \in Faults
  /\ users' = usersFile
  /\ sessions' = [t \in Tokens |-> IF Live(sessionsFile[t]) THEN sessionsFile[t] ELSE None]
  /\ token' = [h \in Handlers |-> 0]
  /\ UNCHANGED <<clock, usersFile, sessionsFile, issued, issuedAt, remembered, lastUse, ended,
                 faulty>>

-----------------------------------------------------------------------------
Init ==
  /\ clock = 0
  /\ users \in {NoUsers} \cup
       {[m \in Names |-> IF m = n THEN [role |-> "data_steward", legacy |-> TRUE] ELSE None] :
          n \in Names}
  /\ usersFile = users
  /\ sessions = NoSessions
  /\ sessionsFile = NoSessions
  /\ token = [h \in Handlers |-> 0]
  /\ issued = 0
  /\ issuedAt = [t \in Tokens |-> 0]
  /\ remembered = [t \in Tokens |-> FALSE]
  /\ lastUse = [t \in Tokens |-> 0]
  /\ ended = {}
  /\ faulty = FALSE

Next ==
  \/ \E n \in Names, remember \in Remembers :
       Login(n, remember) \/ \E wanted \in Wanted : Register(n, wanted, remember)
  \/ \E h \in Handlers :
       \/ \E t \in Tokens : Touch(h, t)
       \/ \E slides \in BOOLEAN : Check(h, slides)
       \/ Logout(h)
  \/ Tick
  \/ Restart

Spec == Init /\ [][Next]_vars

-----------------------------------------------------------------------------
(* Properties. *)

Accounts == [role : ValidRoles, legacy : BOOLEAN]
SessionRecords ==
  [name : Names, role : ValidRoles, remember : BOOLEAN, idleAt : Nat, maxAt : Nat]

ASSUME NoneAssumption == None \notin SessionRecords

\* Every variable has its type.
SessionsTypeOK ==
  /\ clock \in Nat
  /\ users \in [Names -> Accounts \cup {None}]
  /\ usersFile \in [Names -> Accounts \cup {None}]
  /\ sessions \in [Tokens -> SessionRecords \cup {None}]
  /\ sessionsFile \in [Tokens -> SessionRecords \cup {None}]
  /\ token \in [Handlers -> Tokens \cup {0}]
  /\ issued \in 0 .. MaxTokens
  /\ issuedAt \in [Tokens -> Nat]
  /\ remembered \in [Tokens -> BOOLEAN]
  /\ lastUse \in [Tokens -> Nat]
  /\ ended \subseteq Tokens
  /\ faulty \in BOOLEAN

\* The session was used lately, and is not over.
WithinLife(t) ==
  /\ clock < lastUse[t] + Idle[remembered[t]]
  /\ clock < issuedAt[t] + Life[remembered[t]]

Asks(h) == \E slides \in BOOLEAN : Check(h, slides)

\* A handler acts for a session only within the session's life, within the
\* window since it was last used, and never after its logout, restarts included,
\* unless a file was not written.
SessionsEnd ==
  [][\A h \in Handlers : Asks(h) /\ Accepted(h) =>
       /\ WithinLife(token[h])
       /\ token[h] \in ended => faulty]_vars

\* Requests use one session, others log out, and the process restarts: as long
\* as the files are written, who keeps using a session keeps it.
SessionsLast ==
  [][\A h \in Handlers : Asks(h) /\ ~Accepted(h) /\ ~faulty /\ token[h] \notin ended =>
       ~WithinLife(token[h])]_vars
=============================================================================
