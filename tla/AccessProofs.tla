---------------------------- MODULE AccessProofs ----------------------------
(***************************************************************************)
(* Proofs about Access: sessions, for any users, requests, windows and     *)
(* lives; decisions, for any roles, regions and policies that are asked    *)
(* for; calls, for any manifests and requests; scans, for any patterns and  *)
(* objects.                                                                *)
(***************************************************************************)
EXTENDS Access, FiniteSetTheorems, WellFoundedInduction, TLAPS

-----------------------------------------------------------------------------
(* Types. *)

LEMMA EmptyTyped ==
  /\ NoSessions \in [Tokens -> SessionRecords \cup {None}]
  /\ NoUsers \in [Names -> Accounts \cup {None}]
BY DEF NoSessions, NoUsers

LEMMA TimesTyped ==
  ASSUME NEW r \in BOOLEAN
  PROVE  Idle[r] \in Nat /\ Life[r] \in Nat /\ Idle[r] > 0 /\ Life[r] > 0
BY SessionsAssumption

LEMMA NewTyped ==
  ASSUME SessionsTypeOK, NEW n \in Names, NEW role \in ValidRoles, NEW r \in BOOLEAN
  PROVE  Session(n, role, r) \in SessionRecords
BY TimesTyped DEF SessionsTypeOK, Session, SessionRecords

LEMMA SlidTyped ==
  ASSUME SessionsTypeOK, NEW s \in SessionRecords
  PROVE  Slid(s) \in SessionRecords
<1>1. s.remember \in BOOLEAN /\ s.maxAt \in Nat
  BY DEF SessionRecords
<1>2. Earlier(clock + Idle[s.remember], s.maxAt) \in Nat
  BY <1>1, TimesTyped DEF SessionsTypeOK, Earlier
<1> QED BY <1>2 DEF Slid, SessionRecords

LEMMA SavedTyped ==
  ASSUME SessionsTypeOK, sessions' \in [Tokens -> SessionRecords \cup {None}], SaveSessions
  PROVE  sessionsFile' \in [Tokens -> SessionRecords \cup {None}] /\ faulty' \in BOOLEAN
BY EmptyTyped DEF SessionsTypeOK, SaveSessions, Written

LEMMA UsersSavedTyped ==
  ASSUME SessionsTypeOK, users' \in [Names -> Accounts \cup {None}], SaveUsers
  PROVE  usersFile' \in [Names -> Accounts \cup {None}]
BY EmptyTyped DEF SessionsTypeOK, SaveUsers, Written

LEMMA IssueTyped ==
  ASSUME SessionsTypeOK, NEW n \in Names, NEW role \in ValidRoles, NEW r \in BOOLEAN,
         IssueSession(n, role, r), UNCHANGED <<clock, token>>,
         users' \in [Names -> Accounts \cup {None}], usersFile' \in [Names -> Accounts \cup {None}]
  PROVE  SessionsTypeOK'
<1>1. issued + 1 \in Tokens /\ issued' \in 0 .. MaxTokens
  BY SessionsAssumption DEF SessionsTypeOK, IssueSession, Tokens
<1>2. sessions' \in [Tokens -> SessionRecords \cup {None}]
  BY <1>1, NewTyped DEF SessionsTypeOK, IssueSession
<1>3. sessionsFile' \in [Tokens -> SessionRecords \cup {None}] /\ faulty' \in BOOLEAN
  BY <1>2, SavedTyped DEF IssueSession
<1>4. /\ issuedAt' \in [Tokens -> Nat] /\ remembered' \in [Tokens -> BOOLEAN]
      /\ lastUse' \in [Tokens -> Nat] /\ ended' \subseteq Tokens
  BY <1>1 DEF SessionsTypeOK, IssueSession
<1> QED BY <1>1, <1>2, <1>3, <1>4 DEF SessionsTypeOK

LEMMA LookupTyped ==
  ASSUME SessionsTypeOK, NEW t \in Tokens, NEW touch \in BOOLEAN, LookupSession(t, touch)
  PROVE  /\ sessions' \in [Tokens -> SessionRecords \cup {None}]
         /\ sessionsFile' \in [Tokens -> SessionRecords \cup {None}]
         /\ faulty' \in BOOLEAN /\ lastUse' \in [Tokens -> Nat]
<1>1. sessions[t] # None => sessions[t] \in SessionRecords
  BY DEF SessionsTypeOK
<1>2. CASE /\ Live(sessions[t])
           /\ sessions' = [sessions EXCEPT ![t] = Slid(@)]
           /\ SaveSessions
           /\ lastUse' = [lastUse EXCEPT ![t] = clock]
  <2>1. sessions' \in [Tokens -> SessionRecords \cup {None}]
    BY <1>1, <1>2, SlidTyped DEF SessionsTypeOK, Live
  <2> QED BY <1>2, <2>1, SavedTyped DEF SessionsTypeOK
<1>3. CASE Removed(t) /\ UNCHANGED lastUse
  <2>1. sessions' \in [Tokens -> SessionRecords \cup {None}]
    BY <1>3 DEF SessionsTypeOK, Removed
  <2> QED BY <1>3, <2>1, SavedTyped DEF SessionsTypeOK, Removed
<1>4. CASE UNCHANGED <<sessions, sessionsFile, faulty, lastUse>>
  BY <1>4 DEF SessionsTypeOK
<1> QED BY <1>2, <1>3, <1>4 DEF LookupSession

LEMMA RoleTyped ==
  ASSUME NEW wanted
  PROVE  SignupRole(wanted) \in ValidRoles
BY DEF SignupRole, ValidRoles

LEMMA SessionsTypeInvariant == SessionsTypeOK /\ [Next]_vars => SessionsTypeOK'
<1> SUFFICES ASSUME SessionsTypeOK, [Next]_vars PROVE SessionsTypeOK'
  OBVIOUS
<1>1. ASSUME NEW n \in Names, NEW r \in Remembers, Login(n, r) PROVE SessionsTypeOK'
  <2>1. r \in BOOLEAN /\ users[n] \in Accounts
    BY <1>1, SessionsAssumption DEF SessionsTypeOK, Login
  <2>2. users' \in [Names -> Accounts \cup {None}]
    BY <1>1, <2>1 DEF SessionsTypeOK, Login, Accounts
  <2>3. usersFile' \in [Names -> Accounts \cup {None}]
    BY <1>1, <2>2, UsersSavedTyped DEF SessionsTypeOK, Login
  <2>4. users[n].role \in ValidRoles
    BY <2>1 DEF Accounts
  <2> QED BY <1>1, <2>1, <2>2, <2>3, <2>4, IssueTyped DEF Login
<1>2. ASSUME NEW n \in Names, NEW r \in Remembers, NEW w \in Wanted, Register(n, w, r)
      PROVE  SessionsTypeOK'
  <2>1. r \in BOOLEAN /\ SignupRole(w) \in ValidRoles
    BY SessionsAssumption, RoleTyped
  <2>2. users' \in [Names -> Accounts \cup {None}]
    BY <1>2, <2>1 DEF SessionsTypeOK, Register, Accounts
  <2>3. usersFile' \in [Names -> Accounts \cup {None}]
    BY <1>2, <2>2, UsersSavedTyped DEF Register
  <2> QED BY <1>2, <2>1, <2>2, <2>3, IssueTyped DEF Register
<1>3. ASSUME NEW h \in Handlers, NEW t \in Tokens, Touch(h, t) PROVE SessionsTypeOK'
  BY <1>3, LookupTyped DEF SessionsTypeOK, Touch, LookupSession, account
<1>4. ASSUME NEW h \in Handlers, NEW slides \in BOOLEAN, Check(h, slides) PROVE SessionsTypeOK'
  <2>1. token[h] \in Tokens
    BY <1>4 DEF SessionsTypeOK, Check
  <2> QED BY <1>4, <2>1, LookupTyped DEF SessionsTypeOK, Check, LookupSession, account, Done
<1>5. ASSUME NEW h \in Handlers, Logout(h) PROVE SessionsTypeOK'
  <2>1. token[h] \in Tokens
    BY <1>5 DEF SessionsTypeOK, Logout
  <2>2. sessions' \in [Tokens -> SessionRecords \cup {None}]
    BY <1>5, <2>1 DEF SessionsTypeOK, Logout, Removed
  <2>3. sessionsFile' \in [Tokens -> SessionRecords \cup {None}] /\ faulty' \in BOOLEAN
    BY <1>5, <2>2, SavedTyped DEF SessionsTypeOK, Logout, Removed
  <2> QED BY <1>5, <2>1, <2>2, <2>3 DEF SessionsTypeOK, Logout, account, Done
<1>6. CASE Tick
  BY <1>6 DEF SessionsTypeOK, Tick, account, history
<1>7. CASE Restart
  BY <1>7 DEF SessionsTypeOK, Restart
<1>8. CASE UNCHANGED vars
  BY <1>8 DEF SessionsTypeOK, vars
<1> QED BY <1>1, <1>2, <1>3, <1>4, <1>5, <1>6, <1>7, <1>8 DEF Next

\* Every variable of Sessions keeps its type.
THEOREM SessionsTypeCorrect == Spec => []SessionsTypeOK
<1>1. Init => SessionsTypeOK
  <2> SUFFICES ASSUME Init PROVE SessionsTypeOK
    OBVIOUS
  <2>1. users \in [Names -> Accounts \cup {None}]
    <3>1. [role |-> "data_steward", legacy |-> TRUE] \in Accounts
      BY DEF Accounts, ValidRoles
    <3> QED BY <3>1, EmptyTyped DEF Init
  <2>2. issued \in 0 .. MaxTokens
    BY SessionsAssumption DEF Init
  <2>3. /\ token \in [Handlers -> Tokens \cup {0}] /\ issuedAt \in [Tokens -> Nat]
        /\ remembered \in [Tokens -> BOOLEAN] /\ lastUse \in [Tokens -> Nat]
    BY DEF Init
  <2> QED BY <2>1, <2>2, <2>3, EmptyTyped DEF Init, SessionsTypeOK
<1> QED BY <1>1, SessionsTypeInvariant, PTL DEF Spec

-----------------------------------------------------------------------------
(* Sessions end, and last. *)

\* What a stored session says of its times is true of its history.
Faithful(s, t) ==
  s # None =>
    /\ t <= issued
    /\ s.remember = remembered[t]
    /\ s.maxAt = issuedAt[t] + Life[remembered[t]]
    /\ s.idleAt <= lastUse[t] + Idle[remembered[t]]

\* While the files are written, a session is there as it was saved, but for one
\* that is over; one that was logged out is not there; and any other is over, or
\* its window is that of its last use, as far as its life goes.
Undamaged(t) ==
  /\ sessions[t] = sessionsFile[t] \/ (sessions[t] = None /\ ~Live(sessionsFile[t]))
  /\ t \in ended => sessions[t] = None
  /\ t <= issued /\ t \notin ended =>
       \/ ~WithinLife(t)
       \/ /\ sessions[t] # None
          /\ \/ sessions[t].idleAt >= lastUse[t] + Idle[remembered[t]]
             \/ sessions[t].idleAt >= sessions[t].maxAt

SInv ==
  /\ \A t \in Tokens : /\ Faithful(sessions[t], t)
                       /\ Faithful(sessionsFile[t], t)
                       /\ lastUse[t] <= clock
                       /\ ~faulty => Undamaged(t)
  /\ \A t \in ended : t <= issued
  /\ \A h \in Handlers : token[h] <= issued

\* A session that is live is within its life.
LEMMA LiveWithin ==
  ASSUME SessionsTypeOK, NEW t \in Tokens, NEW s \in SessionRecords \cup {None},
         Faithful(s, t), Live(s)
  PROVE  WithinLife(t)
<1>1. s \in SessionRecords /\ s.idleAt \in Nat /\ s.maxAt \in Nat
  BY DEF Live, SessionRecords
<1>2. remembered[t] \in BOOLEAN /\ lastUse[t] \in Nat /\ issuedAt[t] \in Nat /\ clock \in Nat
  BY DEF SessionsTypeOK
<1>3. Idle[remembered[t]] \in Nat /\ Life[remembered[t]] \in Nat
  BY <1>2, TimesTyped
<1> QED BY <1>1, <1>2, <1>3 DEF Faithful, Live, WithinLife

\* What is not live is over.
LEMMA DeadBeyond ==
  ASSUME SessionsTypeOK, NEW t \in Tokens, Faithful(sessions[t], t), Undamaged(t),
         t <= issued, t \notin ended, ~Live(sessions[t])
  PROVE  ~WithinLife(t)
<1> SUFFICES ASSUME WithinLife(t) PROVE FALSE
  OBVIOUS
<1>1. sessions[t] # None
  BY DEF Undamaged
<1>2. sessions[t] \in SessionRecords /\ sessions[t].idleAt \in Nat /\ sessions[t].maxAt \in Nat
  BY <1>1 DEF SessionsTypeOK, SessionRecords
<1>3. remembered[t] \in BOOLEAN /\ lastUse[t] \in Nat /\ issuedAt[t] \in Nat /\ clock \in Nat
  BY DEF SessionsTypeOK
<1>4. Idle[remembered[t]] \in Nat /\ Life[remembered[t]] \in Nat
  BY <1>3, TimesTyped
<1> QED BY <1>1, <1>2, <1>3, <1>4 DEF Faithful, Live, WithinLife, Undamaged

\* A save leaves in the file what is in memory, what was in it, or nothing.
LEMMA SavedFaithful ==
  ASSUME SessionsTypeOK, SaveSessions, NEW t \in Tokens,
         sessions' \in [Tokens -> SessionRecords \cup {None}]
  PROVE  /\ sessionsFile'[t] \in {sessions'[t], sessionsFile[t], None}
         /\ ~faulty' => ~faulty /\ sessionsFile' = sessions'
BY DEF SessionsTypeOK, SaveSessions, Written, NoSessions

LEMMA IssueKeeps ==
  ASSUME SessionsTypeOK, SInv, NEW n \in Names, NEW role \in ValidRoles, NEW r \in BOOLEAN,
         IssueSession(n, role, r), UNCHANGED <<clock, token>>
  PROVE  SInv'
<1> DEFINE new == issued + 1
<1>1. new \in Tokens /\ issued' = new /\ issued \in Nat /\ clock \in Nat
  BY SessionsAssumption DEF SessionsTypeOK, IssueSession, Tokens
<1>2. Session(n, role, r) \in SessionRecords /\ Session(n, role, r) # None
  BY NewTyped, NoneAssumption
<1>3. /\ sessions' = [sessions EXCEPT ![new] = Session(n, role, r)]
      /\ issuedAt' = [issuedAt EXCEPT ![new] = clock]
      /\ remembered' = [remembered EXCEPT ![new] = r]
      /\ lastUse' = [lastUse EXCEPT ![new] = clock]
      /\ ended' = ended /\ clock' = clock /\ SaveSessions
  BY DEF IssueSession
<1>4. sessions' \in [Tokens -> SessionRecords \cup {None}]
  BY <1>1, <1>2, <1>3 DEF SessionsTypeOK
<1>5. new \notin ended /\ sessions[new] = None /\ sessionsFile[new] = None
  BY <1>1 DEF SInv, Faithful
<1>6. Idle[r] \in Nat /\ Life[r] \in Nat
  BY TimesTyped
<1>7. ASSUME NEW t \in Tokens
      PROVE  /\ Faithful(sessions[t], t)' /\ Faithful(sessionsFile[t], t)'
             /\ (lastUse[t] <= clock)' /\ (~faulty => Undamaged(t))'
  <2>1. CASE t = new
    <3>1. sessions'[t] = Session(n, role, r) /\ issuedAt'[t] = clock /\ remembered'[t] = r
            /\ lastUse'[t] = clock
      BY <2>1, <1>3, <1>1 DEF SessionsTypeOK
    <3>2. Faithful(sessions[t], t)'
      BY <3>1, <1>1, <1>6, <2>1 DEF Faithful, Session
    <3>3. sessionsFile'[t] \in {sessions'[t], None}
      BY <1>3, <1>4, <1>5, <2>1, SavedFaithful
    <3>4. Faithful(sessionsFile[t], t)'
      BY <3>2, <3>3 DEF Faithful
    <3>5. (~faulty => Undamaged(t))'
      BY <3>1, <1>1, <1>2, <1>3, <1>4, <1>5, <1>6, <2>1, SavedFaithful DEF Undamaged, Session
    <3> QED BY <3>1, <3>2, <3>4, <3>5, <1>1, <1>3
  <2>2. CASE t # new
    <3>1. /\ sessions'[t] = sessions[t] /\ issuedAt'[t] = issuedAt[t]
          /\ remembered'[t] = remembered[t] /\ lastUse'[t] = lastUse[t]
      BY <2>2, <1>3, <1>1 DEF SessionsTypeOK
    <3>2. sessionsFile'[t] \in {sessions[t], sessionsFile[t], None}
      BY <3>1, <1>3, <1>4, SavedFaithful
    <3>3. Faithful(sessions[t], t)' /\ Faithful(sessionsFile[t], t)'
      BY <3>1, <3>2, <1>1 DEF SInv, Faithful, Tokens
    <3>4. ~faulty' => Undamaged(t)'
      <4> SUFFICES ASSUME ~faulty' PROVE Undamaged(t)'
        OBVIOUS
      <4>1. Undamaged(t) /\ sessionsFile'[t] = sessions'[t]
        BY <1>3, <1>4, SavedFaithful DEF SInv
      <4>2. t <= issued' => t <= issued
        BY <1>1, <2>2 DEF Tokens
      <4> QED BY <4>1, <4>2, <3>1, <1>3 DEF Undamaged, WithinLife
    <3> QED BY <3>1, <3>3, <3>4, <1>3 DEF SInv
  <2> QED BY <2>1, <2>2
<1>8. (\A t \in ended : t <= issued)' /\ (\A h \in Handlers : token[h] <= issued)'
  BY <1>1, <1>3 DEF SInv, SessionsTypeOK, Tokens
<1> QED BY <1>7, <1>8 DEF SInv

LEMMA LookupKeeps ==
  ASSUME SessionsTypeOK, SInv, NEW u \in Tokens, NEW touch \in BOOLEAN, LookupSession(u, touch),
         UNCHANGED <<clock, issued>>, NEW tokens, token' = tokens,
         \A h \in Handlers : tokens[h] <= issued
  PROVE  SInv'
<1> DEFINE Unmoved == UNCHANGED <<clock, issued, issuedAt, remembered, ended>>
<1>0. Unmoved /\ clock \in Nat
  BY DEF LookupSession, SessionsTypeOK
<1>1. CASE UNCHANGED <<sessions, sessionsFile, faulty, lastUse>>
  <2>1. \A t \in Tokens : /\ Faithful(sessions[t], t)' /\ Faithful(sessionsFile[t], t)'
                          /\ (lastUse[t] <= clock)' /\ (~faulty => Undamaged(t))'
    BY <1>0, <1>1 DEF SInv, Faithful, Undamaged, WithinLife, Live
  <2> QED BY <2>1, <1>0, <1>1 DEF SInv
<1>2. CASE /\ Live(sessions[u])
           /\ sessions' = [sessions EXCEPT ![u] = Slid(@)]
           /\ SaveSessions
           /\ lastUse' = [lastUse EXCEPT ![u] = clock]
  <2>1. sessions[u] \in SessionRecords /\ Faithful(sessions[u], u)
    BY <1>2 DEF SessionsTypeOK, Live, SInv
  <2>2. Slid(sessions[u]) \in SessionRecords /\ Slid(sessions[u]) # None
    BY <2>1, SlidTyped, NoneAssumption
  <2>3. sessions' \in [Tokens -> SessionRecords \cup {None}]
    BY <1>2, <2>2 DEF SessionsTypeOK
  <2>4. /\ sessions[u].remember = remembered[u] /\ remembered[u] \in BOOLEAN
        /\ sessions[u].maxAt \in Nat /\ issuedAt[u] \in Nat /\ lastUse[u] \in Nat
        /\ Idle[remembered[u]] \in Nat /\ Life[remembered[u]] \in Nat
    BY <2>1, TimesTyped, NoneAssumption DEF Faithful, SessionsTypeOK, SessionRecords
  <2>5. ASSUME NEW t \in Tokens
        PROVE  /\ Faithful(sessions[t], t)' /\ Faithful(sessionsFile[t], t)'
               /\ (lastUse[t] <= clock)' /\ (~faulty => Undamaged(t))'
    <3>1. CASE t = u
      <4> DEFINE s == sessions[u]
      <4>1. sessions'[t] = Slid(s) /\ lastUse'[t] = clock
        BY <1>2, <3>1 DEF SessionsTypeOK
      <4>2. /\ Slid(s).remember = s.remember /\ Slid(s).maxAt = s.maxAt
            /\ Slid(s).idleAt = Earlier(clock + Idle[s.remember], s.maxAt)
        BY <2>1 DEF Slid, SessionRecords
      <4>3. s # None
        BY <2>1, NoneAssumption
      <4>4. Faithful(sessions[t], t)'
        BY <4>1, <4>2, <4>3, <3>1, <2>1, <2>4, <1>0 DEF Faithful, Earlier
      <4>5. sessionsFile'[t] \in {sessions'[t], sessionsFile[t], None}
        BY <1>2, <2>3, SavedFaithful
      <4>6. Faithful(sessionsFile[t], t)'
        <5>1. CASE sessionsFile'[t] \in {sessions'[t], None}
          BY <5>1, <4>4 DEF Faithful
        <5>2. CASE sessionsFile'[t] = sessionsFile[t] /\ sessionsFile[t] # None
          <6>1. Faithful(sessionsFile[t], t) /\ lastUse[t] <= clock
            BY DEF SInv
          <6>2. sessionsFile[t].idleAt \in Nat
            BY <5>2 DEF SessionsTypeOK, SessionRecords
          <6> QED BY <5>2, <6>1, <6>2, <4>1, <3>1, <2>4, <1>0 DEF Faithful
        <5> QED BY <5>1, <5>2, <4>5
      <4>7. ~faulty' => Undamaged(t)'
        <5> SUFFICES ASSUME ~faulty' PROVE Undamaged(t)'
          OBVIOUS
        <5>1. ~faulty /\ sessionsFile' = sessions'
          BY <1>2, <2>3, SavedFaithful
        <5>2. t \notin ended
          BY <5>1, <3>1, <4>3 DEF SInv, Undamaged
        <5>3. sessions'[t].idleAt >= lastUse'[t] + Idle[remembered[t]]
                \/ sessions'[t].idleAt >= sessions'[t].maxAt
          BY <4>1, <4>2, <3>1, <2>4, <1>0 DEF Earlier
        <5> QED BY <5>1, <5>2, <5>3, <4>1, <2>2, <1>0 DEF Undamaged
      <4> QED BY <4>1, <4>4, <4>6, <4>7, <1>0
    <3>2. CASE t # u
      <4>1. sessions'[t] = sessions[t] /\ lastUse'[t] = lastUse[t]
        BY <1>2, <3>2 DEF SessionsTypeOK
      <4>2. sessionsFile'[t] \in {sessions[t], sessionsFile[t], None}
        BY <4>1, <1>2, <2>3, SavedFaithful
      <4>3. Faithful(sessions[t], t)' /\ Faithful(sessionsFile[t], t)'
        BY <4>1, <4>2, <1>0 DEF SInv, Faithful
      <4>4. ~faulty' => Undamaged(t)'
        BY <4>1, <1>0, <1>2, <2>3, SavedFaithful DEF SInv, Undamaged, WithinLife
      <4> QED BY <4>1, <4>3, <4>4, <1>0 DEF SInv
    <3> QED BY <3>1, <3>2
  <2> QED BY <2>5, <1>0 DEF SInv
<1>3. CASE ~Live(sessions[u]) /\ Removed(u) /\ UNCHANGED lastUse
  <2>1. sessions' \in [Tokens -> SessionRecords \cup {None}] /\ SaveSessions
    BY <1>3 DEF SessionsTypeOK, Removed
  <2>2. ASSUME NEW t \in Tokens
        PROVE  /\ Faithful(sessions[t], t)' /\ Faithful(sessionsFile[t], t)'
               /\ (lastUse[t] <= clock)' /\ (~faulty => Undamaged(t))'
    <3>1. sessions'[t] = IF t = u THEN None ELSE sessions[t]
      BY <1>3 DEF SessionsTypeOK, Removed
    <3>2. sessionsFile'[t] \in {sessions'[t], sessionsFile[t], None}
      BY <2>1, SavedFaithful
    <3>3. Faithful(sessions[t], t)' /\ Faithful(sessionsFile[t], t)'
      BY <3>1, <3>2, <1>0, <1>3 DEF SInv, Faithful
    <3>4. ~faulty' => Undamaged(t)'
      <4> SUFFICES ASSUME ~faulty' PROVE Undamaged(t)'
        OBVIOUS
      <4>1. Undamaged(t) /\ sessionsFile'[t] = sessions'[t] /\ Faithful(sessions[t], t)
        BY <2>1, SavedFaithful DEF SInv
      <4>2. t = u /\ t <= issued /\ t \notin ended => ~WithinLife(t)
        BY <4>1, <1>3, DeadBeyond
      <4> QED BY <4>1, <4>2, <3>1, <1>0, <1>3 DEF Undamaged, WithinLife
    <3> QED BY <3>3, <3>4, <1>0, <1>3 DEF SInv
  <2> QED BY <2>2, <1>0 DEF SInv
<1> QED BY <1>1, <1>2, <1>3 DEF LookupSession

LEMMA SInvInvariant == SessionsTypeOK /\ SInv /\ [Next]_vars => SInv'
<1> SUFFICES ASSUME SessionsTypeOK, SInv, [Next]_vars PROVE SInv'
  OBVIOUS
<1>0. issued \in Nat /\ clock \in Nat
  BY SessionsAssumption DEF SessionsTypeOK
<1>1. ASSUME NEW n \in Names, NEW r \in Remembers, Login(n, r) PROVE SInv'
  <2>1. r \in BOOLEAN /\ users[n].role \in ValidRoles
    BY <1>1, SessionsAssumption DEF SessionsTypeOK, Login, Accounts
  <2> QED BY <1>1, <2>1, IssueKeeps DEF Login
<1>2. ASSUME NEW n \in Names, NEW r \in Remembers, NEW w \in Wanted, Register(n, w, r)
      PROVE  SInv'
  <2>1. r \in BOOLEAN /\ SignupRole(w) \in ValidRoles
    BY SessionsAssumption, RoleTyped
  <2> QED BY <1>2, <2>1, IssueKeeps DEF Register
<1>3. ASSUME NEW h \in Handlers, NEW t \in Tokens, Touch(h, t) PROVE SInv'
  <2>1. \A g \in Handlers : [token EXCEPT ![h] = t][g] <= issued
    BY <1>3 DEF SInv, Touch, SessionsTypeOK
  <2> QED BY <1>3, <2>1, LookupKeeps DEF Touch
<1>4. ASSUME NEW h \in Handlers, NEW slides \in BOOLEAN, Check(h, slides) PROVE SInv'
  <2>1. token[h] \in Tokens
    BY <1>4 DEF SessionsTypeOK, Check
  <2>2. \A g \in Handlers : [token EXCEPT ![h] = 0][g] <= issued
    BY <1>0 DEF SInv, SessionsTypeOK
  <2> QED BY <1>4, <2>1, <2>2, LookupKeeps DEF Check, Done
<1>5. ASSUME NEW h \in Handlers, Logout(h) PROVE SInv'
  <2> DEFINE u == token[h]
  <2>1. u \in Tokens /\ u <= issued
    BY <1>5 DEF SessionsTypeOK, Logout, SInv
  <2>2. /\ ended' = ended \cup {u}
        /\ UNCHANGED <<clock, issued, issuedAt, remembered, lastUse>>
        /\ token' = [token EXCEPT ![h] = 0]
    BY <1>5 DEF Logout, Done
  <2>3. ASSUME NEW t \in Tokens
        PROVE  /\ Faithful(sessions[t], t)' /\ Faithful(sessionsFile[t], t)'
               /\ (lastUse[t] <= clock)' /\ (~faulty => Undamaged(t))'
    <3>1. CASE sessions[u] = None
      BY <3>1, <1>5, <2>1, <2>2 DEF Logout, SInv, Faithful, Undamaged, WithinLife, Live
    <3>2. CASE sessions[u] # None
      <4>1. sessions' \in [Tokens -> SessionRecords \cup {None}] /\ SaveSessions
        BY <1>5, <2>1, <3>2 DEF SessionsTypeOK, Logout, Removed
      <4>2. sessions'[t] = IF t = u THEN None ELSE sessions[t]
        BY <1>5, <3>2 DEF SessionsTypeOK, Logout, Removed
      <4>3. sessionsFile'[t] \in {sessions'[t], sessionsFile[t], None}
        BY <4>1, SavedFaithful
      <4>4. Faithful(sessions[t], t)' /\ Faithful(sessionsFile[t], t)'
        BY <4>2, <4>3, <2>2 DEF SInv, Faithful
      <4>5. ~faulty' => Undamaged(t)'
        BY <4>1, <4>2, <2>2, SavedFaithful DEF SInv, Undamaged, WithinLife
      <4> QED BY <4>4, <4>5, <2>2 DEF SInv
    <3> QED BY <3>1, <3>2
  <2>4. (\A t \in ended : t <= issued)' /\ (\A g \in Handlers : token[g] <= issued)'
    BY <2>1, <2>2, <1>0 DEF SInv, SessionsTypeOK
  <2> QED BY <2>3, <2>4 DEF SInv
<1>6. CASE Tick
  <2>1. clock' = clock + 1
        /\ UNCHANGED <<sessions, sessionsFile, token, issued, issuedAt, remembered, lastUse, ended, faulty>>
    BY <1>6 DEF Tick, history
  <2>2. ASSUME NEW t \in Tokens
        PROVE  /\ Faithful(sessions[t], t)' /\ Faithful(sessionsFile[t], t)'
               /\ (lastUse[t] <= clock)' /\ (~faulty => Undamaged(t))'
    <3>1. lastUse[t] \in Nat /\ lastUse[t] <= clock /\ issuedAt[t] \in Nat /\ remembered[t] \in BOOLEAN
      BY DEF SessionsTypeOK, SInv
    <3>2. Idle[remembered[t]] \in Nat /\ Life[remembered[t]] \in Nat
      BY <3>1, TimesTyped
    <3>3. WithinLife(t)' => WithinLife(t)
      BY <2>1, <3>1, <3>2, <1>0 DEF WithinLife
    <3>4. Live(sessionsFile[t])' => Live(sessionsFile[t])
      <4>1. sessionsFile[t] # None => sessionsFile[t].idleAt \in Nat /\ sessionsFile[t].maxAt \in Nat
        BY DEF SessionsTypeOK, SessionRecords
      <4> QED BY <4>1, <2>1, <1>0 DEF Live
    <3> QED BY <2>1, <3>1, <3>3, <3>4, <1>0 DEF SInv, Faithful, Undamaged
  <2> QED BY <2>1, <2>2 DEF SInv
<1>7. CASE Restart
  <2>1. /\ UNCHANGED <<clock, sessionsFile, issued, issuedAt, remembered, lastUse, ended, faulty>>
        /\ token' = [h \in Handlers |-> 0]
    BY <1>7 DEF Restart
  <2>2. ASSUME NEW t \in Tokens
        PROVE  /\ Faithful(sessions[t], t)' /\ Faithful(sessionsFile[t], t)'
               /\ (lastUse[t] <= clock)' /\ (~faulty => Undamaged(t))'
    <3>1. sessions'[t] = IF Live(sessionsFile[t]) THEN sessionsFile[t] ELSE None
      BY <1>7 DEF Restart
    <3>2. Faithful(sessions[t], t)' /\ Faithful(sessionsFile[t], t)'
      BY <3>1, <2>1 DEF SInv, Faithful
    <3>3. ~faulty => Undamaged(t)'
      <4> SUFFICES ASSUME ~faulty PROVE Undamaged(t)'
        OBVIOUS
      <4>1. Undamaged(t) /\ Faithful(sessions[t], t)
        BY DEF SInv
      <4>2. Live(sessionsFile[t]) => sessions[t] = sessionsFile[t]
        BY <4>1 DEF Undamaged
      <4>3. ~Live(sessionsFile[t]) => ~Live(sessions[t])
        BY <4>1 DEF Undamaged, Live
      <4>4. t <= issued /\ t \notin ended /\ ~Live(sessionsFile[t]) => ~WithinLife(t)
        BY <4>1, <4>3, DeadBeyond
      <4>5. UNCHANGED WithinLife(t) /\ UNCHANGED Live(sessionsFile[t])
        BY <2>1 DEF WithinLife, Live
      <4> QED BY <4>1, <4>2, <4>4, <4>5, <3>1, <2>1 DEF Undamaged
    <3> QED BY <3>2, <3>3, <2>1 DEF SInv
  <2> QED BY <2>1, <2>2, <1>0 DEF SInv
<1>8. CASE UNCHANGED vars
  <2>1. \A t \in Tokens : /\ Faithful(sessions[t], t)' /\ Faithful(sessionsFile[t], t)'
                          /\ (lastUse[t] <= clock)' /\ (~faulty => Undamaged(t))'
    BY <1>8 DEF vars, SInv, Faithful, Undamaged, WithinLife, Live
  <2> QED BY <2>1, <1>8 DEF vars, SInv
<1> QED BY <1>1, <1>2, <1>3, <1>4, <1>5, <1>6, <1>7, <1>8 DEF Next

LEMMA SessionsInvariant == Spec => [](SessionsTypeOK /\ SInv)
<1>1. Init => SInv
  <2> SUFFICES ASSUME Init PROVE SInv
    OBVIOUS
  <2>1. \A t \in Tokens : /\ sessions[t] = None /\ sessionsFile[t] = None /\ lastUse[t] = 0
                          /\ ~(t <= issued)
    BY DEF Init, NoSessions, Tokens
  <2>2. \A t \in Tokens : Faithful(sessions[t], t) /\ Faithful(sessionsFile[t], t)
    BY <2>1 DEF Faithful
  <2>3. \A t \in Tokens : Undamaged(t)
    BY <2>1 DEF Undamaged, Init
  <2> QED BY <2>1, <2>2, <2>3 DEF SInv, Init
<1> QED BY <1>1, SInvInvariant, SessionsTypeCorrect, PTL DEF Spec

\* A handler acts for a session only within its life and its window, and after
\* its logout only if a file was not written.
THEOREM SessionsDoEnd == Spec => SessionsEnd
<1>1. SessionsTypeOK /\ SInv =>
        \A h \in Handlers : Asks(h) /\ Accepted(h) =>
          /\ WithinLife(token[h])
          /\ token[h] \in ended => faulty
  <2> SUFFICES ASSUME SessionsTypeOK, SInv, NEW h \in Handlers, Asks(h), Accepted(h)
               PROVE  WithinLife(token[h]) /\ (token[h] \in ended => faulty)
    OBVIOUS
  <2>1. token[h] \in Tokens
    BY DEF Asks, Check, SessionsTypeOK
  <2>2. sessions[token[h]] \in SessionRecords \cup {None} /\ Faithful(sessions[token[h]], token[h])
    BY <2>1 DEF SessionsTypeOK, SInv
  <2>3. WithinLife(token[h])
    BY <2>1, <2>2, LiveWithin DEF Accepted
  <2>4. token[h] \in ended => faulty
    BY <2>1 DEF SInv, Undamaged, Accepted, Live
  <2> QED BY <2>3, <2>4
<1> QED BY <1>1, SessionsInvariant, PTL DEF SessionsEnd

\* Who keeps using a session keeps it, as long as the files are written.
THEOREM SessionsDoLast == Spec => SessionsLast
<1>1. SessionsTypeOK /\ SInv =>
        \A h \in Handlers : Asks(h) /\ ~Accepted(h) /\ ~faulty /\ token[h] \notin ended =>
          ~WithinLife(token[h])
  <2> SUFFICES ASSUME SessionsTypeOK, SInv, NEW h \in Handlers, Asks(h), ~Accepted(h), ~faulty,
                      token[h] \notin ended
               PROVE  ~WithinLife(token[h])
    OBVIOUS
  <2>1. token[h] \in Tokens /\ token[h] <= issued
    BY DEF Asks, Check, SessionsTypeOK, SInv
  <2> QED BY <2>1, DeadBeyond DEF SInv, Accepted
<1> QED BY <1>1, SessionsInvariant, PTL DEF SessionsLast

-----------------------------------------------------------------------------
(* Decisions on governance requests. *)

\* The policy that is applied is one that was selected.
LEMMA AppliedIsSelected ==
  ASSUME NEW q \in GovernanceRequests, AppliedPolicy(q) # "none", q.policies # {}
  PROVE  AppliedPolicy(q) \in q.policies
<1> DEFINE selected == q.policies \cap DOMAIN PolicyPrecedence
           First(p) == p \in selected
                         /\ \A o \in selected : PolicyPrecedence[p] >= PolicyPrecedence[o]
<1>1. selected # {}
  BY DEF AppliedPolicy
<1>2. \E p \in selected : First(p)
  BY <1>1 DEF PolicyPrecedence
<1>3. AppliedPolicy(q) = CHOOSE p \in selected : \A o \in selected :
                           PolicyPrecedence[p] >= PolicyPrecedence[o]
  BY <1>1 DEF AppliedPolicy
<1> QED BY <1>2, <1>3

LEMMA RequestsChanged ==
  ASSUME NEW q \in GovernanceRequests
  PROVE  /\ [q EXCEPT !.apply = TRUE] \in GovernanceRequests
         /\ [q EXCEPT !.owner = FALSE] \in GovernanceRequests
         /\ [q EXCEPT !.apply = TRUE].apply = TRUE
         /\ [q EXCEPT !.owner = FALSE].owner = FALSE
         /\ \A f \in {"role", "operation", "source", "target", "policies", "owner"} :
              [q EXCEPT !.apply = TRUE][f] = q[f]
         /\ \A f \in {"role", "operation", "source", "target", "policies", "apply"} :
              [q EXCEPT !.owner = FALSE][f] = q[f]
BY DEF GovernanceRequests

\* Asking for it as an apply leaves the role and the jurisdiction as they are,
\* and only adds approvers.
LEMMA AsApply ==
  ASSUME NEW q \in GovernanceRequests, NEW p \in GovernanceRequests, p.apply = TRUE,
         \A f \in {"role", "operation", "source", "target", "policies", "owner"} : p[f] = q[f]
  PROVE  /\ RoleAllows(p) = RoleAllows(q)
         /\ JurisdictionRule(p) = JurisdictionRule(q)
         /\ Approvers(q) \subseteq Approvers(p)
         /\ RuleApprovers(q) = RuleApprovers(p)
<1>1. p.role = q.role /\ p.operation = q.operation /\ p.source = q.source
        /\ p.target = q.target /\ p.owner = q.owner
  OBVIOUS
<1>2. RoleAllows(p) = RoleAllows(q)
  BY <1>1 DEF RoleAllows
<1>3. JurisdictionRule(p) = JurisdictionRule(q)
  BY <1>1 DEF JurisdictionRule
<1>4. Approvers(q) \subseteq Approvers(p)
  BY <1>1, <1>3 DEF Approvers, RuleApprovers, DestructiveApprovers, ApplyApprovers, OwnerApprovers
<1> QED BY <1>2, <1>3, <1>4 DEF RuleApprovers

\* Whether the owner is named does not matter: who destroys always needs it.
LEMMA OwnerIsAsked ==
  ASSUME NEW q \in GovernanceRequests, NEW p \in GovernanceRequests,
         \A f \in {"role", "operation", "source", "target", "policies", "apply"} : p[f] = q[f]
  PROVE  EvaluateGovernance(p) = EvaluateGovernance(q)
<1>1. p.role = q.role /\ p.operation = q.operation /\ p.source = q.source
        /\ p.target = q.target /\ p.policies = q.policies /\ p.apply = q.apply
  OBVIOUS
<1>2. RoleAllows(p) = RoleAllows(q)
  BY <1>1 DEF RoleAllows
<1>3. JurisdictionRule(p) = JurisdictionRule(q)
  BY <1>1 DEF JurisdictionRule
<1>4. AppliedPolicy(p) = AppliedPolicy(q)
  BY <1>1 DEF AppliedPolicy
<1>5. RuleApprovers(p) = RuleApprovers(q)
  BY <1>3 DEF RuleApprovers
<1>6. Approvers(p) = Approvers(q)
  BY <1>1, <1>5 DEF Approvers, DestructiveApprovers, ApplyApprovers, OwnerApprovers
<1> QED BY <1>1, <1>2, <1>3, <1>4, <1>5, <1>6 DEF EvaluateGovernance

LEMMA DecisionsStrict == DecisionsAreStrict
<1> SUFFICES ASSUME NEW q \in GovernanceRequests
             PROVE  LET r == EvaluateGovernance(q)
                        more == EvaluateGovernance([q EXCEPT !.apply = TRUE])
                        less == EvaluateGovernance([q EXCEPT !.owner = FALSE])
                    IN
      /\ r.decision = "block" <=>
           \/ q.operation \notin AllowedOperations[RoleProfile(q.role)]
           \/ q.operation = "migration" /\ q.source = "IN" /\ q.target = "AE"
      /\ r.decision = "allow" => ~r.hitl /\ ~q.apply /\ q.operation \notin Destructive
      /\ r.decision = "review_required" => r.hitl /\ r.approvers # {}
      /\ r.decision = "review_required" /\ q.operation \in Destructive =>
           {"security_officer", "contract_owner"} \subseteq r.approvers
      /\ Strictness(more.decision) >= Strictness(r.decision)
      /\ r.approvers \subseteq more.approvers
      /\ less = r
      /\ \A asked \in {{}, {"viewer"}} :
           /\ r.approvers \subseteq RequiredApprovers(q, asked)
           /\ asked \subseteq RequiredApprovers(q, asked)
      /\ r.policy # "none" /\ q.policies # {} => r.policy \in q.policies
  BY DEF DecisionsAreStrict
<1> DEFINE r == EvaluateGovernance(q)
           p == [q EXCEPT !.apply = TRUE]
           more == EvaluateGovernance(p)
           rule == JurisdictionRule(q)
           reviewed == q.operation \in Destructive \/ q.apply
<1>1. /\ q.apply \in BOOLEAN /\ q.owner \in BOOLEAN
      /\ RoleAllows(q) <=> q.operation \in AllowedOperations[RoleProfile(q.role)]
  BY DEF GovernanceRequests, RoleAllows
<1>2. /\ rule.decision \in {"allow", "review_required", "block"} /\ rule.hitl \in BOOLEAN
      /\ rule.hitl <=> rule.decision # "allow"
      /\ rule.decision = "block" <=>
           q.operation = "migration" /\ q.source = "IN" /\ q.target = "AE"
      /\ rule.decision # "allow" => rule.owner = "contract_owner"
  BY DEF JurisdictionRule
<1>3. /\ r.policy = AppliedPolicy(q)
      /\ r.decision = IF ~RoleAllows(q) \/ rule.decision = "block" THEN "block"
                      ELSE IF reviewed THEN "review_required" ELSE rule.decision
      /\ r.hitl = (RoleAllows(q) /\ (rule.hitl \/ reviewed))
      /\ r.approvers = IF ~RoleAllows(q) THEN {}
                       ELSE IF rule.decision = "block" THEN RuleApprovers(q) ELSE Approvers(q)
  BY <1>1, <1>2 DEF EvaluateGovernance
<1>4. p \in GovernanceRequests /\ p.apply = TRUE
      /\ \A f \in {"role", "operation", "source", "target", "policies", "owner"} : p[f] = q[f]
  BY RequestsChanged
<1>5. /\ RoleAllows(p) = RoleAllows(q) /\ JurisdictionRule(p) = rule
      /\ Approvers(q) \subseteq Approvers(p) /\ RuleApprovers(q) = RuleApprovers(p)
  BY <1>4, AsApply
<1>6. /\ more.decision = IF ~RoleAllows(q) \/ rule.decision = "block" THEN "block"
                         ELSE "review_required"
      /\ more.approvers = IF ~RoleAllows(q) THEN {}
                          ELSE IF rule.decision = "block" THEN RuleApprovers(q) ELSE Approvers(p)
  BY <1>4, <1>5, <1>2 DEF EvaluateGovernance
<1>7. r.decision = "block" <=>
           \/ q.operation \notin AllowedOperations[RoleProfile(q.role)]
           \/ q.operation = "migration" /\ q.source = "IN" /\ q.target = "AE"
  BY <1>1, <1>2, <1>3
<1>8. r.decision = "allow" => ~r.hitl /\ ~q.apply /\ q.operation \notin Destructive
  BY <1>1, <1>2, <1>3
<1>9. r.decision = "review_required" => r.hitl /\ r.approvers # {}
  <2> SUFFICES ASSUME r.decision = "review_required" PROVE r.hitl /\ r.approvers # {}
    OBVIOUS
  <2>1. RoleAllows(q) /\ (reviewed \/ rule.decision = "review_required") /\ r.approvers = Approvers(q)
    BY <1>2, <1>3
  <2>2. CASE q.operation \in Destructive
    BY <2>1, <2>2, <1>3 DEF Approvers, DestructiveApprovers
  <2>3. CASE q.apply
    BY <2>1, <2>3, <1>3 DEF Approvers, ApplyApprovers
  <2>4. CASE rule.decision = "review_required"
    BY <2>1, <2>4, <1>2, <1>3 DEF Approvers, RuleApprovers
  <2> QED BY <2>1, <2>2, <2>3, <2>4
<1>10. r.decision = "review_required" /\ q.operation \in Destructive =>
           {"security_officer", "contract_owner"} \subseteq r.approvers
  BY <1>2, <1>3 DEF Approvers, DestructiveApprovers
<1>11. Strictness(more.decision) >= Strictness(r.decision)
  BY <1>2, <1>3, <1>6 DEF Strictness
<1>12. r.approvers \subseteq more.approvers
  BY <1>3, <1>5, <1>6
<1>13. EvaluateGovernance([q EXCEPT !.owner = FALSE]) = r
  BY RequestsChanged, OwnerIsAsked
<1>14. ASSUME NEW asked \in {{}, {"viewer"}}
       PROVE  /\ r.approvers \subseteq RequiredApprovers(q, asked)
              /\ asked \subseteq RequiredApprovers(q, asked)
  BY <1>12 DEF RequiredApprovers
<1>15. r.policy # "none" /\ q.policies # {} => r.policy \in q.policies
  BY <1>3, AppliedIsSelected
<1> QED BY <1>7, <1>8, <1>9, <1>10, <1>11, <1>12, <1>13, <1>14, <1>15

\* Every governance request is decided as strictly as its parts demand.
THEOREM GovernanceStrict == DecisionsAreStrict /\ (Spec => []GovernanceIsStrict)
<1>1. GovernanceIsStrict
  BY DecisionsStrict DEF GovernanceIsStrict
<1> QED BY <1>1, DecisionsStrict, PTL

-----------------------------------------------------------------------------
(* Calls. *)

\* What every outcome of a call to a connector has in common: its response tells
\* a dry run by the request, what did not reach the runtime claims nothing, and
\* what a gate stops does not reach it.
ConnectorOutcome(m, q, o) ==
  /\ o.response.dryRun = DryRun(q)
  /\ ~o.reached => ~o.response.applied /\ o.response.status # "ok"
  /\ o.reached => ~Blocked(m, q)

LEMMA KeptOutcome ==
  ASSUME NEW m, NEW q, NEW status \in {"blocked", "native_runtime", "needs_configuration"}
  PROVE  ConnectorOutcome(m, q, Kept(status, q))
BY DEF ConnectorOutcome, Kept, Response

LEMMA SentOutcome ==
  ASSUME NEW m, NEW q, ~Blocked(m, q),
         NEW o \in Lost(q) \cup Answered(q)
                    \cup {[reached |-> TRUE, response |-> Response("ok", q, FALSE)]}
  PROVE  ConnectorOutcome(m, q, o)
<1>1. CASE o \in Lost(q)
  BY <1>1 DEF Lost, ConnectorOutcome, Response
<1>2. CASE o \in Answered(q)
  BY <1>2 DEF Answered, ConnectorOutcome, Response
<1>3. CASE o = [reached |-> TRUE, response |-> Response("ok", q, FALSE)]
  BY <1>3 DEF ConnectorOutcome, Response
<1> QED BY <1>1, <1>2, <1>3

LEMMA ConnectorOutcomes ==
  ASSUME NEW m, NEW q, NEW o \in InvokeConnector(m, q)
  PROVE  ConnectorOutcome(m, q, o)
<1> DEFINE Stops == q.operation \notin ConnectorOperations \/ Blocked(m, q) \/ m.kind = "unknown"
<1>1. CASE Stops
  BY <1>1, KeptOutcome DEF InvokeConnector
<1>2. CASE ~Stops
  <2>1. \/ o = Kept("native_runtime", q)
        \/ o \in InvokeHTTP(m, q)
        \/ o \in InvokeProcess(m, q)
    BY <1>2 DEF InvokeConnector
  <2>2. ASSUME o \in InvokeHTTP(m, q) \/ o \in InvokeProcess(m, q)
        PROVE  \/ o = Kept("needs_configuration", q)
               \/ o \in Lost(q) \cup Answered(q)
                    \cup {[reached |-> TRUE, response |-> Response("ok", q, FALSE)]}
    BY <2>2 DEF InvokeHTTP, InvokeProcess
  <2> QED BY <1>2, <2>1, <2>2, KeptOutcome, SentOutcome
<1> QED BY <1>1, <1>2

LEMMA ConnectorsAreGated ==
  ASSUME NEW m \in Connectors, NEW q \in ConnectorCalls, NEW o \in InvokeConnector(m, q)
  PROVE  /\ o.reached /\ q.operation = "execute_action" /\ ~o.response.dryRun =>
              \E a \in m.actions :
                /\ a.id = q.action
                /\ (a.guardian => q.allowed) /\ (a.hitl => q.approved)
                /\ (a.confirm => q.confirmed)
         /\ ~o.reached => ~o.response.applied /\ o.response.status # "ok"
BY ConnectorOutcomes DEF ConnectorOutcome, Blocked, Applies, DryRun, Permits

\* What the built-in provider recommends: a human for whatever is not a scan, and
\* something for every row that says that it is risky.
LEMMA RecommendationsMade ==
  ASSUME NEW q
  PROVE  /\ \A r \in Recommendations(q) : r.operation # "metadata_scan" => r.hitl
         /\ \A e \in q.evidence : e.level \in {"critical", "high"} =>
              \E r \in Recommendations(q) : r.of = e.id /\ r.hitl
<1> DEFINE risky == {e \in q.evidence : RiskOf(e) \in {"critical", "high"}}
           Made(e) == [of |-> e.id, operation |-> IF q.archive THEN "archive" ELSE "quarantine",
                       hitl |-> TRUE, status |-> "needs_approval"]
           scan == [of |-> 0, operation |-> "metadata_scan", hitl |-> FALSE,
                    status |-> "scan_required"]
<1>1. Recommendations(q) = IF risky = {} THEN {scan} ELSE {Made(e) : e \in risky}
  BY DEF Recommendations
<1>2. \A e \in q.evidence : e.level \in {"critical", "high"} => e \in risky
  BY DEF RiskOf
<1>3. \A e \in risky : Made(e).of = e.id /\ Made(e).hitl
  OBVIOUS
<1>4. scan.operation = "metadata_scan"
  OBVIOUS
<1> HIDE DEF risky, Made, scan
<1> QED BY <1>1, <1>2, <1>3, <1>4

\* The outcomes of a call to a provider, told apart by its gates.
Failures == {[sent |-> s, response |-> Advice("failed", FALSE, {})] : s \in BOOLEAN}
Answers == {[sent |-> TRUE, response |-> Advice(s, TRUE, a)] :
              s \in {"ok", "failed", "blocked"}, a \in RuntimeAdvice}

ProviderStops(m, q) == q.task \notin m.tasks \/ q.autonomous \/ m.kind = "unknown"

LEMMA ProviderOutcomes ==
  ASSUME NEW m, NEW q
  PROVE  InvokeProvider(m, q) =
           IF ProviderStops(m, q) THEN {Unsent("blocked", {})}
           ELSE IF m.kind = "builtin"
             THEN {Unsent("ok", IF Advises(q) THEN Recommendations(q) ELSE {})}
           ELSE IF m.kind = "http" /\ m.endpoint THEN Failures \cup Answers
           ELSE {Unsent("needs_configuration", {})}
BY DEF InvokeProvider, ProviderStops, Failures, Answers

LEMMA ProvidersAreGated ==
  ASSUME NEW m \in Providers, NEW q \in ProviderCalls, NEW o \in InvokeProvider(m, q)
  PROVE  /\ o.sent => ~q.autonomous /\ q.task \in m.tasks /\ m.kind # "builtin"
         /\ o.response.prompted => o.sent
         /\ ~o.sent => \A r \in o.response.advice : r.operation # "metadata_scan" => r.hitl
         /\ o.response.status = "ok" /\ ~o.sent /\ Advises(q) =>
              \A e \in q.evidence : e.level \in {"critical", "high"} =>
                \E r \in o.response.advice : r.of = e.id /\ r.hitl
<1> DEFINE Stops == ProviderStops(m, q)
<1>1. ASSUME o \in {Unsent("blocked", {}), Unsent("needs_configuration", {})}
      PROVE  /\ o.sent = FALSE /\ o.response.prompted = FALSE /\ o.response.advice = {}
             /\ o.response.status # "ok"
  BY <1>1 DEF Unsent, Advice
<1>2. CASE Stops
  <2>1. o = Unsent("blocked", {})
    BY <1>2, ProviderOutcomes
  <2> QED BY <1>1, <2>1
<1>3. CASE ~Stops /\ m.kind = "builtin"
  <2> DEFINE advice == IF Advises(q) THEN Recommendations(q) ELSE {}
  <2>1. o = Unsent("ok", advice)
    BY <1>3, ProviderOutcomes
  <2>2. o.sent = FALSE /\ o.response.prompted = FALSE /\ o.response.advice = advice
    BY <2>1 DEF Unsent, Advice
  <2> QED BY <2>2, RecommendationsMade
<1>4. CASE ~Stops /\ m.kind = "http" /\ m.endpoint
  <2>0. ~q.autonomous /\ q.task \in m.tasks /\ m.kind # "builtin"
    BY <1>4 DEF ProviderStops
  <2>1. o \in Failures \/ o \in Answers
    BY <1>4, ProviderOutcomes
  <2>2. CASE o \in Failures
    <3>1. /\ o.response.prompted = FALSE /\ o.response.advice = {}
          /\ o.response.status = "failed"
      BY <2>2 DEF Failures, Advice
    <3> QED BY <3>1, <2>0
  <2>3. CASE o \in Answers
    <3>1. o.sent = TRUE
      BY <2>3 DEF Answers, Advice
    <3> QED BY <3>1, <2>0
  <2> QED BY <2>1, <2>2, <2>3
<1>5. CASE ~Stops /\ m.kind # "builtin" /\ ~(m.kind = "http" /\ m.endpoint)
  <2>1. o = Unsent("needs_configuration", {})
    BY <1>5, ProviderOutcomes
  <2> QED BY <1>1, <2>1
<1> QED BY <1>2, <1>3, <1>4, <1>5

\* For any manifests and requests, nothing is carried out by a runtime but what
\* its manifest declares and the request may do, no response claims more than
\* happened, and every risky row of evidence is given to a human.
THEOREM CallsGated == RuntimesAreGated /\ (Spec => []CallsAreGated)
<1>1. RuntimesAreGated
  BY ConnectorsAreGated, ProvidersAreGated DEF RuntimesAreGated
<1>2. CallsAreGated
  BY <1>1 DEF CallsAreGated
<1> QED BY <1>1, <1>2, PTL

-----------------------------------------------------------------------------
(* Sums over finite sets.  A sum is a fold over the set in an order that is  *)
(* not known; what is needed of it is proved by induction on the size of the *)
(* set, which is induction over a set of numbers that holds 0 and every next *)
(* number.                                                                   *)

LEMMA SetInduction ==
  ASSUME NEW S, 0 \in S, \A n \in Nat : n \in S => n + 1 \in S
  PROVE  Nat \subseteq S
<1> DEFINE R == {ss \in Nat \X Nat : ss[1] < ss[2]}
<1>1. IsWellFoundedOn(R, Nat)
  BY NatLessThanWellFounded DEF OpToRel
<1> SUFFICES ASSUME Nat \ S # {} PROVE FALSE
  OBVIOUS
<1>2. PICK x \in Nat \ S : \A y \in Nat \ S : <<y, x>> \notin R
  <2> HIDE DEF R
  <2> QED BY <1>1, WFMin
<1>3. x - 1 \in Nat \ S
  BY <1>2
<1>4. <<x - 1, x>> \in R
  BY <1>2, <1>3
<1> QED BY <1>2, <1>3, <1>4

\* The element of a set that a sum takes first, and the sums of all the subsets.
First(s) == CHOOSE x \in s : TRUE
Body(f, S, g) == [s \in SUBSET S |-> IF s = {} THEN 0 ELSE f[First(s)] + g[s \ {First(s)}]]
Sums(f, S) == CHOOSE g : g = Body(f, S, g)

LEMMA SumIsLast ==
  ASSUME NEW f
  PROVE  SumFunction(f) = Sums(f, DOMAIN f)[DOMAIN f]
BY DEF SumFunction, SumFunctionOnSet, FoldFunctionOnSet, MapThenFoldSet, Sums, Body, First

LEMMA FirstIsIn ==
  ASSUME NEW s, s # {}
  PROVE  First(s) \in s
BY DEF First

LEMMA Smaller ==
  ASSUME NEW D, IsFiniteSet(D), NEW s \in SUBSET D, NEW x \in s, NEW n \in Nat,
         Cardinality(s) <= n + 1
  PROVE  s \ {x} \in SUBSET D /\ Cardinality(s \ {x}) <= n
<1>1. IsFiniteSet(s)
  BY FS_Subset
<1>2. Cardinality(s \ {x}) = Cardinality(s) - 1 /\ Cardinality(s) \in Nat
  BY <1>1, FS_RemoveElement, FS_CardinalityType
<1> QED BY <1>2

LEMMA SumsExist ==
  ASSUME NEW D, IsFiniteSet(D), NEW f \in [D -> Nat]
  PROVE  \E g \in [SUBSET D -> Nat] : g = Body(f, D, g)
<1> DEFINE Step(g, s) == IF s = {} THEN 0 ELSE f[First(s)] + g[s \ {First(s)}]
           Sizes == {n \in Nat : \E g \in [SUBSET D -> Nat] :
                      \A s \in SUBSET D : Cardinality(s) <= n => g[s] = Step(g, s)}
<1>1. 0 \in Sizes
  <2> DEFINE z == [s \in SUBSET D |-> 0]
  <2>1. ASSUME NEW s \in SUBSET D, Cardinality(s) <= 0 PROVE z[s] = Step(z, s)
    <3>1. s = {}
      BY <2>1, FS_Subset, FS_EmptySet, FS_CardinalityType
    <3> QED BY <3>1
  <2>2. z \in [SUBSET D -> Nat]
    OBVIOUS
  <2> HIDE DEF z
  <2> QED BY <2>1, <2>2
<1>2. ASSUME NEW n \in Nat, n \in Sizes PROVE n + 1 \in Sizes
  <2>1. PICK g \in [SUBSET D -> Nat] : \A s \in SUBSET D : Cardinality(s) <= n => g[s] = Step(g, s)
    BY <1>2
  <2> DEFINE h == [s \in SUBSET D |-> Step(g, s)]
  <2>2. ASSUME NEW s \in SUBSET D PROVE Step(g, s) \in Nat
    <3>1. CASE s = {}
      BY <3>1
    <3>2. CASE s # {}
      BY <3>2, FirstIsIn
    <3> QED BY <3>1, <3>2
  <2>3. h \in [SUBSET D -> Nat]
    BY <2>2
  <2>4. ASSUME NEW s \in SUBSET D, Cardinality(s) <= n + 1 PROVE h[s] = Step(h, s)
    <3>1. CASE s = {}
      BY <3>1
    <3>2. CASE s # {}
      <4> DEFINE t == s \ {First(s)}
      <4>1. t \in SUBSET D /\ Cardinality(t) <= n
        BY <2>4, <3>2, FirstIsIn, Smaller
      <4>2. g[t] = h[t]
        BY <4>1, <2>1
      <4> QED BY <4>2, <3>2
    <3> QED BY <3>1, <3>2
  <2> HIDE DEF h
  <2> QED BY <2>3, <2>4
<1>3. Cardinality(D) \in Sizes
  <2> HIDE DEF Sizes
  <2> QED BY <1>1, <1>2, SetInduction, FS_CardinalityType
<1>4. PICK g \in [SUBSET D -> Nat] :
        \A s \in SUBSET D : Cardinality(s) <= Cardinality(D) => g[s] = Step(g, s)
  BY <1>3
<1>5. \A s \in SUBSET D : g[s] = Step(g, s)
  BY <1>4, FS_Subset
<1> QED BY <1>5 DEF Body

LEMMA SumsAre ==
  ASSUME NEW D, IsFiniteSet(D), NEW f \in [D -> Nat], NEW s \in SUBSET D
  PROVE  Sums(f, D)[s] = IF s = {} THEN 0 ELSE f[First(s)] + Sums(f, D)[s \ {First(s)}]
<1>1. Sums(f, D) = Body(f, D, Sums(f, D))
  BY SumsExist DEF Sums
<1>2. Body(f, D, Sums(f, D))[s] = IF s = {} THEN 0 ELSE f[First(s)] + Sums(f, D)[s \ {First(s)}]
  BY DEF Body
<1> QED BY <1>1, <1>2

LEMMA SumsOfNone ==
  ASSUME NEW D, IsFiniteSet(D), NEW f \in [D -> Nat]
  PROVE  Sums(f, D)[{}] = 0
<1>1. {} \in SUBSET D
  OBVIOUS
<1> QED BY <1>1, SumsAre

LEMMA SumsTyped ==
  ASSUME NEW D, IsFiniteSet(D), NEW f \in [D -> Nat]
  PROVE  \A s \in SUBSET D : Sums(f, D)[s] \in Nat
<1> DEFINE Sizes == {n \in Nat : \A s \in SUBSET D : Cardinality(s) <= n => Sums(f, D)[s] \in Nat}
<1>1. 0 \in Sizes
  <2>1. ASSUME NEW s \in SUBSET D, Cardinality(s) <= 0 PROVE s = {}
    BY <2>1, FS_Subset, FS_EmptySet, FS_CardinalityType
  <2> QED BY <2>1, SumsOfNone
<1>2. ASSUME NEW n \in Nat, n \in Sizes PROVE n + 1 \in Sizes
  <2>1. ASSUME NEW s \in SUBSET D, Cardinality(s) <= n + 1 PROVE Sums(f, D)[s] \in Nat
    <3>1. CASE s = {}
      BY <3>1, SumsOfNone
    <3>2. CASE s # {}
      <4>1. s \ {First(s)} \in SUBSET D /\ Cardinality(s \ {First(s)}) <= n
        BY <2>1, <3>2, FirstIsIn, Smaller
      <4>2. Sums(f, D)[s \ {First(s)}] \in Nat /\ f[First(s)] \in Nat
        BY <4>1, <1>2, <3>2, FirstIsIn
      <4> QED BY <4>2, <3>2, SumsAre
    <3> QED BY <3>1, <3>2
  <2> QED BY <2>1
<1>3. Cardinality(D) \in Sizes
  <2> HIDE DEF Sizes
  <2> QED BY <1>1, <1>2, SetInduction, FS_CardinalityType
<1> QED BY <1>3, FS_Subset

\* A sum may begin with any of its elements.
LEMMA SumsTakeAny ==
  ASSUME NEW D, IsFiniteSet(D), NEW f \in [D -> Nat], NEW t \in SUBSET D, NEW y \in t
  PROVE  Sums(f, D)[t] = f[y] + Sums(f, D)[t \ {y}]
<1> DEFINE Z == Sums(f, D)
           Sizes == {n \in Nat : \A s \in SUBSET D : \A z \in s :
                      Cardinality(s) <= n => Z[s] = f[z] + Z[s \ {z}]}
<1>1. 0 \in Sizes
  <2>1. ASSUME NEW s \in SUBSET D, Cardinality(s) <= 0 PROVE s = {}
    BY <2>1, FS_Subset, FS_EmptySet, FS_CardinalityType
  <2> QED BY <2>1
<1>2. ASSUME NEW n \in Nat, n \in Sizes PROVE n + 1 \in Sizes
  <2>1. ASSUME NEW s \in SUBSET D, NEW z \in s, Cardinality(s) <= n + 1
        PROVE  Z[s] = f[z] + Z[s \ {z}]
    <3> DEFINE x == First(s)
    <3>1. x \in s
      BY FirstIsIn
    <3>2. Z[s] = f[x] + Z[s \ {x}]
      BY <2>1, SumsAre
    <3>3. CASE x # z
      <4>1. /\ s \ {x} \in SUBSET D /\ Cardinality(s \ {x}) <= n /\ z \in s \ {x}
            /\ s \ {z} \in SUBSET D /\ Cardinality(s \ {z}) <= n /\ x \in s \ {z}
        BY <2>1, <3>1, <3>3, Smaller
      <4> HIDE DEF x, Z
      <4>2. Z[s \ {x}] = f[z] + Z[(s \ {x}) \ {z}] /\ Z[s \ {z}] = f[x] + Z[(s \ {z}) \ {x}]
        BY <4>1, <1>2
      <4>3. (s \ {x}) \ {z} = (s \ {z}) \ {x} /\ (s \ {x}) \ {z} \in SUBSET D
        OBVIOUS
      <4>4. Z[(s \ {x}) \ {z}] \in Nat /\ f[x] \in Nat /\ f[z] \in Nat
        BY <4>3, <3>1, SumsTyped DEF Z
      <4>5. Z[s] = f[x] + (f[z] + Z[(s \ {x}) \ {z}])
        BY <3>2, <4>2
      <4>6. Z[s \ {z}] = f[x] + Z[(s \ {x}) \ {z}]
        BY <4>2, <4>3
      <4> QED BY <4>4, <4>5, <4>6
    <3> QED BY <3>2, <3>3
  <2> QED BY <2>1
<1>3. Cardinality(D) \in Sizes
  <2> HIDE DEF Sizes
  <2> QED BY <1>1, <1>2, SetInduction, FS_CardinalityType
<1> QED BY <1>3, FS_Subset

\* A sum of which every term has one of its own in another sum, at least as
\* large, is not the larger one.
LEMMA SumsCompare ==
  ASSUME NEW A, IsFiniteSet(A), NEW f \in [A -> Nat],
         NEW B, IsFiniteSet(B), NEW g \in [B -> Nat], NEW m \in [A -> B],
         \A x, y \in A : m[x] = m[y] => x = y, \A x \in A : f[x] <= g[m[x]]
  PROVE  SumFunction(f) <= SumFunction(g) /\ SumFunction(f) \in Nat /\ SumFunction(g) \in Nat
<1> DEFINE F == Sums(f, A)
           G == Sums(g, B)
           Sizes == {n \in Nat : \A s \in SUBSET A : \A t \in SUBSET B :
                      (Cardinality(s) <= n /\ \A x \in s : m[x] \in t) => F[s] <= G[t]}
<1>0. (\A s \in SUBSET A : F[s] \in Nat) /\ (\A t \in SUBSET B : G[t] \in Nat)
  BY SumsTyped
<1>1. 0 \in Sizes
  <2>1. ASSUME NEW s \in SUBSET A, Cardinality(s) <= 0 PROVE F[s] = 0
    <3>1. s = {}
      BY <2>1, FS_Subset, FS_EmptySet, FS_CardinalityType
    <3> QED BY <3>1, SumsOfNone
  <2> HIDE DEF F, G
  <2> QED BY <2>1, <1>0
<1>2. ASSUME NEW n \in Nat, n \in Sizes PROVE n + 1 \in Sizes
  <2>1. ASSUME NEW s \in SUBSET A, NEW t \in SUBSET B, Cardinality(s) <= n + 1,
               \A x \in s : m[x] \in t
        PROVE  F[s] <= G[t]
    <3>1. CASE s = {}
      <4>1. F[s] = 0
        BY <3>1, SumsOfNone
      <4> HIDE DEF F, G
      <4> QED BY <4>1, <1>0
    <3>2. CASE s # {}
      <4> DEFINE x == First(s)
      <4>1. x \in s /\ F[s] = f[x] + F[s \ {x}]
        BY <3>2, FirstIsIn, SumsAre
      <4>2. G[t] = g[m[x]] + G[t \ {m[x]}]
        BY <4>1, <2>1, SumsTakeAny
      <4> HIDE DEF x, F, G
      <4>3. s \ {x} \in SUBSET A /\ Cardinality(s \ {x}) <= n /\ t \ {m[x]} \in SUBSET B
        BY <2>1, <4>1, Smaller
      <4>4. \A y \in s \ {x} : m[y] \in t \ {m[x]}
        BY <2>1, <4>1
      <4>5. F[s \ {x}] <= G[t \ {m[x]}]
        BY <1>2, <4>3, <4>4
      <4>6. f[x] <= g[m[x]] /\ f[x] \in Nat /\ g[m[x]] \in Nat
        BY <4>1
      <4>7. F[s \ {x}] \in Nat /\ G[t \ {m[x]}] \in Nat
        BY <1>0, <4>3
      <4> QED BY <4>1, <4>2, <4>5, <4>6, <4>7
    <3> QED BY <3>1, <3>2
  <2> HIDE DEF F, G
  <2> QED BY <2>1
<1>3. Cardinality(A) \in Sizes
  <2> HIDE DEF Sizes
  <2> QED BY <1>1, <1>2, SetInduction, FS_CardinalityType
<1>4. F[A] <= G[B]
  BY <1>3, FS_Subset
<1>5. SumFunction(f) = F[A] /\ SumFunction(g) = G[B]
  BY SumIsLast
<1> HIDE DEF F, G
<1> QED BY <1>0, <1>4, <1>5

-----------------------------------------------------------------------------
(* Scans. *)

LEMMA FiniteImage ==
  ASSUME NEW S, IsFiniteSet(S), NEW Z, NEW f \in [S -> Z], NEW T, T \subseteq {f[x] : x \in S}
  PROVE  IsFiniteSet(T)
<1> DEFINE R == {f[x] : x \in S}
<1>1. f \in Surjection(S, R)
  BY DEF Surjection
<1>2. IsFiniteSet(R)
  BY <1>1, FS_Surjection
<1> QED BY <1>2, FS_Subset

LEMMA FiniteParts == IsFiniteSet(Parts)
<1>1. IsFiniteSet({"path"} \cup {"metadata"}) /\ IsFiniteSet({"tags"} \cup {"content"})
  BY FS_Singleton, FS_Union
<1>2. Parts = ({"path"} \cup {"metadata"}) \cup ({"tags"} \cup {"content"})
  BY DEF Parts
<1> QED BY <1>1, <1>2, FS_Union

LEMMA EntitiesFinite ==
  ASSUME NEW o \in Objects, NEW tier
  PROVE  IsFiniteSet(Entities(o, tier))
<1> DEFINE k == [ps \in Patterns \X Parts |->
                  [type |-> ps[1].type, severity |-> ps[1].severity, keyword |-> TRUE, id |-> <<{ps[1]}, ps[2], 0>>]]
           r == [e \in o.sample |->
                  [type |-> e[1], severity |-> "medium", keyword |-> FALSE, id |-> <<{}, "content", e[2]>>]]
<1>1. IsFiniteSet(Keywords(o, tier))
  <2>1. IsFiniteSet(Patterns \X Parts)
    BY FiniteParts, FS_Product, DspmAssumption
  <2>2. Keywords(o, tier) \subseteq {k[ps] : ps \in Patterns \X Parts}
    <3> SUFFICES ASSUME NEW e \in Keywords(o, tier) PROVE \E ps \in Patterns \X Parts : e = k[ps]
      OBVIOUS
    <3> HIDE DEF k, r
    <3>1. PICK s \in Parts, p \in Patterns :
            e = [type |-> p.type, severity |-> p.severity, keyword |-> TRUE, id |-> <<{p}, s, 0>>]
      BY DspmAssumption DEF Keywords, Sources
    <3>2. <<p, s>> \in Patterns \X Parts /\ e = k[<<p, s>>]
      BY <3>1 DEF k
    <3> QED BY <3>2
  <2>3. k \in [Patterns \X Parts -> {k[ps] : ps \in Patterns \X Parts}]
    OBVIOUS
  <2> DEFINE PP == Patterns \X Parts
  <2>4. IsFiniteSet(PP) /\ Keywords(o, tier) \subseteq {k[ps] : ps \in PP} /\ k \in [PP -> {k[ps] : ps \in PP}]
    BY <2>1, <2>2, <2>3
  <2> HIDE DEF k, PP
  <2> QED BY <2>4, FiniteImage
<1>2. IsFiniteSet(RuleEntities(o, tier))
  <2>1. RuleEntities(o, tier) \subseteq {r[e] : e \in o.sample}
    BY DEF RuleEntities
  <2>2. r \in [o.sample -> {r[e] : e \in o.sample}] /\ IsFiniteSet(o.sample)
    BY DspmAssumption
  <2> HIDE DEF r
  <2> QED BY <2>1, <2>2, FiniteImage
<1> QED BY <1>1, <1>2, FS_Union DEF Entities

\* What a scan at tier b may read, one at tier a may.
Deeper(a, b) == (b = "metadata" => a = "metadata") /\ (a \in {"model", "deep"} => b \in {"model", "deep"})

LEMMA EntitiesGrow ==
  ASSUME NEW o \in Objects, NEW a, NEW b, Deeper(a, b)
  PROVE  /\ Keywords(o, a) \subseteq Keywords(o, b)
         /\ RuleEntities(o, a) \subseteq RuleEntities(o, b)
         /\ Entities(o, a) \subseteq Entities(o, b)
<1>1. Sources(a) \subseteq Sources(b)
  BY DEF Sources, Deeper
<1>2. Keywords(o, a) \subseteq Keywords(o, b)
  BY <1>1 DEF Keywords
<1>3. RuleEntities(o, a) \subseteq RuleEntities(o, b)
  BY DEF RuleEntities, Deeper
<1> QED BY <1>2, <1>3 DEF Entities

LEMMA EntityTypes ==
  ASSUME NEW o \in Objects, NEW tier
  PROVE  /\ \A e \in Keywords(o, tier) : e.type \in KeywordTypes /\ e.severity \in Severities
         /\ \A e \in RuleEntities(o, tier) : e.type \in RuleTypes /\ e.severity = "medium"
<1>1. ASSUME NEW e \in Keywords(o, tier) PROVE e.type \in KeywordTypes /\ e.severity \in Severities
  <2>1. PICK s \in Parts, p \in Patterns :
          e = [type |-> p.type, severity |-> p.severity, keyword |-> TRUE, id |-> <<{p}, s, 0>>]
    BY DspmAssumption DEF Keywords, Sources
  <2> QED BY <2>1, DspmAssumption
<1>2. ASSUME NEW e \in RuleEntities(o, tier) PROVE e.type \in RuleTypes /\ e.severity = "medium"
  BY DspmAssumption DEF RuleEntities
<1> QED BY <1>1, <1>2

-----------------------------------------------------------------------------
(* Checks. *)

LEMMA KeywordSeverityGrows ==
  ASSUME NEW small, NEW large, small \subseteq large
  PROVE  /\ KeywordSeverity(large) \in {"critical", "high", "medium"}
         /\ KeywordSeverity(small) = "critical" => KeywordSeverity(large) = "critical"
         /\ KeywordSeverity(small) = "high" => KeywordSeverity(large) \in {"critical", "high"}
BY DEF KeywordSeverity

\* What kinds of checks there are.
LEMMA CheckKinds ==
  ASSUME NEW o, NEW tier, NEW c \in Checks(o, tier)
  PROVE  \/ c \in MetadataChecks(o) /\ c.check \in {<<"path", "none">>, <<"content_type", "none">>, <<"large", "none">>}
         \/ c.check[1] = "keyword" /\ \E e \in Keywords(o, tier) :
              c = [check |-> <<"keyword", e.type>>,
                   severity |-> KeywordSeverity({d \in Keywords(o, tier) : d.type = e.type})]
         \/ c.check[1] = "content" /\ \E e \in RuleEntities(o, tier) :
              c = [check |-> <<"content", e.type>>, severity |-> EntitySeverity(e.type)]
         \/ c \in ModelCheck(o, tier) /\ c.check = <<"model", "none">>
<1>1. CASE c \in MetadataChecks(o)
  BY <1>1 DEF MetadataChecks
<1>2. CASE c \in KeywordChecks(o, tier)
  <2>1. PICK t \in {e.type : e \in Keywords(o, tier)} :
          c = [check |-> <<"keyword", t>>,
               severity |-> KeywordSeverity({d \in Keywords(o, tier) : d.type = t})]
    BY <1>2 DEF KeywordChecks
  <2>2. PICK e \in Keywords(o, tier) : t = e.type
    OBVIOUS
  <2>3. c.check[1] = "keyword"
    BY <2>1
  <2> QED BY <2>1, <2>2, <2>3
<1>3. CASE c \in EntityChecks(o, tier)
  BY <1>3 DEF EntityChecks
<1>4. CASE c \in ModelCheck(o, tier)
  BY <1>4 DEF ModelCheck
<1> QED BY <1>1, <1>2, <1>3, <1>4 DEF Checks

\* No check is made twice.
LEMMA OneCheckEach ==
  ASSUME NEW o, NEW tier, NEW c \in Checks(o, tier), NEW d \in Checks(o, tier), c.check = d.check
  PROVE  c = d
<1>1. CASE c \in MetadataChecks(o) /\ c.check \in {<<"path", "none">>, <<"content_type", "none">>, <<"large", "none">>}
  <2>1. d \in MetadataChecks(o)
    BY <1>1, CheckKinds
  <2> QED BY <1>1, <2>1 DEF MetadataChecks
<1>2. CASE \E e \in Keywords(o, tier) :
             c = [check |-> <<"keyword", e.type>>,
                  severity |-> KeywordSeverity({x \in Keywords(o, tier) : x.type = e.type})]
  <2>1. PICK e \in Keywords(o, tier) :
             c = [check |-> <<"keyword", e.type>>,
                  severity |-> KeywordSeverity({x \in Keywords(o, tier) : x.type = e.type})]
    BY <1>2
  <2>2. PICK f \in Keywords(o, tier) :
             d = [check |-> <<"keyword", f.type>>,
                  severity |-> KeywordSeverity({x \in Keywords(o, tier) : x.type = f.type})]
    BY <2>1, CheckKinds
  <2>3. e.type = f.type
    BY <2>1, <2>2
  <2> QED BY <2>1, <2>2, <2>3
<1>3. CASE \E e \in RuleEntities(o, tier) :
             c = [check |-> <<"content", e.type>>, severity |-> EntitySeverity(e.type)]
  <2>1. PICK e \in RuleEntities(o, tier) :
          c = [check |-> <<"content", e.type>>, severity |-> EntitySeverity(e.type)]
    BY <1>3
  <2>2. PICK f \in RuleEntities(o, tier) :
          d = [check |-> <<"content", f.type>>, severity |-> EntitySeverity(f.type)]
    BY <2>1, CheckKinds
  <2>3. e.type = f.type
    BY <2>1, <2>2
  <2> QED BY <2>1, <2>2, <2>3
<1>4. CASE c \in ModelCheck(o, tier) /\ c.check = <<"model", "none">>
  <2>0. d.check[1] = "model"
    BY <1>4
  <2>1. d \in ModelCheck(o, tier)
    BY <2>0, CheckKinds
  <2> QED BY <1>4, <2>1 DEF ModelCheck
<1> QED BY <1>1, <1>2, <1>3, <1>4, CheckKinds

\* A check that is made is made at a deeper tier too, at least as severe.
LEMMA ChecksGrow ==
  ASSUME NEW o \in Objects, NEW a, NEW b, Deeper(a, b), NEW c \in Checks(o, a)
  PROVE  \E d \in Checks(o, b) : d.check = c.check /\ CheckRisk(c) <= CheckRisk(d)
<1>1. CASE c \in MetadataChecks(o)
  <2>1. c \in Checks(o, b) /\ CheckRisk(c) \in Nat
    BY <1>1 DEF Checks, CheckRisk
  <2> QED BY <2>1
<1>2. CASE \E e \in Keywords(o, a) :
             c = [check |-> <<"keyword", e.type>>,
                  severity |-> KeywordSeverity({x \in Keywords(o, a) : x.type = e.type})]
  <2>1. PICK e \in Keywords(o, a) :
             c = [check |-> <<"keyword", e.type>>,
                  severity |-> KeywordSeverity({x \in Keywords(o, a) : x.type = e.type})]
    BY <1>2
  <2> DEFINE small == {x \in Keywords(o, a) : x.type = e.type}
             large == {x \in Keywords(o, b) : x.type = e.type}
             d == [check |-> <<"keyword", e.type>>, severity |-> KeywordSeverity(large)]
  <2>2. small \subseteq large /\ e \in Keywords(o, b)
    BY EntitiesGrow
  <2>3. d \in Checks(o, b)
    BY <2>2 DEF Checks, KeywordChecks
  <2>4. c.severity = KeywordSeverity(small) /\ d.severity = KeywordSeverity(large) /\ d.check = c.check
    BY <2>1
  <2> HIDE DEF small, large, d
  <2>5. /\ KeywordSeverity(large) \in {"critical", "high", "medium"}
        /\ KeywordSeverity(small) \in {"critical", "high", "medium"}
        /\ KeywordSeverity(small) = "critical" => KeywordSeverity(large) = "critical"
        /\ KeywordSeverity(small) = "high" => KeywordSeverity(large) \in {"critical", "high"}
    BY <2>2, KeywordSeverityGrows
  <2>6. CheckRisk(c) <= CheckRisk(d)
    BY <2>4, <2>5 DEF CheckRisk
  <2> QED BY <2>3, <2>4, <2>6
<1>3. CASE \E e \in RuleEntities(o, a) :
             c = [check |-> <<"content", e.type>>, severity |-> EntitySeverity(e.type)]
  <2>1. c \in Checks(o, b)
    BY <1>3, EntitiesGrow DEF Checks, EntityChecks
  <2>2. CheckRisk(c) \in Nat
    BY DEF CheckRisk
  <2> QED BY <2>1, <2>2
<1>4. CASE c \in ModelCheck(o, a)
  <2>1. c \in Checks(o, b)
    BY <1>4 DEF Checks, ModelCheck, Deeper
  <2>2. CheckRisk(c) \in Nat
    BY DEF CheckRisk
  <2> QED BY <2>1, <2>2
<1> QED BY <1>1, <1>2, <1>3, <1>4, CheckKinds

LEMMA FiniteSix ==
  ASSUME NEW a, NEW b, NEW c, NEW d, NEW e, NEW f
  PROVE  IsFiniteSet({a, b, c, d, e, f})
<1>1. IsFiniteSet({a} \cup {b}) /\ IsFiniteSet({c} \cup {d}) /\ IsFiniteSet({e} \cup {f})
  BY FS_Singleton, FS_Union
<1>2. IsFiniteSet((({a} \cup {b}) \cup ({c} \cup {d})) \cup ({e} \cup {f}))
  BY <1>1, FS_Union
<1>3. {a, b, c, d, e, f} = (({a} \cup {b}) \cup ({c} \cup {d})) \cup ({e} \cup {f})
  OBVIOUS
<1> QED BY <1>2, <1>3

LEMMA ChecksFinite ==
  ASSUME NEW o \in Objects, NEW tier
  PROVE  IsFiniteSet(Checks(o, tier))
<1> DEFINE Areas == {"path", "content_type", "large", "keyword", "content", "model"}
           Found == KeywordTypes \cup (RuleTypes \cup {"none"})
           All == (Areas \X Found) \X Severities
           k == [ats \in All |-> [check |-> ats[1], severity |-> ats[2]]]
<1>1. IsFiniteSet(Areas) /\ IsFiniteSet(KeywordTypes) /\ IsFiniteSet(RuleTypes)
  BY FiniteSix DEF KeywordTypes, RuleTypes
<1>2. IsFiniteSet(Severities)
  <2>1. Severities = {"critical", "critical", "high", "medium", "low", "info"}
    BY DEF Severities
  <2> QED BY <2>1, FiniteSix
<1>3. IsFiniteSet(All)
  <2>1. IsFiniteSet(Found)
    BY <1>1, FS_Singleton, FS_Union
  <2> HIDE DEF Areas, Found
  <2>2. IsFiniteSet(Areas \X Found)
    BY <1>1, <2>1, FS_Product
  <2> QED BY <1>2, <2>2, FS_Product
<1>4. Checks(o, tier) \subseteq {k[ats] : ats \in All}
  <2> SUFFICES ASSUME NEW c \in Checks(o, tier) PROVE \E ats \in All : c = k[ats]
    OBVIOUS
  <2> DEFINE Made(area, found, severity) == c = [check |-> <<area, found>>, severity |-> severity]
  <2>1. ASSUME NEW area \in Areas, NEW found \in Found, NEW severity \in Severities,
               Made(area, found, severity)
        PROVE  \E ats \in All : c = k[ats]
    <3>1. <<<<area, found>>, severity>> \in All /\ c = k[<<<<area, found>>, severity>>]
      BY <2>1
    <3> HIDE DEF All, k
    <3> QED BY <3>1
  <2>2. \E area \in Areas, found \in Found, severity \in Severities : Made(area, found, severity)
    <3>1. CASE c \in MetadataChecks(o)
      BY <3>1 DEF MetadataChecks, Severities
    <3>2. CASE \E e \in Keywords(o, tier) :
                 c = [check |-> <<"keyword", e.type>>,
                      severity |-> KeywordSeverity({d \in Keywords(o, tier) : d.type = e.type})]
      <4>1. PICK e \in Keywords(o, tier) :
                   c = [check |-> <<"keyword", e.type>>,
                        severity |-> KeywordSeverity({d \in Keywords(o, tier) : d.type = e.type})]
        BY <3>2
      <4>2. KeywordSeverity({d \in Keywords(o, tier) : d.type = e.type}) \in Severities
        BY KeywordSeverityGrows DEF Severities
      <4>3. e.type \in Found
        BY EntityTypes
      <4> QED BY <4>1, <4>2, <4>3
    <3>3. CASE \E e \in RuleEntities(o, tier) :
                 c = [check |-> <<"content", e.type>>, severity |-> EntitySeverity(e.type)]
      <4>1. PICK e \in RuleEntities(o, tier) :
                   c = [check |-> <<"content", e.type>>, severity |-> EntitySeverity(e.type)]
        BY <3>3
      <4>2. EntitySeverity(e.type) \in Severities
        BY DEF EntitySeverity, Severities
      <4>3. e.type \in Found
        BY EntityTypes
      <4> QED BY <4>1, <4>2, <4>3
    <3>4. CASE c \in ModelCheck(o, tier)
      BY <3>4 DEF ModelCheck, Severities
    <3> QED BY <3>1, <3>2, <3>3, <3>4, CheckKinds
  <2> HIDE DEF Areas, Found, All, k, Made
  <2> QED BY <2>1, <2>2
<1>5. k \in [All -> {k[ats] : ats \in All}]
  OBVIOUS
<1> HIDE DEF All, k
<1> QED BY <1>3, <1>4, <1>5, FiniteImage

-----------------------------------------------------------------------------
(* Risk, class and tiers. *)

LEMMA RisksTyped ==
  /\ \A c : CheckRisk(c) \in Nat
  /\ \A e : EntityRisk(e) \in Nat
<1>1. \A c : CheckRisk(c) \in Nat
  BY DEF CheckRisk
<1>2. ASSUME NEW e PROVE EntityRisk(e) \in Nat
  BY DEF EntityRisk
<1> QED BY <1>1, <1>2

\* The risk before it is cut off at 100.
FullRisk(o, tier) == 20 + SumFunction([c \in Checks(o, tier) |-> CheckRisk(c)])
                     + SumFunction([e \in Entities(o, tier) |-> EntityRisk(e)])

\* Both sums only grow.
LEMMA FullRiskGrows ==
  ASSUME NEW o \in Objects, NEW a, NEW b, Deeper(a, b)
  PROVE  FullRisk(o, a) \in Nat /\ FullRisk(o, b) \in Nat /\ FullRisk(o, a) <= FullRisk(o, b)
<1> DEFINE ca == [c \in Checks(o, a) |-> CheckRisk(c)]
           cb == [c \in Checks(o, b) |-> CheckRisk(c)]
           ea == [e \in Entities(o, a) |-> EntityRisk(e)]
           eb == [e \in Entities(o, b) |-> EntityRisk(e)]
           same == [e \in Entities(o, a) |-> e]
           match == [c \in Checks(o, a) |->
                       CHOOSE d \in Checks(o, b) : d.check = c.check /\ CheckRisk(c) <= CheckRisk(d)]
<1>1. SumFunction(ca) <= SumFunction(cb) /\ SumFunction(ca) \in Nat /\ SumFunction(cb) \in Nat
  <2>1. ca \in [Checks(o, a) -> Nat] /\ cb \in [Checks(o, b) -> Nat]
    BY RisksTyped
  <2>2. \A c \in Checks(o, a) :
          match[c] \in Checks(o, b) /\ match[c].check = c.check /\ CheckRisk(c) <= CheckRisk(match[c])
    BY ChecksGrow
  <2>3. match \in [Checks(o, a) -> Checks(o, b)]
    BY <2>2
  <2>4. \A c, d \in Checks(o, a) : match[c] = match[d] => c = d
    BY <2>2, OneCheckEach
  <2>5. \A c \in Checks(o, a) : ca[c] <= cb[match[c]]
    BY <2>2
  <2>6. IsFiniteSet(Checks(o, a)) /\ IsFiniteSet(Checks(o, b))
    BY ChecksFinite
  <2> HIDE DEF ca, cb, match
  <2> QED BY <2>1, <2>3, <2>4, <2>5, <2>6, SumsCompare
<1>2. SumFunction(ea) <= SumFunction(eb) /\ SumFunction(ea) \in Nat /\ SumFunction(eb) \in Nat
  <2>1. ea \in [Entities(o, a) -> Nat] /\ eb \in [Entities(o, b) -> Nat]
    BY RisksTyped
  <2>2. same \in [Entities(o, a) -> Entities(o, b)]
    BY EntitiesGrow
  <2>3. \A e, f \in Entities(o, a) : same[e] = same[f] => e = f
    OBVIOUS
  <2>4. \A e \in Entities(o, a) : ea[e] <= eb[same[e]]
    BY RisksTyped, EntitiesGrow
  <2>5. IsFiniteSet(Entities(o, a)) /\ IsFiniteSet(Entities(o, b))
    BY EntitiesFinite
  <2> HIDE DEF ea, eb, same
  <2> QED BY <2>1, <2>2, <2>3, <2>4, <2>5, SumsCompare
<1>3. FullRisk(o, a) = 20 + SumFunction(ca) + SumFunction(ea) /\ FullRisk(o, b) = 20 + SumFunction(cb) + SumFunction(eb)
  BY DEF FullRisk
<1> HIDE DEF ca, cb, ea, eb
<1> QED BY <1>1, <1>2, <1>3

LEMMA RiskIs ==
  ASSUME NEW o \in Objects, NEW tier
  PROVE  Risk(o, tier) = (IF FullRisk(o, tier) <= 100 THEN FullRisk(o, tier) ELSE 100) /\ Risk(o, tier) \in Nat
<1>1. FullRisk(o, tier) \in Nat
  BY FullRiskGrows DEF Deeper
<1>2. Risk(o, tier) = CHOOSE x \in {100, FullRisk(o, tier)} : \A y \in {100, FullRisk(o, tier)} : x <= y
  BY DEF Risk, FullRisk, Min
<1> QED BY <1>1, <1>2

LEMMA RiskGrows ==
  ASSUME NEW o \in Objects, NEW a, NEW b, Deeper(a, b)
  PROVE  Risk(o, a) <= Risk(o, b)
BY RiskIs, FullRiskGrows

LEMMA MaxOfClasses ==
  ASSUME NEW S \in SUBSET (1 .. 4), S # {}
  PROVE  Max(S) \in S /\ \A x \in S : x <= Max(S)
<1>1. \E x \in S : \A y \in S : x >= y
  <2>1. CASE 4 \in S
    BY <2>1
  <2>2. CASE 4 \notin S /\ 3 \in S
    BY <2>2
  <2>3. CASE 4 \notin S /\ 3 \notin S /\ 2 \in S
    BY <2>3
  <2>4. CASE 4 \notin S /\ 3 \notin S /\ 2 \notin S
    <3>1. \A x \in S : x = 1
      BY <2>4
    <3>2. PICK z \in S : TRUE
      OBVIOUS
    <3>3. \A y \in S : z >= y
      BY <3>1
    <3> QED BY <3>3
  <2> QED BY <2>1, <2>2, <2>3, <2>4
<1> QED BY <1>1 DEF Max

LEMMA ClassOfIs ==
  ASSUME NEW e
  PROVE  ClassOf(e) \in 2 .. 4 /\ (e.type = "SECRET" => ClassOf(e) = 4)
<1> DEFINE S == {ClassOfSeverity(e.severity), ClassOfType(e.type)}
<1>1. ClassOfSeverity(e.severity) \in {2, 3, 4} /\ ClassOfType(e.type) \in {2, 3, 4}
  BY DEF ClassOfSeverity, ClassOfType
<1>2. Max(S) \in S /\ \A x \in S : x <= Max(S)
  BY <1>1, MaxOfClasses
<1>3. ClassOf(e) = Max(S)
  BY DEF ClassOf
<1>4. e.type = "SECRET" => ClassOfType(e.type) = 4
  BY DEF ClassOfType
<1> QED BY <1>1, <1>2, <1>3, <1>4

LEMMA ClassIs ==
  ASSUME NEW o \in Objects, NEW tier
  PROVE  /\ Class(o, tier) \in 1 .. 4
         /\ Entities(o, tier) = {} => Class(o, tier) = IF o.publicPath THEN 1 ELSE 2
         /\ Entities(o, tier) # {} => Class(o, tier) >= 2
         /\ \A e \in Entities(o, tier) : ClassOf(e) <= Class(o, tier)
         /\ Entities(o, tier) # {} => \E e \in Entities(o, tier) : Class(o, tier) = ClassOf(e)
<1>1. CASE Entities(o, tier) = {}
  BY <1>1 DEF Class
<1>2. CASE Entities(o, tier) # {}
  <2> DEFINE S == {ClassOf(e) : e \in Entities(o, tier)}
  <2>1. S \in SUBSET (1 .. 4) /\ S # {} /\ \A x \in S : x >= 2
    BY <1>2, ClassOfIs
  <2>2. Max(S) \in S /\ \A x \in S : x <= Max(S)
    BY <2>1, MaxOfClasses
  <2>3. Class(o, tier) = Max(S)
    BY <1>2 DEF Class
  <2>4. Class(o, tier) \in S /\ \A e \in Entities(o, tier) : ClassOf(e) <= Class(o, tier)
    BY <2>2, <2>3
  <2>5. \E e \in Entities(o, tier) : Class(o, tier) = ClassOf(e)
    BY <2>4
  <2>6. Class(o, tier) \in 1 .. 4 /\ Class(o, tier) >= 2
    BY <2>1, <2>4
  <2> QED BY <1>2, <2>4, <2>5, <2>6
<1> QED BY <1>1, <1>2

LEMMA ClassGrows ==
  ASSUME NEW o \in Objects, NEW a, NEW b, Deeper(a, b)
  PROVE  Class(o, a) <= Class(o, b)
<1>1. CASE Entities(o, a) = {}
  <2>1. CASE Entities(o, b) = {}
    BY <1>1, <2>1, ClassIs
  <2>2. CASE Entities(o, b) # {}
    <3>1. Class(o, a) \in {1, 2}
      BY <1>1, ClassIs
    <3>2. Class(o, b) >= 2 /\ Class(o, b) \in 1 .. 4
      BY <2>2, ClassIs
    <3> QED BY <3>1, <3>2
  <2> QED BY <2>1, <2>2
<1>2. CASE Entities(o, a) # {}
  <2>1. PICK e \in Entities(o, a) : Class(o, a) = ClassOf(e)
    BY <1>2, ClassIs
  <2>2. e \in Entities(o, b)
    BY EntitiesGrow
  <2> QED BY <2>1, <2>2, ClassIs
<1> QED BY <1>1, <1>2

LEMMA ClassNames ==
  ASSUME NEW n \in 1 .. 4
  PROVE  (Classifications[n] = "restricted" <=> n = 4) /\ (Classifications[n] = "public" <=> n = 1)
<1>1. n = 1 \/ n = 2 \/ n = 3 \/ n = 4
  OBVIOUS
<1> QED BY <1>1 DEF Classifications

LEMMA TierNames ==
  /\ DOMAIN Tiers = 1 .. 4
  /\ Tiers[1] = "metadata" /\ Tiers[2] = "rules" /\ Tiers[3] = "model" /\ Tiers[4] = "deep"
  /\ \A i, j \in 1 .. 4 : i < j => Deeper(Tiers[i], Tiers[j])
<1>1. DOMAIN Tiers = 1 .. 4
  BY DEF Tiers
<1>2. Tiers[1] = "metadata" /\ Tiers[2] = "rules" /\ Tiers[3] = "model" /\ Tiers[4] = "deep"
  BY DEF Tiers
<1>3. ASSUME NEW i \in 1 .. 4, NEW j \in 1 .. 4, i < j PROVE Deeper(Tiers[i], Tiers[j])
  <2>1. i \in {1, 2, 3} /\ j \in {2, 3, 4}
    BY <1>3
  <2>2. CASE i = 1
    BY <2>1, <2>2, <1>2 DEF Deeper
  <2>3. CASE i = 2
    BY <2>1, <2>3, <1>2, <1>3 DEF Deeper
  <2>4. CASE i = 3
    BY <2>1, <2>4, <1>2, <1>3 DEF Deeper
  <2> QED BY <2>1, <2>2, <2>3, <2>4
<1> QED BY <1>1, <1>2, <1>3

LEMMA SecretsRestrict ==
  ASSUME NEW o \in Objects, NEW tier, tier # "metadata", \E e \in o.sample : e[1] = "SECRET"
  PROVE  Class(o, tier) = 4
<1>1. PICK e \in o.sample : e[1] = "SECRET"
  OBVIOUS
<1> DEFINE r == [type |-> e[1], severity |-> "medium", keyword |-> FALSE, id |-> <<{}, "content", e[2]>>]
<1>2. o.hasSample
  BY <1>1, DspmAssumption
<1>3. r \in Entities(o, tier)
  BY <1>1, <1>2 DEF Entities, RuleEntities
<1>4. r.type = "SECRET"
  BY <1>1
<1> HIDE DEF r
<1>5. ClassOf(r) = 4
  BY <1>4, ClassOfIs
<1> QED BY <1>3, <1>5, ClassIs

LEMMA TiersLead ==
  ASSUME NEW o \in Objects, NEW i \in 1 .. 3
  PROVE  /\ NextTier(o, Tiers[i]) \in {"none", Tiers[i + 1]}
         /\ Entities(o, Tiers[i]) # {} /\ Risk(o, Tiers[i]) >= 80 => NextTier(o, Tiers[i]) = Tiers[i + 1]
<1>0. Risk(o, Tiers[i]) \in Nat
  BY RiskIs
<1>1. CASE i = 1
  BY <1>0, <1>1, TierNames DEF NextTier
<1>2. CASE i = 2
  BY <1>0, <1>2, TierNames DEF NextTier
<1>3. CASE i = 3
  BY <1>0, <1>3, TierNames DEF NextTier
<1> QED BY <1>1, <1>2, <1>3

LEMMA ObjectsEscalate == TiersEscalate
<1> SUFFICES ASSUME NEW o \in Objects
    PROVE
    /\ \A i, j \in DOMAIN Tiers : i < j =>
         /\ Risk(o, Tiers[i]) <= Risk(o, Tiers[j])
         /\ Class(o, Tiers[i]) <= Class(o, Tiers[j])
         /\ RequiresHITL(o, Tiers[i]) => RequiresHITL(o, Tiers[j])
    /\ \A i \in 2 .. 4 :
         (\E e \in o.sample : e[1] = "SECRET") =>
           /\ RequiresHITL(o, Tiers[i])
           /\ Classifications[Class(o, Tiers[i])] = "restricted"
    /\ \A i \in DOMAIN Tiers :
         Classifications[Class(o, Tiers[i])] = "public" => Entities(o, Tiers[i]) = {}
    /\ \A i \in 1 .. 3 :
         /\ NextTier(o, Tiers[i]) \in {"none", Tiers[i + 1]}
         /\ Entities(o, Tiers[i]) # {} /\ Risk(o, Tiers[i]) >= 80 =>
              \A j \in i .. 3 : NextTier(o, Tiers[j]) = Tiers[j + 1]
  BY DEF TiersEscalate
<1>1. ASSUME NEW i \in 1 .. 4, NEW j \in 1 .. 4, i < j
      PROVE  /\ Entities(o, Tiers[i]) \subseteq Entities(o, Tiers[j])
             /\ Risk(o, Tiers[i]) <= Risk(o, Tiers[j])
             /\ Class(o, Tiers[i]) <= Class(o, Tiers[j])
             /\ RequiresHITL(o, Tiers[i]) => RequiresHITL(o, Tiers[j])
  <2>1. Deeper(Tiers[i], Tiers[j])
    BY <1>1, TierNames
  <2>2. Risk(o, Tiers[i]) <= Risk(o, Tiers[j]) /\ Class(o, Tiers[i]) <= Class(o, Tiers[j])
    BY <2>1, RiskGrows, ClassGrows
  <2>3. /\ Risk(o, Tiers[i]) \in Nat /\ Risk(o, Tiers[j]) \in Nat
        /\ Class(o, Tiers[i]) \in 1 .. 4 /\ Class(o, Tiers[j]) \in 1 .. 4
    BY RiskIs, ClassIs
  <2>4. /\ Classifications[Class(o, Tiers[i])] = "restricted" <=> Class(o, Tiers[i]) = 4
        /\ Classifications[Class(o, Tiers[j])] = "restricted" <=> Class(o, Tiers[j]) = 4
    BY <2>3, ClassNames
  <2>5. RequiresHITL(o, Tiers[i]) => RequiresHITL(o, Tiers[j])
    BY <2>2, <2>3, <2>4 DEF RequiresHITL
  <2> QED BY <2>1, <2>2, <2>5, EntitiesGrow
<1>2. ASSUME NEW i \in 2 .. 4, \E e \in o.sample : e[1] = "SECRET"
      PROVE  RequiresHITL(o, Tiers[i]) /\ Classifications[Class(o, Tiers[i])] = "restricted"
  <2>1. Tiers[i] # "metadata"
    BY TierNames
  <2>2. Class(o, Tiers[i]) = 4
    BY <1>2, <2>1, SecretsRestrict
  <2> QED BY <2>2, ClassNames DEF RequiresHITL
<1>3. ASSUME NEW i \in 1 .. 4, Classifications[Class(o, Tiers[i])] = "public"
      PROVE  Entities(o, Tiers[i]) = {}
  BY <1>3, ClassIs, ClassNames
<1>4. ASSUME NEW i \in 1 .. 3, Entities(o, Tiers[i]) # {}, Risk(o, Tiers[i]) >= 80, NEW j \in i .. 3
      PROVE  NextTier(o, Tiers[j]) = Tiers[j + 1]
  <2>1. CASE i = j
    BY <1>4, <2>1, TiersLead
  <2>2. CASE i # j
    <3>1. i \in 1 .. 4 /\ j \in 1 .. 4 /\ j \in 1 .. 3 /\ i < j
      BY <2>2
    <3>2. Entities(o, Tiers[j]) # {} /\ Risk(o, Tiers[i]) <= Risk(o, Tiers[j])
      BY <1>1, <1>4, <3>1
    <3>3. Risk(o, Tiers[i]) \in Nat /\ Risk(o, Tiers[j]) \in Nat
      BY RiskIs
    <3>4. Risk(o, Tiers[j]) >= 80
      BY <1>4, <3>2, <3>3
    <3> QED BY <3>1, <3>2, <3>4, TiersLead
  <2> QED BY <2>1, <2>2
<1> QED BY <1>1, <1>2, <1>3, <1>4, TiersLead, TierNames

\* For any patterns and objects, a deeper scan takes nothing back, a secret that
\* is read is restricted, nothing is public in which something was found, and
\* the suggestions lead on to the deepest tier.
THEOREM ScansDoEscalate == TiersEscalate /\ (Spec => []ScansEscalate)
<1>1. ScansEscalate
  BY ObjectsEscalate DEF ScansEscalate
<1> QED BY <1>1, ObjectsEscalate, PTL
=============================================================================
