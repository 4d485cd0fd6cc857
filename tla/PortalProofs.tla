---------------------------- MODULE PortalProofs ----------------------------
(***************************************************************************)
(* Theorems about what the portal writes (settings, accounts, sessions),   *)
(* for any number of handlers, saves, accounts, requests, pages, sessions  *)
(* and tokens.  The three share no state; their proofs share this module.  *)
(***************************************************************************)
EXTENDS PortalSettings, Accounts, Sessions, SequenceTheorems, TLAPS

-----------------------------------------------------------------------------
(***************************************************************************)
(* Settings, and the collector that reloads them                           *)
(***************************************************************************)

\* What the collector has read is some revision of the past.
ReadsThePast == loaded <= Revision /\ noted <= Revision /\ config <= Revision

\* The settings are read after the revision they will be remembered as.
LoadedCoversNoted == pc = "apply" => loaded >= noted

\* What was saved since the settings were loaded was saved during the start-up.
StartupIsKnown == pc = "starting" => loaded + 1 .. Revision \subseteq startup

IInv ==
  /\ TypeOK
  /\ ReadsThePast
  /\ LoadedCoversNoted
  /\ StartupIsKnown
  /\ NoSaveIsLost

\* Append keeps what is stored, so a usable revision stays usable.
LEMMA SaveKeepsUsable ==
  ASSUME TypeOK, NEW usable \in BOOLEAN, Save(usable),
         NEW r \in Nat, r <= Revision
  PROVE  Usable(r)' <=> Usable(r)
BY DEF TypeOK, Save, Usable, Revision

LEMMA SaveAppends ==
  ASSUME TypeOK, NEW usable \in BOOLEAN, Save(usable)
  PROVE  saves' \in Seq(BOOLEAN) /\ Revision' = Revision + 1 /\ Revision' \in Revisions
BY SettingsBounds DEF TypeOK, Save, Revision, Revisions

\* Every state has the types of TypeOK.
THEOREM SettingsTypeCorrect == Spec => []TypeOK
<1>1. Init => TypeOK
  BY SettingsBounds DEF Init, TypeOK, Revision, Revisions
<1>2. TypeOK /\ [Next]_vars => TypeOK'
  <2> SUFFICES ASSUME TypeOK, [Next]_vars PROVE TypeOK'
    OBVIOUS
  <2> USE SettingsBounds
  <2>1. ASSUME NEW usable \in BOOLEAN, Save(usable) PROVE TypeOK'
    BY <2>1, SaveAppends DEF TypeOK, Save, process
  <2>2. CASE CollectorStep
    BY <2>2 DEF CollectorStep, Start, Construct, Check, Load, Apply, TypeOK,
      Revision, Revisions
  <2>3. CASE LoadRaises \/ Exit
    BY <2>3 DEF LoadRaises, Exit, Fault, TypeOK, Revision, Revisions
  <2>4. CASE UNCHANGED vars
    BY <2>4 DEF vars, process, TypeOK, Revision
  <2> QED
    BY <2>1, <2>2, <2>3, <2>4 DEF Next
<1> QED
  BY <1>1, <1>2, PTL DEF Spec

\* Settings are swapped in only once the components could be built from them,
\* and no later save takes that away.
THEOREM UsableSettings == Spec => []ConfigIsUsable
<1> DEFINE Inv == TypeOK /\ ReadsThePast /\ ConfigIsUsable
<1>1. Init => Inv
  BY SettingsBounds DEF Init, TypeOK, ReadsThePast, ConfigIsUsable, Running,
    Revision, Revisions
<1>2. Inv /\ TypeOK' /\ [Next]_vars => Inv'
  <2> SUFFICES ASSUME Inv, TypeOK', [Next]_vars
               PROVE  ReadsThePast' /\ ConfigIsUsable'
    OBVIOUS
  <2> USE SettingsBounds DEF ReadsThePast, ConfigIsUsable, Running
  <2>1. ASSUME NEW usable \in BOOLEAN, Save(usable)
        PROVE  ReadsThePast' /\ ConfigIsUsable'
    <3>1. ReadsThePast'
      <4>1. Revision' = Revision + 1 /\ Revision \in Nat
        BY <2>1, SaveAppends DEF TypeOK, Revisions
      <4>2. UNCHANGED <<loaded, noted, config>>
        BY <2>1 DEF Save, process
      <4> HIDE DEF Revision
      <4> QED
        BY <4>1, <4>2 DEF TypeOK, Revisions
    <3>2. config \in Nat /\ config' = config /\ pc' = pc
      BY <2>1 DEF Save, process, TypeOK, Revisions
    <3> QED
      BY <2>1, <3>1, <3>2, SaveKeepsUsable DEF Usable
  <2>2. CASE CollectorStep
    BY <2>2 DEF CollectorStep, Start, Construct, Check, Load, Apply, TypeOK,
      Revision, Revisions, Usable
  <2>3. CASE LoadRaises \/ Exit
    BY <2>3 DEF LoadRaises, Exit, Revision, Usable
  <2>4. CASE UNCHANGED vars
    BY <2>4 DEF vars, process, Revision, Usable
  <2> QED
    BY <2>1, <2>2, <2>3, <2>4 DEF Next
<1> QED
  BY <1>1, <1>2, SettingsTypeCorrect, PTL DEF Spec

\* The revision remembered passes the settings in use by saves of the start-up
\* only: whenever settings are reloaded, reading the revision first is enough.
THEOREM SavesAreNotLost == Spec => []NoSaveIsLost
<1>1. Init => IInv
  BY SettingsBounds DEF Init, IInv, TypeOK, ReadsThePast, LoadedCoversNoted,
    StartupIsKnown, NoSaveIsLost, Running, Revision, Revisions
<1>2. IInv /\ TypeOK' /\ [Next]_vars => IInv'
  <2> SUFFICES ASSUME IInv, TypeOK', [Next]_vars PROVE IInv'
    OBVIOUS
  <2> USE SettingsBounds DEF IInv, ReadsThePast, LoadedCoversNoted,
        StartupIsKnown, NoSaveIsLost, Running
  <2>1. ASSUME NEW usable \in BOOLEAN, Save(usable) PROVE IInv'
    <3>1. /\ Revision' = Revision + 1 /\ Revision \in Nat
          /\ UNCHANGED <<pc, loaded, noted, config, seen>>
          /\ startup' = IF pc = "starting" THEN startup \cup {Revision'} ELSE startup
      <4>1. UNCHANGED <<pc, loaded, noted, config, seen>>
        BY <2>1 DEF Save, process
      <4>2. startup' = IF pc = "starting" THEN startup \cup {Revision'} ELSE startup
        BY <2>1 DEF Save
      <4> QED
        BY <2>1, <4>1, <4>2, SaveAppends DEF TypeOK, Revisions
    <3>2. {loaded, noted, config, seen} \subseteq Nat
      BY DEF TypeOK, Revisions
    <3> HIDE DEF Revision
    <3>3. pc = "starting" => loaded + 1 .. Revision + 1 \subseteq startup \cup {Revision + 1}
      BY <3>1, <3>2
    <3>4. StartupIsKnown'
      BY <3>1, <3>3
    <3>5. NoSaveIsLost'
      BY <3>1, <3>2
    <3>6. ReadsThePast' /\ LoadedCoversNoted'
      BY <3>1, <3>2
    <3> QED
      BY <3>4, <3>5, <3>6
  <2>2. CASE Start \/ Construct
    BY <2>2 DEF Start, Construct, TypeOK, Revision, Revisions
  <2>3. CASE Check \/ Load
    BY <2>3 DEF Check, Load, TypeOK, Revision, Revisions
  <2>4. CASE Apply
    <3>1. pc = "apply" /\ pc' = "running" /\ UNCHANGED <<saves, loaded, noted>>
      BY <2>4 DEF Apply
    <3>2. \/ config' = loaded /\ seen' = noted
          \/ UNCHANGED <<config, seen, startup>>
      BY <2>4 DEF Apply
    <3>3. {loaded, noted, config, seen} \subseteq Nat /\ Revision' = Revision
      BY <3>1 DEF TypeOK, Revisions, Revision
    <3> HIDE DEF Revision
    <3> QED
      BY <3>1, <3>2, <3>3
  <2>5. CASE LoadRaises \/ Exit
    BY <2>5 DEF LoadRaises, Exit, Revision
  <2>6. CASE UNCHANGED vars
    BY <2>6 DEF vars, process, Revision
  <2> QED
    BY <2>1, <2>2, <2>3, <2>4, <2>5, <2>6 DEF Next, CollectorStep
<1>3. IInv => NoSaveIsLost
  BY DEF IInv
<1> QED
  BY <1>1, <1>2, <1>3, SettingsTypeCorrect, PTL DEF Spec
-----------------------------------------------------------------------------
(***************************************************************************)
(* Settings, saved by handlers that overlap, and the portal's copy         *)
(***************************************************************************)

\* A step of the portal or the collector is one of Settings or leaves it alone.
LEMMA PortalStep ==
  ASSUME [PortalNext]_<<vars, portalVars>>
  PROVE  [Next]_vars
<1>1. ASSUME NEW t \in Savers, NEW usable \in BOOLEAN, SaveCommits(t, usable)
      PROVE  Next
  BY <1>1 DEF SaveCommits, Next
<1>2. ASSUME NEW t \in Savers, SaveReads(t) \/ SaveInstalls(t)
      PROVE  UNCHANGED vars
  BY <1>2 DEF SaveReads, SaveInstalls
<1>3. CASE RestartPortal
  BY <1>3 DEF RestartPortal
<1>4. CASE CollectorStep \/ LoadRaises \/ Exit
  BY <1>4 DEF Next
<1>5. CASE UNCHANGED <<vars, portalVars>>
  BY <1>5
<1> QED
  BY <1>1, <1>2, <1>3, <1>4, <1>5 DEF PortalNext

\* What is proved of Settings holds with the handlers of the portal: their saves,
\* in three steps each, implement its saves in one.
THEOREM PortalImplementsSettings == PortalSpec => Spec
<1>1. PortalInit => Init
  BY DEF PortalInit
<1>2. [PortalNext]_<<vars, portalVars>> => [Next]_vars
  BY PortalStep
<1> QED
  BY <1>1, <1>2, PTL DEF PortalSpec, Spec

\* No save is lost on the collector while handlers of the portal overlap, but
\* those that commit during its start-up.
THEOREM PortalSavesAreNotLost == PortalSpec => []NoSaveIsLost
BY PortalImplementsSettings, SavesAreNotLost

Busy(t) == saver[t] # Answered

\* What a handler has read, and with none at work the copy, is as new as the first
\* of the latest saves that overlap one another.
CopyInv ==
  /\ saver \in [Savers -> {Answered} \cup [pc : {"committed"}]
                            \cup [pc : {"read"}, revision : Nat]]
  /\ {Revision, burst, copy} \subseteq Nat
  /\ burst <= Revision /\ copy <= Revision
  /\ \A t \in Savers : saver[t].pc = "read" =>
       burst <= saver[t].revision /\ saver[t].revision <= Revision
  /\ (\A t \in Savers : ~Busy(t)) => burst <= copy

\* When all saves are answered the portal shows the latest settings, or those of
\* a save that overlapped with them.
THEOREM PortalShowsTheLatest == PortalSpec => []CopyIsLatest
<1>1. PortalInit => CopyInv
  <2> SUFFICES ASSUME PortalInit
               PROVE  CopyInv
    OBVIOUS
  <2>1. Revision = 0 /\ copy = Revision /\ burst = Revision
    BY DEF PortalInit, Init, Revision
  <2>2. saver = [t \in Savers |-> Answered]
    BY DEF PortalInit
  <2> QED
    BY <2>1, <2>2 DEF CopyInv, Busy, Answered
<1>2. CopyInv /\ TypeOK /\ [PortalNext]_<<vars, portalVars>> => CopyInv'
  <2> SUFFICES ASSUME CopyInv, TypeOK, [PortalNext]_<<vars, portalVars>>
               PROVE  CopyInv'
    OBVIOUS
  <2> USE DEF CopyInv, Busy, Answered
  <2>1. ASSUME NEW t \in Savers, NEW usable \in BOOLEAN, SaveCommits(t, usable)
        PROVE  CopyInv'
    <3>1. Revision' = Revision + 1
      BY <2>1, SaveAppends DEF SaveCommits
    <3>2. saver' = [saver EXCEPT ![t] = [pc |-> "committed"]] /\ copy' = copy
      BY <2>1 DEF SaveCommits
    <3>3. CASE \A other \in Savers : ~Busy(other)
      <4>1. burst' = Revision'
        BY <2>1, <3>3 DEF SaveCommits
      <4> QED
        BY <3>1, <3>2, <3>3, <4>1
    <3>4. CASE \E other \in Savers : Busy(other)
      <4>1. burst' = burst
        BY <2>1, <3>4 DEF SaveCommits
      <4> QED
        BY <3>1, <3>2, <3>4, <4>1
    <3> QED
      BY <3>3, <3>4
  <2>2. ASSUME NEW t \in Savers, SaveReads(t)
        PROVE  CopyInv'
    BY <2>2 DEF SaveReads, vars, Revision
  <2>3. ASSUME NEW t \in Savers, SaveInstalls(t)
        PROVE  CopyInv'
    BY <2>3 DEF SaveInstalls, vars, Revision
  <2>4. CASE RestartPortal
    BY <2>4 DEF RestartPortal, vars, Revision
  <2>5. CASE (CollectorStep \/ LoadRaises \/ Exit) /\ UNCHANGED portalVars
    <3>1. saves' = saves
      BY <2>5 DEF CollectorStep, Start, Construct, Check, Load, Apply, LoadRaises, Exit
    <3> QED
      BY <2>5, <3>1 DEF portalVars, Revision
  <2>6. CASE UNCHANGED <<vars, portalVars>>
    BY <2>6 DEF vars, portalVars, Revision
  <2> QED
    BY <2>1, <2>2, <2>3, <2>4, <2>5, <2>6 DEF PortalNext
<1>3. CopyInv => CopyIsLatest
  BY DEF CopyInv, CopyIsLatest, Busy
<1> QED
  BY <1>1, <1>2, <1>3, PortalImplementsSettings, SettingsTypeCorrect, PTL DEF PortalSpec
-----------------------------------------------------------------------------
(***************************************************************************)
(* Accounts                                                                *)
(***************************************************************************)

\* Accounts are never deleted, so that the first look of a setup, in the
\* transaction that inserts, holds for good.
SetupInv == AccountsTypeOK /\ setups <= 1 /\ (setups = 1 => HasUsers)

\* What a request keeps follows from where it is.
LEMMA RequestFields ==
  ASSUME AccountsTypeOK, NEW t \in Threads, req[t].pc \in {"update", "count", "write"}
  PROVE  req[t].target \in Ids /\ req[t].changes \in Changes
<1>1. req[t] \in Requests
  BY DEF AccountsTypeOK
<1> QED
  BY <1>1 DEF Requests

\* A change sets whether an account is an administrator and active, no more.
LEMMA ChangeValues ==
  ASSUME NEW changes \in Changes
  PROVE  "exists" \notin DOMAIN changes /\ \A f \in DOMAIN changes : changes[f] \in BOOLEAN
<1>1. PICK fields \in SUBSET {"admin", "active"} : changes \in [fields -> BOOLEAN]
  BY DEF Changes
<1> QED
  BY <1>1

\* An account inserted where there was none leaves the others as they are.
LEMMA InsertStep ==
  ASSUME AccountsTypeOK, NEW u \in Ids, NEW admin \in BOOLEAN, NEW active \in BOOLEAN,
         Insert(u, Account(admin, active))
  PROVE  /\ users' \in [Ids -> [admin : BOOLEAN, active : BOOLEAN, exists : BOOLEAN]]
         /\ HasUsers'
BY DEF AccountsTypeOK, Insert, Account, HasUsers

\* The UPDATE leaves a row a row, of an account that exists as before.
LEMMA UpdateStep ==
  ASSUME AccountsTypeOK, NEW t \in Threads, Update(t)
  PROVE  /\ users' \in [Ids -> [admin : BOOLEAN, active : BOOLEAN, exists : BOOLEAN]]
         /\ \A u \in Ids : users'[u].exists = users[u].exists
<1> DEFINE changes == req[t].changes
           row == users[req[t].target]
           new == [f \in DOMAIN row |-> IF f \in DOMAIN changes THEN changes[f] ELSE row[f]]
<1>1. req[t].target \in Ids /\ changes \in Changes
  BY RequestFields DEF Update
<1>2. row \in [admin : BOOLEAN, active : BOOLEAN, exists : BOOLEAN]
  BY <1>1 DEF AccountsTypeOK
<1>3. "exists" \notin DOMAIN changes /\ \A f \in DOMAIN changes : changes[f] \in BOOLEAN
  BY <1>1, ChangeValues
<1>4. DOMAIN row = {"admin", "active", "exists"}
  BY <1>2
<1>5. /\ new \in [admin : BOOLEAN, active : BOOLEAN, exists : BOOLEAN]
      /\ new.exists = row.exists
  <2>1. /\ DOMAIN new = {"admin", "active", "exists"}
        /\ new = [f \in {"admin", "active", "exists"} |-> new[f]]
    BY <1>4
  <2>2. new["admin"] \in BOOLEAN /\ new["active"] \in BOOLEAN /\ new["exists"] = row["exists"]
    BY <1>2, <1>3, <1>4
  <2> QED
    BY <1>2, <2>1, <2>2
<1>6. users' = [users EXCEPT ![req[t].target] = new]
  BY DEF Update
<1> QED
  BY <1>1, <1>5, <1>6 DEF AccountsTypeOK

LEMMA SetupInvariant == AccountsSpec => []SetupInv
<1>1. AccountsInit => SetupInv
  BY DEF AccountsInit, SetupInv, AccountsTypeOK, Absent, Idle, Requests, HasUsers
<1>2. SetupInv /\ [AccountsNext]_accountVars => SetupInv'
  <2> SUFFICES ASSUME SetupInv, [AccountsNext]_accountVars
               PROVE  SetupInv'
    OBVIOUS
  <2> USE DEF SetupInv
  <2>1. ASSUME NEW t \in Threads, BeginSetup(t)
        PROVE  SetupInv'
    BY <2>1 DEF BeginSetup, AccountsTypeOK, Requests, HasUsers
  <2>2. ASSUME NEW t \in Threads, CreateInitialAdmin(t)
        PROVE  SetupInv'
    <3>1. req' \in [Threads -> Requests]
      BY <2>2 DEF CreateInitialAdmin, Answer, Idle, AccountsTypeOK, Requests
    <3>2. CASE HasUsers
      BY <2>2, <3>1, <3>2 DEF CreateInitialAdmin, AccountsTypeOK, HasUsers
    <3>3. CASE ~HasUsers
      <4>1. /\ users' \in [Ids -> [admin : BOOLEAN, active : BOOLEAN, exists : BOOLEAN]]
            /\ HasUsers'
        BY <2>2, <3>3, InsertStep DEF CreateInitialAdmin
      <4> QED
        BY <2>2, <3>1, <3>3, <4>1 DEF CreateInitialAdmin, AccountsTypeOK
    <3> QED
      BY <3>2, <3>3
  <2>3. ASSUME NEW t \in Threads, Authorize(t)
        PROVE  SetupInv'
    BY <2>3 DEF Authorize, AccountsTypeOK, Requests, HasUsers
  <2>4. ASSUME NEW t \in Threads, CreateUser(t)
        PROVE  SetupInv'
    <3>1. req' \in [Threads -> Requests] /\ setups' = setups
      BY <2>4 DEF CreateUser, Answer, Idle, AccountsTypeOK, Requests
    <3>2. /\ users' \in [Ids -> [admin : BOOLEAN, active : BOOLEAN, exists : BOOLEAN]]
          /\ HasUsers' \/ users' = users
      BY <2>4, InsertStep DEF CreateUser, AccountsTypeOK
    <3> QED
      BY <3>1, <3>2 DEF AccountsTypeOK, HasUsers
  <2>5. ASSUME NEW t \in Threads, ReadCurrent(t) \/ CountAdmins(t)
        PROVE  SetupInv'
    <3>1. users' = users /\ setups' = setups
      BY <2>5 DEF ReadCurrent, CountAdmins
    <3>2. req[t].pc \in {"update", "count"} /\ req[t] \in Requests /\ DOMAIN req = Threads
      BY <2>5 DEF ReadCurrent, CountAdmins, AccountsTypeOK
    <3>3. \A next \in {"count", "write"} : [req[t] EXCEPT !.pc = next] \in Requests
      BY <3>2 DEF Requests
    <3>4. Idle \in Requests
      BY DEF Idle, Requests
    <3>5. \E next \in {"count", "write"} : req' \in {[req EXCEPT ![t].pc = next],
                                                    [req EXCEPT ![t] = Idle]}
      BY <2>5 DEF ReadCurrent, CountAdmins, Answer
    <3>6. req' \in [Threads -> Requests]
      BY <3>2, <3>3, <3>4, <3>5 DEF AccountsTypeOK
    <3> QED
      BY <3>1, <3>6 DEF AccountsTypeOK, HasUsers
  <2>6. ASSUME NEW t \in Threads, Update(t)
        PROVE  SetupInv'
    <3>1. req' \in [Threads -> Requests] /\ setups' = setups
      BY <2>6 DEF Update, Answer, Idle, AccountsTypeOK, Requests
    <3> QED
      BY <2>6, <3>1, UpdateStep DEF AccountsTypeOK, HasUsers
  <2>7. CASE UNCHANGED accountVars
    BY <2>7 DEF accountVars, AccountsTypeOK, HasUsers
  <2> QED
    BY <2>1, <2>2, <2>3, <2>4, <2>5, <2>6, <2>7 DEF AccountsNext
<1> QED
  BY <1>1, <1>2, PTL DEF AccountsSpec

\* First-run setup creates the first account of all and nothing else, however
\* many visitors have passed its first look.
THEOREM SetupCreatesTheFirst == AccountsSpec => SetupIsFirst
<1>1. [AccountsNext]_accountVars => [setups' # setups => ~HasUsers]_accountVars
  <2>1. ASSUME NEW t \in Threads, CreateInitialAdmin(t)
        PROVE  setups' # setups => ~HasUsers
    BY <2>1 DEF CreateInitialAdmin
  <2>2. ASSUME NEW t \in Threads, \/ BeginSetup(t) \/ Authorize(t) \/ CreateUser(t)
                                  \/ ReadCurrent(t) \/ CountAdmins(t) \/ Update(t)
        PROVE  setups' = setups
    BY <2>2 DEF BeginSetup, Authorize, CreateUser, ReadCurrent, CountAdmins, Update
  <2> QED
    BY <2>1, <2>2 DEF AccountsNext
<1> QED
  BY <1>1, PTL DEF AccountsSpec, SetupIsFirst

\* What the rows and the requests may hold.
THEOREM AccountsTypeCorrect == AccountsSpec => []AccountsTypeOK
<1>1. SetupInv => AccountsTypeOK
  BY DEF SetupInv
<1> QED
  BY <1>1, SetupInvariant, PTL

\* At most one account ever comes from first-run setup.
THEOREM OneSetup == AccountsSpec => [](setups <= 1)
<1>1. SetupInv => setups <= 1
  BY DEF SetupInv
<1> QED
  BY <1>1, SetupInvariant, PTL
-----------------------------------------------------------------------------
(***************************************************************************)
(* Sessions                                                                *)
(***************************************************************************)

\* Sessions and tokens that anybody holds have been given out, so that a new
\* token is nobody's.
GivenOut ==
  /\ \A s \in DOMAIN sessions : sessions[s].csrf <= tokens
  /\ jar.session <= Len(sessions)
  /\ \A p \in Pages :
       /\ page[p].csrf <= tokens
       /\ call[p].pc \in {"me", "rotate", "welcome", "save", "csrf", "logout"}
            => call[p].session <= Len(sessions)
       /\ call[p].pc \in {"answer", "welcome"} => call[p].csrf <= tokens

\* The session a token belongs to is that of the person it was given to.
Belongs(csrf, person) ==
  \A s \in DOMAIN sessions :
    csrf # 0 /\ sessions[s].csrf = csrf => sessions[s].of = person

\* The session of a save whose user has been found is still that user's or over.
StillOwned(c) ==
  /\ c.session \in DOMAIN sessions
  /\ sessions[c.session] = Ended \/ sessions[c.session].of = c.user

\* A page, and an answer on its way to one, show whom their token belongs to.
PagesShowOwners ==
  \A p \in Pages :
    /\ Belongs(page[p].csrf, page[p].as)
    /\ call[p].pc = "rotate" => UserOf(call[p].session) \in {call[p].user, Nobody}
    /\ call[p].pc = "answer" => Belongs(call[p].csrf, call[p].user)
    /\ call[p].pc \in {"save", "csrf"} => call[p].header = page[p].csrf
    /\ call[p].pc = "csrf" => StillOwned(call[p])

SavesInv == SessionsTypeOK /\ GivenOut /\ PagesShowOwners /\ SavesAsItself
-----------------------------------------------------------------------------
\* What a call carries follows from where it is.
LEMMA CallFields ==
  ASSUME SessionsTypeOK, NEW p \in Pages
  PROVE  /\ call[p].pc \in {"me", "rotate", "welcome", "save", "csrf", "logout"}
              => call[p].session \in Nat
         /\ call[p].pc \in {"rotate", "answer", "csrf", "accepted"} => call[p].user \in Somebody
         /\ call[p].pc \in {"answer", "welcome"} => call[p].csrf \in Nat
         /\ call[p].pc \in {"save", "csrf", "logout"}
              => call[p].cookie \in Nat /\ call[p].header \in Nat
<1>1. call[p] \in Calls
  BY DEF SessionsTypeOK
<1> QED
  BY <1>1 DEF Calls

\* The sessions are entries with a person and a token.
LEMMA Entries ==
  ASSUME SessionsTypeOK
  PROVE  /\ Len(sessions) \in Nat /\ DOMAIN sessions = 1 .. Len(sessions)
         /\ \A s \in DOMAIN sessions :
              sessions[s] \in Entry /\ sessions[s].of \in Somebody /\ sessions[s].csrf \in Nat
<1>1. sessions \in Seq(Entry)
  BY DEF SessionsTypeOK
<1>2. Len(sessions) \in Nat /\ DOMAIN sessions = 1 .. Len(sessions)
  BY <1>1, LenProperties
<1>3. \A s \in 1 .. Len(sessions) : sessions[s] \in Entry
  BY <1>1, ElementOfSeq
<1> QED
  BY <1>2, <1>3 DEF Entry

\* Who has a session that is no session is nobody.
LEMMA UserFacts ==
  ASSUME SessionsTypeOK, NEW s \in Nat, s <= Len(sessions)
  PROVE  /\ UserOf(s) \in Somebody
         /\ UserOf(s) # Nobody => s \in DOMAIN sessions /\ UserOf(s) = sessions[s].of
  BY Entries DEF UserOf, Somebody

\* Every step keeps the types.
LEMMA TypeStep ==
  ASSUME SessionsTypeOK, GivenOut, [SessionsNext]_sessionVars
  PROVE  SessionsTypeOK'
<1> USE DEF SessionsTypeOK
<1>1. ASSUME NEW p \in Pages, OpenPage(p)
      PROVE  SessionsTypeOK'
  BY <1>1 DEF OpenPage, Disturb, NoPage, Changing, Calls, Somebody
<1>2. ASSUME NEW p \in Pages, FindUser(p)
      PROVE  SessionsTypeOK'
  <2>1. UserOf(call[p].session) \in Somebody /\ call[p].session \in Nat
    BY <1>2, CallFields, UserFacts DEF FindUser, GivenOut
  <2> DEFINE found == [pc |-> "rotate", session |-> call[p].session,
                       user |-> UserOf(call[p].session)]
  <2>2. found \in Calls /\ NoCall \in Calls
    BY <2>1 DEF NoCall, Calls
  <2>3. call' = [call EXCEPT ![p] = found] \/ call' = [call EXCEPT ![p] = NoCall]
    BY <1>2 DEF FindUser, Return
  <2>4. call' \in [Pages -> Calls]
    BY <2>2, <2>3
  <2> QED
    BY <1>2, <2>4 DEF FindUser
<1>3. ASSUME NEW p \in Pages, Rotate(p)
      PROVE  SessionsTypeOK'
  <2> DEFINE s == call[p].session
  <2>1. /\ s \in Nat /\ s <= Len(sessions) /\ call[p].user \in Somebody
        /\ tokens \in Nat /\ tokens' = tokens + 1
    BY <1>3, CallFields DEF Rotate, GivenOut
  <2>2. sessions' \in Seq(Entry)
    <3>1. CASE UserOf(s) = Nobody
      BY <1>3, <3>1 DEF Rotate
    <3>2. CASE UserOf(s) # Nobody
      <4>1. s \in 1 .. Len(sessions) /\ sessions[s] \in Entry
        BY <2>1, <3>2, UserFacts, Entries
      <4>2. sessions' = [sessions EXCEPT ![s] = [sessions[s] EXCEPT !.csrf = tokens']]
        BY <1>3, <3>2, <4>1 DEF Rotate
      <4>3. [sessions[s] EXCEPT !.csrf = tokens'] \in Entry
        <5>1. \A e \in Entry, n \in Nat : [e EXCEPT !.csrf = n] \in Entry
          BY DEF Entry
        <5>2. tokens' \in Nat
          BY <2>1
        <5> QED
          BY <4>1, <5>1, <5>2, Zenon
      <4> QED
        BY <4>1, <4>2, <4>3, ExceptSeq
    <3> QED
      BY <3>1, <3>2
  <2>3. call' \in [Pages -> Calls]
    BY <1>3, <2>1 DEF Rotate, Calls
  <2> QED
    BY <1>3, <2>1, <2>2, <2>3 DEF Rotate
<1>4. ASSUME NEW p \in Pages, PageLoads(p)
      PROVE  SessionsTypeOK'
  BY <1>4, CallFields DEF PageLoads, Return, NoCall, Calls
<1>5. ASSUME NEW p \in Pages, AnswerIsLost(p)
      PROVE  SessionsTypeOK'
  BY <1>5 DEF AnswerIsLost, Return, NoCall, Calls
<1>6. ASSUME NEW p \in Pages, NEW person \in Persons, SignIn(p, person)
      PROVE  SessionsTypeOK'
  <2>1. tokens' = tokens + 1 /\ tokens' \in Nat
    BY <1>6 DEF SignIn
  <2>2. [of |-> person, csrf |-> tokens'] \in Entry
    BY <2>1 DEF Entry, Somebody
  <2>3. sessions' \in Seq(Entry) /\ Len(sessions') \in Nat
    BY <1>6, <2>2, AppendProperties, LenProperties DEF SignIn
  <2>4. call' \in [Pages -> Calls]
    BY <1>6, <2>1, <2>3 DEF SignIn, Calls
  <2> QED
    BY <1>6, <2>1, <2>3, <2>4 DEF SignIn, Disturb, NoPage, Changing, Somebody
<1>7. ASSUME NEW p \in Pages, Welcome(p)
      PROVE  SessionsTypeOK'
  BY <1>7, CallFields DEF Welcome, Return, NoCall, Calls
<1>8. ASSUME NEW p \in Pages, SignOut(p)
      PROVE  SessionsTypeOK'
  BY <1>8 DEF SignOut, Send, Disturb, NoPage, Changing, Calls, Somebody
<1>9. ASSUME NEW p \in Pages, EndSession(p)
      PROVE  SessionsTypeOK'
  <2> DEFINE s == call[p].session
  <2>1. s \in Nat /\ s <= Len(sessions)
    BY <1>9, CallFields DEF EndSession, GivenOut
  <2>2. sessions' \in Seq(Entry)
    <3>1. CASE s \in 1 .. Len(sessions) /\ sessions' = [sessions EXCEPT ![s] = Ended]
      BY <3>1, ExceptSeq DEF Ended, Entry, Somebody
    <3> QED
      BY <1>9, <2>1, <3>1, Entries DEF EndSession
  <2> DEFINE bye == [pc |-> "bye"]
  <2>3. bye \in Calls /\ NoCall \in Calls
    BY DEF NoCall, Calls
  <2>4. call' = [call EXCEPT ![p] = bye] \/ call' = [call EXCEPT ![p] = NoCall]
    BY <1>9 DEF EndSession, Return
  <2>5. call' \in [Pages -> Calls]
    BY <2>3, <2>4
  <2> QED
    BY <1>9, <2>2, <2>5 DEF EndSession
<1>10. ASSUME NEW p \in Pages, Goodbye(p)
      PROVE  SessionsTypeOK'
  BY <1>10 DEF Goodbye, Return, NoCall, Calls
<1>11. ASSUME NEW s \in DOMAIN sessions, Expire(s)
      PROVE  SessionsTypeOK'
  <2>1. sessions' \in Seq(Entry)
    BY <1>11, ExceptSeq, Entries DEF Expire, Ended, Entry, Somebody
  <2> QED
    BY <1>11, <2>1 DEF Expire
<1>12. ASSUME NEW p \in Pages, Submit(p)
      PROVE  SessionsTypeOK'
  BY <1>12 DEF Submit, Send, Calls
<1>13. ASSUME NEW p \in Pages, CheckSave(p)
      PROVE  SessionsTypeOK'
  <2>1. call[p].user \in Somebody
    BY <1>13, CallFields DEF CheckSave
  <2> DEFINE accepted == [pc |-> "accepted", user |-> call[p].user]
  <2>2. accepted \in Calls /\ NoCall \in Calls
    BY <2>1 DEF NoCall, Calls
  <2>3. call' = [call EXCEPT ![p] = accepted] \/ call' = [call EXCEPT ![p] = NoCall]
    BY <1>13 DEF CheckSave, Return
  <2>4. call' \in [Pages -> Calls]
    BY <2>2, <2>3
  <2> QED
    BY <1>13, <2>4 DEF CheckSave
<1>14. ASSUME NEW p \in Pages, Saved(p)
      PROVE  SessionsTypeOK'
  BY <1>14 DEF Saved, Return, NoCall, Calls
<1>15. ASSUME NEW p \in Pages, FindSaver(p)
      PROVE  SessionsTypeOK'
  <2> DEFINE c == call[p]
             found == [pc |-> "csrf", user |-> UserOf(c.session), session |-> c.session,
                       cookie |-> c.cookie, header |-> c.header]
  <2>1. /\ UserOf(c.session) \in Somebody
        /\ c.session \in Nat /\ c.cookie \in Nat /\ c.header \in Nat
    BY <1>15, CallFields, UserFacts DEF FindSaver, GivenOut
  <2>2. found \in Calls /\ NoCall \in Calls
    BY <2>1 DEF NoCall, Calls
  <2>3. call' = [call EXCEPT ![p] = found] \/ call' = [call EXCEPT ![p] = NoCall]
    BY <1>15 DEF FindSaver, Return
  <2>4. call' \in [Pages -> Calls]
    BY <2>2, <2>3
  <2> QED
    BY <1>15, <2>4 DEF FindSaver
<1>16. CASE UNCHANGED sessionVars
  BY <1>16 DEF sessionVars
<1> QED
  BY <1>1, <1>2, <1>3, <1>4, <1>5, <1>6, <1>7, <1>8, <1>9, <1>10, <1>11, <1>12, <1>13,
     <1>14, <1>15, <1>16
  DEF SessionsNext

\* A step leaves an entry alone, ends it, or gives it the next token.
LEMMA SessionsStep ==
  ASSUME SessionsTypeOK, GivenOut, [SessionsNext]_sessionVars
  PROVE  /\ tokens <= tokens' /\ Len(sessions) <= Len(sessions')
         /\ \A s \in DOMAIN sessions' :
              \/ sessions'[s] = Ended
              \/ sessions'[s].csrf = tokens + 1 /\ tokens' = tokens + 1
              \/ s \in DOMAIN sessions /\ sessions'[s] = sessions[s]
         /\ \A s \in DOMAIN sessions :
              /\ s \in DOMAIN sessions'
              /\ \/ sessions'[s] = Ended
                 \/ sessions[s] # Ended /\ sessions'[s].of = sessions[s].of
<1> USE Entries
<1>1. tokens \in Nat
  BY DEF SessionsTypeOK
<1>2. ASSUME NEW p \in Pages, Rotate(p), UserOf(call[p].session) # Nobody
      PROVE  /\ tokens' = tokens + 1 /\ Len(sessions') = Len(sessions)
             /\ DOMAIN sessions' = DOMAIN sessions
             /\ \A s \in DOMAIN sessions :
                  IF s = call[p].session
                  THEN /\ sessions'[s].csrf = tokens + 1 /\ sessions'[s].of = sessions[s].of
                       /\ sessions[s] # Ended
                  ELSE sessions'[s] = sessions[s]
  <2> DEFINE s == call[p].session
  <2>1. s \in DOMAIN sessions
    BY <1>2, CallFields, UserFacts DEF Rotate, GivenOut
  <2>2. sessions[s] # Ended
    BY <1>2, CallFields, UserFacts DEF Rotate, GivenOut, Ended
  <2>3. sessions' = [sessions EXCEPT ![s] = [sessions[s] EXCEPT !.csrf = tokens + 1]]
        /\ tokens' = tokens + 1
    BY <1>2, <2>1 DEF Rotate
  <2>4. DOMAIN sessions' = DOMAIN sessions /\ sessions' \in Seq(Entry)
    BY <1>2, <2>3, TypeStep DEF SessionsTypeOK
  <2>5. Len(sessions') = Len(sessions)
    BY <2>4, LenProperties
  <2>6. \A t \in DOMAIN sessions : sessions[t] \in [of : Somebody, csrf : Nat]
    BY DEF Entry
  <2> QED
    BY <2>1, <2>3, <2>4, <2>5, <2>6, <2>2
<1>3. ASSUME NEW p \in Pages, NEW person \in Persons, SignIn(p, person)
      PROVE  /\ tokens' = tokens + 1 /\ Len(sessions') = Len(sessions) + 1
             /\ DOMAIN sessions' = 1 .. Len(sessions) + 1
             /\ sessions'[Len(sessions) + 1].csrf = tokens + 1
             /\ \A s \in DOMAIN sessions : sessions'[s] = sessions[s]
  <2>1. [of |-> person, csrf |-> tokens + 1] \in Entry /\ sessions \in Seq(Entry)
    BY <1>1 DEF Entry, Somebody, SessionsTypeOK
  <2>2. sessions' = Append(sessions, [of |-> person, csrf |-> tokens + 1])
    BY <1>3 DEF SignIn
  <2> HIDE Entries
  <2>3. /\ Len(sessions') = Len(sessions) + 1
        /\ DOMAIN sessions' = 1 .. Len(sessions) + 1
        /\ sessions'[Len(sessions) + 1] = [of |-> person, csrf |-> tokens + 1]
        /\ \A s \in 1 .. Len(sessions) : sessions'[s] = sessions[s]
    BY <2>1, <2>2, AppendProperties, LenProperties
  <2> QED
    BY <1>3, <2>3, Entries DEF SignIn
<1>4. ASSUME NEW t \in DOMAIN sessions, sessions' = [sessions EXCEPT ![t] = Ended]
      PROVE  /\ Len(sessions') = Len(sessions) /\ DOMAIN sessions' = DOMAIN sessions
             /\ \A s \in DOMAIN sessions :
                  sessions'[s] = IF s = t THEN Ended ELSE sessions[s]
  <2>1. Ended \in Entry /\ sessions \in Seq(Entry)
    BY DEF Ended, Entry, Somebody, SessionsTypeOK
  <2> QED
    BY <1>4, <2>1, ExceptSeq
<1>5. ASSUME NEW p \in Pages, EndSession(p), sessions' # sessions
      PROVE  /\ tokens' = tokens
             /\ \E t \in DOMAIN sessions : sessions' = [sessions EXCEPT ![t] = Ended]
  BY <1>5, CallFields DEF EndSession, GivenOut
<1>6. CASE sessions' = sessions /\ tokens' \in {tokens, tokens + 1}
  BY <1>1, <1>6
<1>7. CASE /\ tokens' = tokens
           /\ \E t \in DOMAIN sessions : sessions' = [sessions EXCEPT ![t] = Ended]
  <2>1. PICK t \in DOMAIN sessions : sessions' = [sessions EXCEPT ![t] = Ended]
    BY <1>7
  <2> QED
    BY <1>1, <1>4, <1>7, <2>1 DEF Ended
<1>8. ASSUME NEW p \in Pages, Rotate(p)
      PROVE  (sessions' = sessions /\ tokens' \in {tokens, tokens + 1})
               \/ UserOf(call[p].session) # Nobody
  BY <1>8 DEF Rotate
<1>9. CASE \E p \in Pages : Rotate(p) /\ UserOf(call[p].session) # Nobody
  <2>1. PICK p \in Pages : Rotate(p) /\ UserOf(call[p].session) # Nobody
    BY <1>9
  <2> QED
    BY <1>1, <1>2, <2>1
<1>10. CASE \E p \in Pages, person \in Persons : SignIn(p, person)
  <2>1. PICK p \in Pages, person \in Persons : SignIn(p, person)
    BY <1>10
  <2> QED
    BY <1>1, <1>3, <2>1
<1>11. CASE \E s \in DOMAIN sessions : Expire(s)
  BY <1>7, <1>11 DEF Expire
<1>12. CASE \E p \in Pages : EndSession(p)
  <2>1. PICK p \in Pages : EndSession(p)
    BY <1>12
  <2>2. tokens' = tokens
    BY <2>1 DEF EndSession
  <2> QED
    BY <1>5, <1>6, <1>7, <2>1, <2>2
<1>13. CASE \E p \in Pages : \/ OpenPage(p) \/ FindUser(p) \/ PageLoads(p)
                             \/ AnswerIsLost(p) \/ Welcome(p) \/ SignOut(p)
                             \/ Goodbye(p) \/ Submit(p) \/ FindSaver(p)
                             \/ CheckSave(p) \/ Saved(p)
  BY <1>6, <1>13 DEF OpenPage, FindUser, PageLoads, AnswerIsLost, Welcome, SignOut,
       Goodbye, Submit, FindSaver, CheckSave, Saved
<1>14. CASE UNCHANGED sessionVars
  BY <1>6, <1>14 DEF sessionVars
<1> QED
  BY <1>6, <1>8, <1>9, <1>10, <1>11, <1>12, <1>13, <1>14 DEF SessionsNext

\* What a page shows changes when it goes away or loads.
LEMMA PageStep ==
  ASSUME SessionsTypeOK, [SessionsNext]_sessionVars, NEW q \in Pages
  PROVE  \/ page'[q] = page[q]
         \/ page'[q] = NoPage /\ {call[q].pc, call'[q].pc} \cap {"save", "csrf", "accepted"} = {}
         \/ PageLoads(q) /\ page'[q] = [as |-> call[q].user, csrf |-> call[q].csrf]
<1>1. DOMAIN page = Pages /\ DOMAIN call = Pages
  BY DEF SessionsTypeOK
<1>2. ASSUME NEW p \in Pages,
             OpenPage(p) \/ SignOut(p) \/ \E person \in Persons : SignIn(p, person)
      PROVE  /\ page' = [page EXCEPT ![p] = NoPage] /\ call[p] = NoCall
             /\ call'[p].pc \in {"me", "logout", "welcome"}
  <2>1. CASE OpenPage(p)
    BY <1>1, <2>1 DEF OpenPage
  <2>2. CASE SignOut(p)
    BY <1>1, <2>2 DEF SignOut, Send
  <2>3. ASSUME NEW person \in Persons, SignIn(p, person)
        PROVE  /\ page' = [page EXCEPT ![p] = NoPage] /\ call[p] = NoCall
               /\ call'[p].pc = "welcome"
    BY <1>1, <2>3 DEF SignIn
  <2> QED
    BY <1>2, <2>1, <2>2, <2>3
<1>3. CASE \E p \in Pages :
             OpenPage(p) \/ SignOut(p) \/ \E person \in Persons : SignIn(p, person)
  <2>1. PICK p \in Pages :
               OpenPage(p) \/ SignOut(p) \/ \E person \in Persons : SignIn(p, person)
    BY <1>3
  <2>2. /\ page' = [page EXCEPT ![p] = NoPage] /\ call[p] = NoCall
        /\ call'[p].pc \in {"me", "logout", "welcome"}
    BY <1>2, <2>1
  <2> QED
    BY <1>1, <2>2 DEF NoCall
<1>4. CASE \E p \in Pages : PageLoads(p)
  BY <1>1, <1>4 DEF PageLoads
<1>5. CASE page' = page
  BY <1>5
<1>6. ASSUME NEW p \in Pages, \/ FindUser(p) \/ Rotate(p) \/ AnswerIsLost(p) \/ Welcome(p)
                              \/ EndSession(p) \/ Goodbye(p) \/ Submit(p) \/ FindSaver(p)
                              \/ CheckSave(p) \/ Saved(p)
      PROVE  page' = page
  BY <1>6 DEF FindUser, Rotate, AnswerIsLost, Welcome, EndSession, Goodbye, Submit, FindSaver,
       CheckSave, Saved
<1> QED
  BY <1>3, <1>4, <1>5, <1>6 DEF SessionsNext, sessionVars, Expire

\* What becomes of the request of a page.
LEMMA CallStep ==
  ASSUME SessionsTypeOK, [SessionsNext]_sessionVars, NEW q \in Pages
  PROVE  \/ call'[q] = call[q]
         \/ FindUser(q) \/ Rotate(q) \/ Submit(q) \/ FindSaver(q) \/ CheckSave(q)
         \/ call'[q].pc \in {"none", "me", "welcome", "logout", "bye"}
<1>1. DOMAIN call = Pages
  BY DEF SessionsTypeOK
<1>2. ASSUME NEW p \in Pages, p # q,
             \/ OpenPage(p) \/ FindUser(p) \/ Rotate(p) \/ PageLoads(p) \/ AnswerIsLost(p)
             \/ Welcome(p) \/ SignOut(p) \/ EndSession(p) \/ Goodbye(p) \/ Submit(p)
             \/ FindSaver(p) \/ CheckSave(p) \/ Saved(p)
      PROVE  call'[q] = call[q]
  BY <1>1, <1>2 DEF OpenPage, FindUser, Rotate, PageLoads, AnswerIsLost, Welcome, SignOut,
     EndSession, Goodbye, Submit, FindSaver, CheckSave, Saved, Return, Send
<1>3. ASSUME NEW p \in Pages, NEW person \in Persons, SignIn(p, person)
      PROVE  call'[q] = call[q] \/ call'[q].pc = "welcome"
  BY <1>1, <1>3 DEF SignIn
<1>4. ASSUME \/ PageLoads(q) \/ AnswerIsLost(q) \/ Welcome(q) \/ Goodbye(q) \/ Saved(q)
             \/ EndSession(q)
      PROVE  call'[q].pc \in {"none", "bye"}
  BY <1>1, <1>4 DEF PageLoads, AnswerIsLost, Welcome, Goodbye, Saved, EndSession, Return,
     NoCall
<1>5. ASSUME OpenPage(q) \/ SignOut(q)
      PROVE  call'[q].pc \in {"me", "logout"}
  BY <1>1, <1>5 DEF OpenPage, SignOut, Send
<1>6. CASE call' = call
  BY <1>6
<1> QED
  BY <1>2, <1>3, <1>4, <1>5, <1>6 DEF SessionsNext, sessionVars, Expire

\* Every step gives out what it uses.
LEMMA GivenOutStep ==
  ASSUME SessionsTypeOK, GivenOut, [SessionsNext]_sessionVars
  PROVE  GivenOut'
<1>1. /\ SessionsTypeOK' /\ tokens \in Nat /\ tokens' \in Nat /\ tokens <= tokens'
      /\ Len(sessions) \in Nat /\ Len(sessions') \in Nat /\ Len(sessions) <= Len(sessions')
  <2>1. SessionsTypeOK'
    BY TypeStep
  <2>2. Len(sessions') \in Nat
    BY <2>1, LenProperties DEF SessionsTypeOK
  <2> QED
    BY <2>1, <2>2, Entries, SessionsStep DEF SessionsTypeOK
<1>2. \A s \in DOMAIN sessions' : sessions'[s].csrf <= tokens'
  BY <1>1, Entries, SessionsStep DEF GivenOut, Ended
<1>3. /\ jar.session \in Nat /\ jar.session <= Len(sessions)
      /\ \A q \in Pages :
           /\ page[q].csrf \in Nat /\ page[q].csrf <= tokens
           /\ call[q].pc \in {"me", "rotate", "welcome", "save", "csrf", "logout"}
                => call[q].session \in Nat /\ call[q].session <= Len(sessions)
           /\ call[q].pc \in {"answer", "welcome"}
                => call[q].csrf \in Nat /\ call[q].csrf <= tokens
  BY CallFields DEF GivenOut, SessionsTypeOK
<1>4. /\ DOMAIN call = Pages /\ DOMAIN page = Pages
      /\ DOMAIN call' = Pages /\ DOMAIN page' = Pages
  BY <1>1 DEF SessionsTypeOK
<1>5. jar'.session <= Len(sessions')
  <2>1. CASE \E p \in Pages : Welcome(p)
    BY <1>1, <1>3, <2>1 DEF Welcome
  <2>2. CASE \E p \in Pages : PageLoads(p)
    <3>1. jar'.session = jar.session
      BY <2>2 DEF PageLoads, SessionsTypeOK
    <3> QED
      BY <1>1, <1>3, <3>1
  <2>3. CASE \E p \in Pages : Goodbye(p)
    BY <1>1, <2>3 DEF Goodbye
  <2>4. CASE UNCHANGED jar
    BY <1>1, <1>3, <2>4
  <2> QED
    BY <2>1, <2>2, <2>3, <2>4 DEF SessionsNext, sessionVars, OpenPage, FindUser, Rotate,
       AnswerIsLost, SignIn, SignOut, EndSession, Submit, FindSaver, CheckSave, Saved, Expire
<1>6. ASSUME NEW q \in Pages
      PROVE  page'[q].csrf <= tokens'
  <2>1. CASE PageLoads(q) /\ page'[q] = [as |-> call[q].user, csrf |-> call[q].csrf]
    BY <1>1, <1>3, <2>1 DEF PageLoads
  <2> QED
    BY <1>1, <1>3, <2>1, PageStep DEF NoPage
<1>7. ASSUME NEW q \in Pages
      PROVE  /\ call'[q].pc \in {"me", "rotate", "welcome", "save", "csrf", "logout"}
                  => call'[q].session <= Len(sessions')
             /\ call'[q].pc \in {"answer", "welcome"} => call'[q].csrf <= tokens'
  <2>1. CASE call'[q] = call[q]
    BY <1>1, <1>3, <2>1
  <2>2. CASE call'[q] = NoCall
    BY <2>2 DEF NoCall
  <2>3. CASE OpenPage(q)
    BY <1>1, <1>3, <1>4, <2>3 DEF OpenPage
  <2>4. CASE FindUser(q)
    BY <1>1, <1>3, <1>4, <2>4 DEF FindUser, Return, NoCall
  <2>5. CASE Rotate(q)
    BY <1>1, <1>4, <2>5 DEF Rotate
  <2>6. CASE \E person \in Persons : SignIn(q, person)
    BY <1>1, <1>4, <2>6 DEF SignIn
  <2>7. CASE SignOut(q) \/ Submit(q)
    BY <1>1, <1>3, <1>4, <2>7 DEF SignOut, Submit, Send
  <2>8. CASE EndSession(q) \/ CheckSave(q)
    BY <1>4, <2>8 DEF EndSession, CheckSave, Return, NoCall
  <2>9. CASE FindSaver(q)
    BY <1>1, <1>3, <1>4, <2>9 DEF FindSaver, Return, NoCall
  <2> QED
    BY <1>4, <2>1, <2>2, <2>3, <2>4, <2>5, <2>6, <2>7, <2>8, <2>9
    DEF SessionsNext, sessionVars, OpenPage, FindUser, Rotate, PageLoads, AnswerIsLost,
        SignIn, Welcome, SignOut, EndSession, Goodbye, Submit, FindSaver, CheckSave, Saved, Expire,
        Return, Send
<1> QED
  BY <1>2, <1>5, <1>6, <1>7 DEF GivenOut

\* A token that has been given out never comes to belong to somebody else.
LEMMA BelongsStep ==
  ASSUME SessionsTypeOK, GivenOut, [SessionsNext]_sessionVars,
         NEW csrf \in Nat, csrf <= tokens, NEW person, Belongs(csrf, person)
  PROVE  Belongs(csrf, person)'
<1>1. tokens \in Nat
  BY DEF SessionsTypeOK
<1> QED
  BY <1>1, SessionsStep DEF Belongs, Ended

\* The owner of a session stays its owner until the session ends.
LEMMA UserStep ==
  ASSUME SessionsTypeOK, GivenOut, [SessionsNext]_sessionVars,
         NEW s \in Nat, s <= Len(sessions)
  PROVE  UserOf(s)' \in {UserOf(s), Nobody}
BY Entries, SessionsStep DEF UserOf, Ended

\* Nobody else gets a session that is over or somebody's.
LEMMA OwnedStep ==
  ASSUME SessionsTypeOK, GivenOut, [SessionsNext]_sessionVars, NEW c, StillOwned(c)
  PROVE  /\ c.session \in DOMAIN sessions'
         /\ sessions'[c.session] = Ended \/ sessions'[c.session].of = c.user
BY SessionsStep DEF StillOwned

\* A page goes on to show whom its token belongs to.
LEMMA OwnersStep ==
  ASSUME SessionsTypeOK, GivenOut, PagesShowOwners, [SessionsNext]_sessionVars
  PROVE  PagesShowOwners'
<1>1. ASSUME NEW q \in Pages
      PROVE  /\ page[q].csrf \in Nat /\ page[q].csrf <= tokens
             /\ call[q].pc = "rotate"
                  => call[q].session \in Nat /\ call[q].session <= Len(sessions)
             /\ call[q].pc = "answer" => call[q].csrf \in Nat /\ call[q].csrf <= tokens
             /\ DOMAIN call = Pages
  BY CallFields DEF GivenOut, SessionsTypeOK
<1>2. ASSUME NEW q \in Pages
      PROVE  Belongs(page[q].csrf, page[q].as)'
  <2>1. CASE page'[q] = page[q]
    <3>1. Belongs(page[q].csrf, page[q].as)
      BY DEF PagesShowOwners
    <3> DEFINE c == page[q].csrf
               a == page[q].as
    <3>2. \A s \in DOMAIN sessions' : c # 0 /\ sessions'[s].csrf = c => sessions'[s].of = a
      <4> HIDE DEF c, a
      <4> QED
        BY <1>1, <3>1, BelongsStep DEF Belongs, c, a
    <3> QED
      BY <2>1, <3>2 DEF Belongs
  <2>2. CASE page'[q] = NoPage
    BY <2>2 DEF Belongs, NoPage
  <2>3. CASE PageLoads(q) /\ page'[q] = [as |-> call[q].user, csrf |-> call[q].csrf]
    <3>1. Belongs(call[q].csrf, call[q].user) /\ sessions' = sessions
      BY <2>3 DEF PagesShowOwners, PageLoads
    <3> QED
      BY <2>3, <3>1 DEF Belongs
  <2> QED
    BY <2>1, <2>2, <2>3, PageStep
<1>3. ASSUME NEW q \in Pages
      PROVE  /\ (call[q].pc = "rotate" => UserOf(call[q].session) \in {call[q].user, Nobody})'
             /\ (call[q].pc = "answer" => Belongs(call[q].csrf, call[q].user))'
             /\ (call[q].pc \in {"save", "csrf"} => call[q].header = page[q].csrf)'
             /\ (call[q].pc = "csrf" => StillOwned(call[q]))'
  <2>1. CASE call'[q] = call[q]
    <3>1. CASE call[q].pc = "rotate"
      <4>1. PICK n \in Nat : n = call[q].session /\ n <= Len(sessions)
        BY <1>1, <3>1
      <4>2. UserOf(n)' \in {UserOf(n), Nobody}
        BY <4>1, UserStep
      <4>3. UserOf(n) \in {call[q].user, Nobody}
        BY <3>1, <4>1 DEF PagesShowOwners
      <4>4. call'[q].session = n /\ call'[q].user = call[q].user /\ call'[q].pc = "rotate"
        BY <2>1, <3>1, <4>1
      <4>5. UserOf(call[q].session)' = UserOf(n)'
        BY <4>4 DEF UserOf
      <4> QED
        BY <4>2, <4>3, <4>4, <4>5
    <3>2. CASE call[q].pc = "answer"
      <4>1. PICK c \in Nat, a \in Somebody : c = call[q].csrf /\ a = call[q].user /\ c <= tokens
        BY <1>1, <3>2, CallFields
      <4>2. Belongs(c, a)'
        <5>1. Belongs(c, a)
          BY <3>2, <4>1 DEF PagesShowOwners
        <5> QED
          BY <4>1, <5>1, BelongsStep
      <4>3. call'[q].csrf = c /\ call'[q].user = a /\ call'[q].pc = "answer"
        BY <2>1, <3>2, <4>1
      <4>4. Belongs(call[q].csrf, call[q].user)'
        BY <4>2, <4>3 DEF Belongs
      <4> QED
        BY <4>3, <4>4
    <3>3. CASE call[q].pc \in {"save", "csrf"}
      <4>1. page'[q] = page[q]
        BY <2>1, <3>3, PageStep DEF PageLoads
      <4>2. call[q].pc = "csrf" => StillOwned(call[q])'
        BY <2>1, OwnedStep DEF PagesShowOwners, StillOwned
      <4> QED
        BY <2>1, <3>3, <4>1, <4>2 DEF PagesShowOwners, StillOwned
    <3> QED
      BY <2>1, <3>1, <3>2, <3>3
  <2>2. CASE FindUser(q)
    <3>1. UserOf(call[q].session) # Nobody /\ sessions' = sessions
            => call'[q] = [pc |-> "rotate", session |-> call[q].session,
                           user |-> UserOf(call[q].session)]
      BY <1>1, <2>2 DEF FindUser
    <3>2. sessions' = sessions
      BY <2>2 DEF FindUser
    <3>3. UserOf(call[q].session) = Nobody => call'[q] = NoCall
      BY <1>1, <2>2 DEF FindUser, Return
    <3> QED
      BY <3>1, <3>2, <3>3 DEF UserOf, NoCall
  <2>3. CASE Rotate(q)
    <3> DEFINE n == call[q].session
    <3>1. /\ n \in Nat /\ n <= Len(sessions) /\ call[q].pc = "rotate"
          /\ UserOf(n) \in {call[q].user, Nobody}
      BY <1>1, <2>3 DEF Rotate, PagesShowOwners
    <3>2. CASE UserOf(n) = Nobody
      BY <1>1, <2>3, <3>2 DEF Rotate, Belongs
    <3>3. CASE UserOf(n) # Nobody
      <4>1. n \in DOMAIN sessions /\ sessions[n].of = call[q].user
        BY <3>1, <3>3, UserFacts
      <4>2. call'[q] = [pc |-> "answer", user |-> call[q].user, csrf |-> tokens + 1]
        BY <1>1, <2>3, <3>3 DEF Rotate
      <4>3. \A s \in DOMAIN sessions' :
              sessions'[s].csrf = tokens + 1 => sessions'[s].of = call[q].user
        <5>1. sessions' = [sessions EXCEPT ![n] = [sessions[n] EXCEPT !.csrf = tokens + 1]]
          BY <2>3, <3>3, <4>1 DEF Rotate
        <5>2. \A s \in DOMAIN sessions :
                /\ sessions[s] \in [of : Somebody, csrf : Nat]
                /\ sessions[s].csrf <= tokens /\ tokens \in Nat
          BY Entries DEF GivenOut, Entry, SessionsTypeOK
        <5> QED
          BY <4>1, <5>1, <5>2
      <4> QED
        BY <4>2, <4>3 DEF Belongs
    <3> QED
      BY <3>2, <3>3
  <2>4. CASE Submit(q)
    BY <1>1, <2>4 DEF Submit, Send
  <2>5. CASE call'[q].pc \notin {"rotate", "answer", "save", "csrf"}
    BY <2>5
  <2>6. CASE CheckSave(q)
    BY <1>1, <2>6 DEF CheckSave, Return, NoCall
  <2>7. CASE FindSaver(q)
    <3> DEFINE user == UserOf(call[q].session)
    <3>1. /\ call[q].pc = "save" /\ UNCHANGED <<sessions, page>>
          /\ call'[q] = IF user = Nobody THEN NoCall
                        ELSE [pc |-> "csrf", user |-> user, session |-> call[q].session,
                              cookie |-> call[q].cookie, header |-> call[q].header]
      BY <1>1, <2>7 DEF FindSaver, Return
    <3>2. user # Nobody =>
            call[q].session \in DOMAIN sessions /\ user = sessions[call[q].session].of
      BY <3>1, CallFields, UserFacts DEF GivenOut
    <3> QED
      BY <3>1, <3>2 DEF PagesShowOwners, StillOwned, NoCall
  <2> QED
    BY <1>1, <2>1, <2>2, <2>3, <2>4, <2>5, <2>6, <2>7, CallStep
<1> QED
  BY <1>2, <1>3 DEF PagesShowOwners

\* A save is accepted for whom its page shows.
LEMMA SavesStep ==
  ASSUME SessionsTypeOK, PagesShowOwners, SavesAsItself, GivenOut, [SessionsNext]_sessionVars
  PROVE  SavesAsItself'
<1> SUFFICES ASSUME NEW q \in Pages, call'[q].pc = "accepted"
             PROVE  call'[q].user = page'[q].as
  BY DEF SavesAsItself
<1>1. DOMAIN call = Pages /\ DOMAIN page = Pages
  BY DEF SessionsTypeOK
<1>2. CASE CheckSave(q)
  <2> DEFINE c == call[q]
  <2>1. CsrfHolds(c) /\ c.pc = "csrf" /\ call'[q].user = c.user /\ page' = page
    BY <1>1, <1>2 DEF CheckSave, Return, NoCall
  <2>2. c.session \in DOMAIN sessions /\ c.user = sessions[c.session].of
    BY <2>1 DEF PagesShowOwners, StillOwned, CsrfHolds, Ended
  <2>3. /\ sessions[c.session].csrf = page[q].csrf /\ page[q].csrf # 0
        /\ Belongs(page[q].csrf, page[q].as)
    BY <2>1 DEF CsrfHolds, PagesShowOwners
  <2> QED
    BY <2>1, <2>2, <2>3 DEF Belongs
<1>3. CASE call'[q] = call[q]
  <2>1. page'[q] = page[q]
    BY <1>3, PageStep DEF PageLoads
  <2> QED
    BY <1>3, <2>1 DEF SavesAsItself
<1>4. ASSUME FindUser(q) \/ Rotate(q) \/ Submit(q) \/ FindSaver(q)
      PROVE  call'[q].pc \in {"none", "rotate", "answer", "save", "csrf"}
  BY <1>1, <1>4 DEF FindUser, Rotate, Submit, FindSaver, Send, Return, NoCall
<1> QED
  BY <1>2, <1>3, <1>4, CallStep

\* The inductive invariant: only tokens that were given out are held, each shown
\* with whom it belongs to.
LEMMA SavesInvariant == SessionsSpec => []SavesInv
<1>1. SessionsInit => SavesInv
  <2> SUFFICES ASSUME SessionsInit
               PROVE  SavesInv
    OBVIOUS
  <2>1. sessions \in Seq(Entry)
    BY EmptySeq DEF SessionsInit
  <2>2. NoCall \in Calls /\ NoPage \in [as : Somebody, csrf : Nat]
    BY DEF NoCall, NoPage, Calls, Somebody
  <2>3. SessionsTypeOK
    BY <2>1, <2>2 DEF SessionsInit, SessionsTypeOK
  <2>4. Len(sessions) = 0 /\ DOMAIN sessions = {}
    BY DEF SessionsInit
  <2> QED
    BY <2>3, <2>4 DEF SessionsInit, SavesInv, GivenOut, PagesShowOwners, SavesAsItself,
       Belongs, NoCall, NoPage
<1>2. SavesInv /\ [SessionsNext]_sessionVars => SavesInv'
  BY TypeStep, GivenOutStep, OwnersStep, SavesStep DEF SavesInv
<1> QED
  BY <1>1, <1>2, PTL DEF SessionsSpec

\* What the sessions, cookies, pages and requests may hold.
THEOREM SessionsTypeCorrect == SessionsSpec => []SessionsTypeOK
<1>1. SavesInv => SessionsTypeOK
  BY DEF SavesInv
<1> QED
  BY <1>1, SavesInvariant, PTL

\* Whoever signs in from another page and whichever answer set the cookies last,
\* a save is accepted only for the account that its page shows.
THEOREM PagesSaveAsThemselves == SessionsSpec => []SavesAsItself
<1>1. SavesInv => SavesAsItself
  BY DEF SavesInv
<1> QED
  BY <1>1, SavesInvariant, PTL
-----------------------------------------------------------------------------
\* The last page that began something, while nobody else was at it, is alone, and
\* what it is about to be told is what the browser and the session have.
Undisturbed(p) ==
  /\ \A q \in Pages \ {p} : ~Changing(q)
  /\ call[p].pc \in {"me", "rotate"} => call[p].session = jar.session
  /\ call[p].pc = "answer" /\ call[p].csrf # 0 /\ UserOf(jar.session) # Nobody =>
       /\ sessions[jar.session].of = call[p].user
       /\ sessions[jar.session].csrf = call[p].csrf

NewestInv ==
  /\ \A p \in Pages \ disturbed : Undisturbed(p)
  /\ \A p \in newest : p \notin disturbed /\ ~Changing(p)
  /\ NewestMaySave

\* The newest page remains good for saving.
LEMMA NewestStep ==
  ASSUME SavesInv, SavesInv', NewestInv, [SessionsNext]_sessionVars
  PROVE  NewestInv'
<1>1. /\ DOMAIN call = Pages /\ DOMAIN page = Pages /\ newest \subseteq Pages
      /\ jar \in [session : Nat, csrf : Nat] /\ jar.session <= Len(sessions)
      /\ SessionsTypeOK /\ GivenOut /\ PagesShowOwners
  BY DEF SavesInv, SessionsTypeOK, GivenOut
<1>2. ASSUME NEW p \in Pages, newest' = {},
             disturbed' = IF \E q \in Pages \ {p} : Changing(q) THEN Pages ELSE Pages \ {p},
             \A q \in Pages \ {p} : call'[q] = call[q],
             call'[p].pc \in {"me", "welcome", "logout"},
             call'[p].pc = "me" => call'[p].session = jar'.session
      PROVE  NewestInv'
  BY <1>2 DEF NewestInv, Undisturbed, NewestMaySave, Changing
<1>3. ASSUME NEW p \in Pages, OpenPage(p)
      PROVE  NewestInv'
  BY <1>1, <1>2, <1>3 DEF OpenPage, Disturb
<1>4. ASSUME NEW p \in Pages, NEW person \in Persons, SignIn(p, person)
      PROVE  NewestInv'
  BY <1>1, <1>2, <1>4 DEF SignIn, Disturb
<1>5. ASSUME NEW p \in Pages, SignOut(p)
      PROVE  NewestInv'
  BY <1>1, <1>2, <1>5 DEF SignOut, Send, Disturb
<1>6. ASSUME NEW p \in Pages, Changing(p), disturbed' = disturbed,
             newest' = newest \/ newest' = {p} \ disturbed,
             \A q \in Pages \ {p} : call'[q] = call[q],
             p \notin disturbed => Undisturbed(p)',
             newest' # {} => ~Changing(p)' /\ NewestMaySave'
      PROVE  NewestInv'
  <2>1. newest = {}
    BY <1>1, <1>6 DEF NewestInv, Undisturbed
  <2>2. \A q \in Pages \ disturbed : q = p
    BY <1>6 DEF NewestInv, Undisturbed
  <2> QED
    BY <1>6, <2>1, <2>2 DEF NewestInv, Undisturbed, NewestMaySave
<1>7. ASSUME NEW p \in Pages, FindUser(p)
      PROVE  NewestInv'
  <2>1. /\ Changing(p) /\ UNCHANGED <<jar, disturbed, newest, sessions>>
        /\ \A q \in Pages \ {p} : call'[q] = call[q]
        /\ call'[p].pc \in {"none", "rotate"}
        /\ call'[p].pc = "rotate" => call'[p].session = call[p].session
        /\ call[p].pc = "me"
    BY <1>1, <1>7 DEF FindUser, Return, NoCall, Changing
  <2>2. p \notin disturbed => Undisturbed(p)'
    BY <2>1 DEF NewestInv, Undisturbed, Changing
  <2>3. newest = {}
    BY <1>1, <2>1 DEF NewestInv, Undisturbed
  <2> QED
    BY <1>6, <2>1, <2>2, <2>3
<1>8. ASSUME NEW p \in Pages, Rotate(p)
      PROVE  NewestInv'
  <2> DEFINE n == call[p].session
  <2>1. /\ Changing(p) /\ UNCHANGED <<jar, disturbed, newest>>
        /\ \A q \in Pages \ {p} : call'[q] = call[q]
        /\ call[p].pc = "rotate" /\ call'[p].pc = "answer"
        /\ call'[p].user = call[p].user
        /\ n \in Nat /\ n <= Len(sessions) /\ UserOf(n) \in {call[p].user, Nobody}
    BY <1>1, <1>8, CallFields DEF Rotate, Changing, GivenOut, PagesShowOwners
  <2>2. newest = {}
    BY <1>1, <2>1 DEF NewestInv, Undisturbed
  <2>3. ASSUME p \notin disturbed
        PROVE  Undisturbed(p)'
    <3>1. \A q \in Pages \ {p} : ~Changing(q)'
      BY <2>1, <2>3 DEF NewestInv, Undisturbed, Changing
    <3>2. jar'.session = n
      BY <2>1, <2>3 DEF NewestInv, Undisturbed
    <3>3. CASE UserOf(n) = Nobody
      <4>1. call'[p].csrf = 0
        BY <1>1, <1>8, <3>3 DEF Rotate
      <4> QED
        BY <2>1, <3>1, <4>1 DEF Undisturbed
    <3>4. CASE UserOf(n) # Nobody
      <4>1. n \in DOMAIN sessions /\ sessions[n].of = call[p].user
        BY <1>1, <2>1, <3>4, UserFacts
      <4>2. /\ sessions' = [sessions EXCEPT ![n] = [sessions[n] EXCEPT !.csrf = tokens']]
            /\ call'[p].csrf = tokens'
        BY <1>1, <1>8, <3>4, <4>1 DEF Rotate
      <4>3. sessions[n] \in [of : Somebody, csrf : Nat]
        BY <1>1, <4>1, Entries DEF Entry
      <4>4. sessions'[n].of = call[p].user /\ sessions'[n].csrf = tokens'
        BY <4>1, <4>2, <4>3
      <4> QED
        BY <2>1, <3>1, <3>2, <4>2, <4>4 DEF Undisturbed
    <3> QED
      BY <3>3, <3>4
  <2> QED
    BY <1>6, <2>1, <2>2, <2>3
<1>9. ASSUME NEW p \in Pages, PageLoads(p)
      PROVE  NewestInv'
  <2>1. /\ Changing(p) /\ UNCHANGED <<disturbed, sessions>>
        /\ newest' = IF p \in disturbed THEN {} ELSE {p}
        /\ \A q \in Pages \ {p} : call'[q] = call[q]
        /\ call[p].pc = "answer" /\ call'[p] = NoCall
        /\ page'[p] = [as |-> call[p].user, csrf |-> call[p].csrf]
    BY <1>1, <1>9 DEF PageLoads, Return, Changing
  <2>2. ~Changing(p)'
    BY <2>1 DEF NoCall, Changing
  <2>3. newest = {}
    BY <1>1, <2>1 DEF NewestInv, Undisturbed
  <2>4. p \notin disturbed => Undisturbed(p)'
    BY <2>1 DEF NewestInv, Undisturbed, Changing, NoCall
  <2>5. ASSUME p \notin disturbed
        PROVE  NewestMaySave'
    <3>1. jar' = IF call[p].csrf = 0 THEN jar ELSE [jar EXCEPT !.csrf = call[p].csrf]
      BY <1>9 DEF PageLoads
    <3>2. jar'.session = jar.session /\ (call[p].csrf # 0 => jar'.csrf = call[p].csrf)
      BY <1>1, <3>1
    <3>3. call[p].csrf # 0 /\ UserOf(jar.session) # Nobody =>
            /\ sessions[jar.session].of = call[p].user
            /\ sessions[jar.session].csrf = call[p].csrf
      BY <2>1, <2>5 DEF NewestInv, Undisturbed
    <3> QED
      BY <2>1, <2>5, <3>2, <3>3 DEF NewestMaySave, UserOf
  <2> QED
    BY <1>6, <2>1, <2>2, <2>3, <2>4, <2>5
<1>10. ASSUME NEW p \in Pages, AnswerIsLost(p) \/ Welcome(p) \/ EndSession(p) \/ Goodbye(p)
       PROVE  NewestInv'
  <2>1. /\ Changing(p) /\ UNCHANGED <<disturbed, newest>>
        /\ \A q \in Pages \ {p} : call'[q] = call[q]
        /\ call'[p].pc \in {"none", "bye"}
    BY <1>1, <1>10 DEF AnswerIsLost, Welcome, EndSession, Goodbye, Return, NoCall, Changing
  <2>2. newest = {}
    BY <1>1, <2>1 DEF NewestInv, Undisturbed
  <2>3. p \notin disturbed => Undisturbed(p)'
    BY <2>1 DEF NewestInv, Undisturbed, Changing
  <2> QED
    BY <1>6, <2>1, <2>2, <2>3
<1>11. ASSUME NEW p \in Pages, Submit(p) \/ FindSaver(p) \/ CheckSave(p) \/ Saved(p)
       PROVE  NewestInv'
  <2>1. /\ ~Changing(p) /\ UNCHANGED <<disturbed, newest, jar, sessions, page>>
        /\ \A q \in Pages \ {p} : call'[q] = call[q]
        /\ call'[p].pc \in {"none", "save", "csrf", "accepted"}
    BY <1>1, <1>11 DEF Submit, FindSaver, CheckSave, Saved, Send, Return, NoCall, Changing
  <2>2. \A q \in Pages \ disturbed : Undisturbed(q)'
    BY <2>1 DEF NewestInv, Undisturbed, Changing, UserOf
  <2>3. \A q \in newest' : q \notin disturbed' /\ ~Changing(q)'
    BY <1>1, <2>1 DEF NewestInv, Changing
  <2> QED
    BY <2>1, <2>2, <2>3 DEF NewestInv, NewestMaySave, UserOf
<1>12. ASSUME NEW s \in DOMAIN sessions, Expire(s)
       PROVE  NewestInv'
  <2>1. sessions' = [sessions EXCEPT ![s] = Ended]
        /\ UNCHANGED <<jar, page, call, disturbed, newest>>
    BY <1>12 DEF Expire
  <2>2. jar.session # 0 /\ sessions'[jar.session].of # Nobody
          => sessions'[jar.session] = sessions[jar.session]
    BY <1>1, <2>1, Entries DEF Ended
  <2>3. UserOf(jar.session)' # Nobody =>
          /\ UserOf(jar.session) # Nobody /\ UserOf(jar.session)' = UserOf(jar.session)
          /\ sessions'[jar.session] = sessions[jar.session]
    BY <2>1, <2>2 DEF UserOf
  <2> QED
    BY <2>1, <2>3 DEF NewestInv, Undisturbed, NewestMaySave, Changing
<1>13. CASE UNCHANGED sessionVars
  BY <1>13 DEF sessionVars, NewestInv, Undisturbed, NewestMaySave, Changing, UserOf
<1> QED
  BY <1>3, <1>4, <1>5, <1>7, <1>8, <1>9, <1>10, <1>11, <1>12, <1>13 DEF SessionsNext

\* A page that loaded while nothing else changed tokens holds the token that the
\* browser and its session have, until another page begins something.
THEOREM NewestPageMaySave == SessionsSpec => []NewestMaySave
<1>1. SessionsInit => NewestInv
  BY DEF SessionsInit, NewestInv, Undisturbed, NewestMaySave, Changing, NoCall
<1>2. NewestInv /\ SavesInv /\ SavesInv' /\ [SessionsNext]_sessionVars => NewestInv'
  BY NewestStep
<1>3. NewestInv => NewestMaySave
  BY DEF NewestInv
<1> QED
  BY <1>1, <1>2, <1>3, SavesInvariant, PTL DEF SessionsSpec
=============================================================================
