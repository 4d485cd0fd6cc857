------------------------------ MODULE Sessions ------------------------------
(***************************************************************************)
(* The pages that one browser has open on the portal.  Every page asks     *)
(* /api/auth/me when it loads, which replaces the CSRF token of the        *)
(* session; the answer brings the new token to the page and, as a cookie,  *)
(* to the browser, whose cookies all pages share.  Answers may overtake    *)
(* one another or be lost.                                                 *)
(*                                                                         *)
(* Roles and passwords are left out: whoever has a session may save.  An   *)
(* account that is deactivated ends its sessions as their expiry does.     *)
(***************************************************************************)
EXTENDS Naturals, Sequences

CONSTANTS
  Pages,       \* bound: pages open in the browser
  Persons,     \* accounts that sign in from it
  Nobody,
  MaxSessions, \* bound: sessions
  MaxTokens    \* bound: CSRF tokens

VARIABLES
  sessions,    \* the sessions, in the order in which they began
  tokens,      \* CSRF tokens given out
  jar,         \* the cookies of the browser; 0 is none
  page,        \* what a page shows, and its csrfToken
  call,        \* the request a page has under way
  disturbed,   \* history: pages whose answer met another request that changes tokens
  newest       \* history: the page that loaded last, if nothing disturbed it

sessionVars == <<sessions, tokens, jar, page, call, disturbed, newest>>

Ended == [of |-> Nobody, csrf |-> 0]
NoPage == [as |-> Nobody, csrf |-> 0]
NoCall == [pc |-> "none"]

Somebody == Persons \cup {Nobody}
Entry == [of : Somebody, csrf : Nat]

\* What a request carries, by where it is.
Calls ==
  [pc : {"none", "bye"}] \cup [pc : {"me"}, session : Nat]
    \cup [pc : {"rotate"}, session : Nat, user : Somebody]
    \cup [pc : {"answer"}, user : Somebody, csrf : Nat]
    \cup [pc : {"welcome"}, session : Nat, csrf : Nat]
    \cup [pc : {"save", "logout"}, session : Nat, cookie : Nat, header : Nat]
    \cup [pc : {"csrf"}, user : Somebody, session : Nat, cookie : Nat, header : Nat]
    \cup [pc : {"accepted"}, user : Somebody]

SessionsTypeOK ==
  /\ sessions \in Seq(Entry) /\ tokens \in Nat
  /\ jar \in [session : Nat, csrf : Nat]
  /\ page \in [Pages -> [as : Somebody, csrf : Nat]]
  /\ call \in [Pages -> Calls]
  /\ disturbed \in SUBSET Pages /\ newest \in SUBSET Pages

SessionsInit ==
  /\ sessions = <<>>
  /\ tokens = 0
  /\ jar = [session |-> 0, csrf |-> 0]
  /\ page = [p \in Pages |-> NoPage]
  /\ call = [p \in Pages |-> NoCall]
  /\ disturbed = {} /\ newest = {}

\* get_session_user
UserOf(s) == IF s = 0 THEN Nobody ELSE sessions[s].of

Return(p) == call' = [call EXCEPT ![p] = NoCall]

\* Requests that change tokens or cookies.
Changing(p) == call[p].pc \notin {"none", "save", "csrf", "accepted"}

Disturb(p) ==
  /\ disturbed' = IF \E q \in Pages \ {p} : Changing(q) THEN Pages ELSE Pages \ {p}
  /\ newest' = {}
-----------------------------------------------------------------------------
(***************************************************************************)
(* Loading a page                                                          *)
(***************************************************************************)

OpenPage(p) ==
  /\ call[p] = NoCall
  /\ call' = [call EXCEPT ![p] = [pc |-> "me", session |-> jar.session]]
  /\ page' = [page EXCEPT ![p] = NoPage]
  /\ Disturb(p)
  /\ UNCHANGED <<sessions, tokens, jar>>

\* /api/auth/me looks for the user; without one the page goes to the sign-in form.
FindUser(p) ==
  /\ call[p].pc = "me"
  /\ LET user == UserOf(call[p].session)
     IN  IF user = Nobody THEN Return(p)
         ELSE call' = [call EXCEPT ![p] =
                [pc |-> "rotate", session |-> call[p].session, user |-> user]]
  /\ UNCHANGED <<sessions, tokens, jar, page, disturbed, newest>>

\* rotate_csrf_token, unless the session has ended meanwhile.
Rotate(p) ==
  /\ call[p].pc = "rotate"
  /\ tokens < MaxTokens
  /\ tokens' = tokens + 1
  /\ LET s == call[p].session
         alive == UserOf(s) # Nobody
     IN  /\ sessions' = IF alive THEN [sessions EXCEPT ![s].csrf = tokens'] ELSE sessions
         /\ call' = [call EXCEPT ![p] =
              [pc |-> "answer", user |-> call[p].user, csrf |-> IF alive THEN tokens' ELSE 0]]
  /\ UNCHANGED <<jar, page, disturbed, newest>>

\* Mutant of PageLoads: the token is in the answer and not in a cookie.
PageLoadsWithoutCookie(p) ==
  /\ call[p].pc = "answer"
  /\ page' = [page EXCEPT ![p] = [as |-> call[p].user, csrf |-> call[p].csrf]]
  /\ newest' = IF p \in disturbed THEN {} ELSE {p}
  /\ Return(p)
  /\ UNCHANGED <<sessions, tokens, jar, disturbed>>

PageLoads(p) ==
  /\ call[p].pc = "answer"
  /\ page' = [page EXCEPT ![p] = [as |-> call[p].user, csrf |-> call[p].csrf]]
  /\ jar' = IF call[p].csrf = 0 THEN jar ELSE [jar EXCEPT !.csrf = call[p].csrf]
  /\ newest' = IF p \in disturbed THEN {} ELSE {p}
  /\ Return(p)
  /\ UNCHANGED <<sessions, tokens, disturbed>>

\* The page is closed or the connection breaks.
AnswerIsLost(p) ==
  /\ call[p].pc \in {"answer", "welcome", "bye"}
  /\ Return(p)
  /\ UNCHANGED <<sessions, tokens, jar, page, disturbed, newest>>
-----------------------------------------------------------------------------
(***************************************************************************)
(* Signing in and out                                                      *)
(***************************************************************************)

\* create_session; an earlier session of the browser is left to expire.
SignIn(p, person) ==
  /\ call[p] = NoCall
  /\ tokens < MaxTokens
  /\ Len(sessions) < MaxSessions
  /\ tokens' = tokens + 1
  /\ sessions' = Append(sessions, [of |-> person, csrf |-> tokens'])
  /\ call' = [call EXCEPT ![p] =
       [pc |-> "welcome", session |-> Len(sessions'), csrf |-> tokens']]
  /\ page' = [page EXCEPT ![p] = NoPage]
  /\ Disturb(p)
  /\ UNCHANGED jar

\* Both cookies are set; the page then loads the portal.
Welcome(p) ==
  /\ call[p].pc = "welcome"
  /\ jar' = [session |-> call[p].session, csrf |-> call[p].csrf]
  /\ Return(p)
  /\ UNCHANGED <<sessions, tokens, page, disturbed, newest>>

\* A request carries the cookies of the browser and the token of its page.
Send(p, what) ==
  call' = [call EXCEPT ![p] =
    [pc |-> what, session |-> jar.session, cookie |-> jar.csrf, header |-> page[p].csrf]]

\* Mutant of CsrfHolds: the cookie and the header are only compared to each other.
CsrfHoldsTwice(c) == c.header # 0 /\ c.cookie = c.header

\* _require_csrf and verify_csrf_token
CsrfHolds(c) ==
  /\ c.header # 0 /\ c.cookie = c.header
  /\ c.session # 0 /\ sessions[c.session].csrf = c.header

\* The page leaves, whatever the answer is.
SignOut(p) ==
  /\ call[p] = NoCall
  /\ page[p].as # Nobody
  /\ Send(p, "logout")
  /\ page' = [page EXCEPT ![p] = NoPage]
  /\ Disturb(p)
  /\ UNCHANGED <<sessions, tokens, jar>>

\* Without a user there is nothing to protect, and the cookies are removed all
\* the same.  The user and the token are looked up one after the other; when the
\* session ends in between, the answer leaves the cookies as a lost one does.
EndSession(p) ==
  /\ call[p].pc = "logout"
  /\ LET s == call[p].session
     IN  IF UserOf(s) # Nobody /\ ~CsrfHolds(call[p])
         THEN Return(p) /\ UNCHANGED sessions
         ELSE /\ sessions' = IF s = 0 THEN sessions ELSE [sessions EXCEPT ![s] = Ended]
              /\ call' = [call EXCEPT ![p] = [pc |-> "bye"]]
  /\ UNCHANGED <<tokens, jar, page, disturbed, newest>>

Goodbye(p) ==
  /\ call[p].pc = "bye"
  /\ jar' = [session |-> 0, csrf |-> 0]
  /\ Return(p)
  /\ UNCHANGED <<sessions, tokens, page, disturbed, newest>>

Expire(s) ==
  /\ sessions[s] # Ended
  /\ sessions' = [sessions EXCEPT ![s] = Ended]
  /\ UNCHANGED <<tokens, jar, page, call, disturbed, newest>>
-----------------------------------------------------------------------------
(***************************************************************************)
(* Saving                                                                  *)
(***************************************************************************)

Submit(p) ==
  /\ call[p] = NoCall
  /\ page[p].as # Nobody
  /\ Send(p, "save")
  /\ UNCHANGED <<sessions, tokens, jar, page, disturbed, newest>>

\* _require_user
FindSaver(p) ==
  /\ call[p].pc = "save"
  /\ LET c == call[p]
         user == UserOf(c.session)
     IN  IF user = Nobody THEN Return(p)
         ELSE call' = [call EXCEPT ![p] =
                [pc |-> "csrf", user |-> user, session |-> c.session,
                 cookie |-> c.cookie, header |-> c.header]]
  /\ UNCHANGED <<sessions, tokens, jar, page, disturbed, newest>>

\* _require_csrf, of a session that may have ended or have a new token by now.
CheckSave(p) ==
  /\ call[p].pc = "csrf"
  /\ IF CsrfHolds(call[p])
     THEN call' = [call EXCEPT ![p] = [pc |-> "accepted", user |-> call[p].user]]
     ELSE Return(p)
  /\ UNCHANGED <<sessions, tokens, jar, page, disturbed, newest>>

Saved(p) ==
  /\ call[p].pc = "accepted"
  /\ Return(p)
  /\ UNCHANGED <<sessions, tokens, jar, page, disturbed, newest>>

SessionsNext ==
  \/ \E p \in Pages :
       \/ OpenPage(p) \/ FindUser(p) \/ Rotate(p) \/ PageLoads(p) \/ AnswerIsLost(p)
       \/ (\E person \in Persons : SignIn(p, person)) \/ Welcome(p)
       \/ SignOut(p) \/ EndSession(p) \/ Goodbye(p)
       \/ Submit(p) \/ FindSaver(p) \/ CheckSave(p) \/ Saved(p)
  \/ \E s \in DOMAIN sessions : Expire(s)

SessionsSpec == SessionsInit /\ [][SessionsNext]_sessionVars
-----------------------------------------------------------------------------
(***************************************************************************)
(* Properties                                                              *)
(***************************************************************************)

\* A page saves as the account it shows or not at all, also when somebody else
\* has signed in from another page, and whichever answer set the cookies last.
SavesAsItself ==
  \A p \in Pages : call[p].pc = "accepted" => call[p].user = page[p].as

\* A page that loaded while no other page did, and before none began to, holds
\* the token that the browser and the session have: its saves are accepted until
\* the session ends.
NewestMaySave ==
  \A p \in newest :
    page[p].csrf # 0 /\ UserOf(jar.session) # Nobody =>
      /\ jar.csrf = page[p].csrf
      /\ sessions[jar.session].csrf = page[p].csrf
      /\ UserOf(jar.session) = page[p].as
=============================================================================
