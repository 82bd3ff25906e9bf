------------------------------- MODULE QQLogin -------------------------------
(***************************************************************************)
(* The QQ Music account of the backend: the QR login of qqmusic.py, and    *)
(* the handlers of main.py that set, save and clear the account's cookie.  *)
(*                                                                         *)
(* There is one client object.  The cookie it plays with (_cookie) and the *)
(* cookies a login collects (_session_cookies, the jar) are shared by all  *)
(* requests, and every await of a login lets another request change them.  *)
(* A login is what an admin's window does: get a QR code, poll it until    *)
(* the phone confirmed it, then have the backend confirm.                  *)
(*                                                                         *)
(* A cookie is known by what the system tells apart: the account that is   *)
(* logged in, the account whose music service key it has, and the QR code  *)
(* whose session it belongs to.                                            *)
(***************************************************************************)
EXTENDS Naturals

CONSTANTS
  Accounts,
  Logins,      \* login windows, one QR code each
  None         \* no account, no login

VARIABLES
  stored,      \* the cookie saved in the database (Secret qqmusic_cookie)
  player,      \* the client's _cookie
  jar,         \* the client's _session_cookies
  login,       \* the login windows with their requests
  visitor      \* the player's cookie was set by a visitor, for himself

vars == <<stored, player, jar, login, visitor>>

-----------------------------------------------------------------------------
Cookie == [of : Accounts \cup {None}, music : Accounts \cup {None},
           sig : Logins \cup {None}, any : BOOLEAN]

NoCookie  == [of |-> None, music |-> None, sig |-> None, any |-> FALSE]
Session   == [NoCookie EXCEPT !.any = TRUE]          \* what xlogin's page sets
Pasted(a) == [of |-> a, music |-> a, sig |-> None, any |-> TRUE]

Window == [at    : {"new", "xlogin", "ptqr", "shown", "checking", "authorized",
                    "confirming", "visiting", "over"},
           who   : Accounts \cup {None},             \* who scanned the code
           sent  : Logins \cup Accounts \cup {None}, \* whose cookie a request carries
           alone : BOOLEAN]                          \* only it wrote the jar since its reset

TypeOK ==
  /\ stored \in Cookie
  /\ player \in Cookie
  /\ jar \in Cookie
  /\ login \in [Logins -> Window]
  /\ visitor \in BOOLEAN

Init ==
  /\ stored = NoCookie
  /\ player = NoCookie
  /\ jar = NoCookie
  /\ login = [l \in Logins |-> [at |-> "new", who |-> None, sent |-> None, alone |-> FALSE]]
  /\ visitor = FALSE

At(l, step)   == login[l].at = step
Move(l, step) == login' = [login EXCEPT ![l].at = step]

\* l goes on as w and writes the jar, which the other logins share.
WritesJar(l, w, cookies) ==
  /\ jar' = cookies
  /\ login' = [k \in Logins |-> IF k = l THEN w ELSE [login[k] EXCEPT !.alone = FALSE]]

-----------------------------------------------------------------------------
(* get_qr_key: two requests to QQ, the first of which starts a new jar.    *)

GetQrKey(l) ==
  /\ At(l, "new")
  /\ Move(l, "xlogin")
  /\ UNCHANGED <<stored, player, jar, visitor>>

\* Mutant: the new session's cookies are added to those of the last login.
XloginMerged(l) ==
  /\ At(l, "xlogin")
  /\ WritesJar(l, [login[l] EXCEPT !.at = "ptqr", !.alone = TRUE], [jar EXCEPT !.any = TRUE])
  /\ UNCHANGED <<stored, player, visitor>>

XloginAnswered(l) ==
  /\ At(l, "xlogin")
  /\ WritesJar(l, [login[l] EXCEPT !.at = "ptqr", !.alone = TRUE], Session)
  /\ UNCHANGED <<stored, player, visitor>>

QrAnswered(l) ==
  /\ At(l, "ptqr")
  /\ WritesJar(l, [login[l] EXCEPT !.at = "shown"], [jar EXCEPT !.sig = l, !.any = TRUE])
  /\ UNCHANGED <<stored, player, visitor>>

\* A request of get_qr_key fails.  An answer without qrsig clears the jar's.
GetQrFails(l) ==
  /\ \/ At(l, "xlogin") /\ Move(l, "over") /\ UNCHANGED jar
     \/ At(l, "ptqr") /\ Move(l, "over") /\ UNCHANGED jar
     \/ At(l, "ptqr") /\ WritesJar(l, [login[l] EXCEPT !.at = "over"], [jar EXCEPT !.sig = None])
  /\ UNCHANGED <<stored, player, visitor>>

-----------------------------------------------------------------------------
(* check_qr_status: polled by the window.                                  *)

\* The phone scans the code the window shows, and confirms.
Scan(l) ==
  /\ login[l].at \in {"shown", "checking"} /\ login[l].who = None
  /\ \E a \in Accounts : login' = [login EXCEPT ![l].who = a]
  /\ UNCHANGED <<stored, player, jar, visitor>>

\* The poll carries the jar's qrsig, and the window's own if there is no jar.
Check(l) ==
  /\ At(l, "shown")
  /\ login' = [login EXCEPT ![l].at = "checking",
                            ![l].sent = IF jar = NoCookie THEN l ELSE jar.sig]
  /\ UNCHANGED <<stored, player, jar, visitor>>

\* QQ answers for the code whose qrsig it got, and refuses a ptqrtoken of
\* another; the window polls on, or its code has expired.
CheckAnswered(l) ==
  /\ At(l, "checking")
  /\ \/ login[l].sent = l /\ login[l].who # None /\ Move(l, "authorized")
     \/ Move(l, "shown")
     \/ Move(l, "over")
  /\ UNCHANGED <<stored, player, jar, visitor>>

-----------------------------------------------------------------------------
(* confirm_qr_login: the answered auth_url, the pages of the music service,*)
(* and the save of admin_qqmusic_qr_confirm.                               *)

Confirm(l) ==
  /\ At(l, "authorized")
  /\ Move(l, "confirming")
  /\ UNCHANGED <<stored, player, jar, visitor>>

\* auth_url brings the cookies of whoever scanned, or none: its status is not
\* looked at.  The pages are then visited with what the jar holds now.
AuthAnswered(l) ==
  /\ At(l, "confirming")
  /\ \E got \in {jar, [jar EXCEPT !.of = login[l].who, !.any = TRUE]} :
       LET w == [login[l] EXCEPT !.at = "visiting", !.sent = got.of]
       IN  /\ IF got = jar THEN login' = [login EXCEPT ![l] = w] /\ UNCHANGED jar
                           ELSE WritesJar(l, w, got)
           /\ IF got # NoCookie THEN player' = got /\ visitor' = FALSE
                                ELSE UNCHANGED <<player, visitor>>
  /\ UNCHANGED stored

AuthFails(l) ==
  /\ At(l, "confirming")
  /\ Move(l, "over")
  /\ UNCHANGED <<stored, player, jar, visitor>>

\* What a page of the music service leaves in the jar: the music key of the
\* account the request was made for, or nothing.
PageCookies(l) ==
  {jar} \cup {[jar EXCEPT !.music = a, !.any = TRUE] : a \in {login[l].sent} \cap Accounts}

VisitPage(l) ==
  /\ At(l, "visiting")
  /\ \E got \in PageCookies(l) : WritesJar(l, login[l], got)
  /\ UNCHANGED <<stored, player, visitor>>

\* Mutant: what is saved is the cookie from before the pages were visited.
SaveEarly(l) ==
  /\ At(l, "visiting")
  /\ \E got \in PageCookies(l) :
       /\ WritesJar(l, [login[l] EXCEPT !.at = "over"], got)
       /\ player' = IF got # NoCookie THEN got ELSE player
       /\ stored' = IF player # NoCookie THEN player ELSE stored
       /\ visitor' = (visitor /\ got = NoCookie)

\* The last page, set_cookie(jar) and the save, with no await between them.
Save(l) ==
  /\ At(l, "visiting")
  /\ \E got \in PageCookies(l) :
       LET cookie == IF got # NoCookie THEN got ELSE player
       IN  /\ WritesJar(l, [login[l] EXCEPT !.at = "over"], got)
           /\ player' = cookie
           /\ stored' = IF cookie # NoCookie THEN cookie ELSE stored
           /\ visitor' = (visitor /\ got = NoCookie)

-----------------------------------------------------------------------------
(* The other handlers of the cookie, and the backend's restart.            *)

\* admin_qqmusic_set_cookie
PasteCookie ==
  /\ \E a \in Accounts : stored' = Pasted(a) /\ player' = Pasted(a)
  /\ visitor' = FALSE
  /\ UNCHANGED <<jar, login>>

\* admin_qqmusic_clear_cookie
ClearCookie ==
  /\ stored' = NoCookie
  /\ player' = NoCookie
  /\ visitor' = FALSE
  /\ UNCHANGED <<jar, login>>

\* qqmusic_set_cookie: for the player only, never saved.
VisitorCookie ==
  /\ \E a \in Accounts : player' = Pasted(a)
  /\ visitor' = TRUE
  /\ UNCHANGED <<stored, jar, login>>

\* _enqueue_qqmusic_song and lyrics take the saved cookie before they ask QQ.
UseStored ==
  /\ stored # NoCookie
  /\ player' = stored
  /\ visitor' = FALSE
  /\ UNCHANGED <<stored, jar, login>>

\* The backend restarts: the client is new, and the requests end; the windows
\* that wait between two requests go on.
Restart ==
  /\ player' = NoCookie
  /\ jar' = NoCookie
  /\ visitor' = FALSE
  /\ login' = [l \in Logins |->
       [login[l] EXCEPT !.alone = FALSE,
                        !.at = CASE @ = "checking" -> "shown"
                                 [] @ \in {"xlogin", "ptqr", "confirming", "visiting"} -> "over"
                                 [] OTHER -> @]]
  /\ UNCHANGED stored

LoginStep(l) ==
  \/ GetQrKey(l) \/ XloginAnswered(l) \/ QrAnswered(l) \/ GetQrFails(l)
  \/ Scan(l) \/ Check(l) \/ CheckAnswered(l)
  \/ Confirm(l) \/ AuthAnswered(l) \/ AuthFails(l) \/ VisitPage(l) \/ Save(l)

Next ==
  \/ \E l \in Logins : LoginStep(l)
  \/ PasteCookie \/ ClearCookie \/ VisitorCookie \/ UseStored \/ Restart

Spec == Init /\ [][Next]_vars

-----------------------------------------------------------------------------
(* Properties.                                                             *)

\* What a login saves is of the account that scanned its code, whoever logged
\* in before: the key of an earlier account's music service may not stay in the
\* jar (qqmusic.py:667).  It is promised to a login during which no other one
\* touched the shared jar.
SavedBy(l)  == stored'.of \in {login[l].who, None} /\ stored'.music \in {login[l].who, None}
SavesItsOwn == \A l \in Logins : At(l, "visiting") /\ login'[l].at = "over" /\ stored' # stored
                                   /\ login[l].alone => SavedBy(l)

LoginSavesItsOwn == [][SavesItsOwn]_vars

\* While no confirmation is under way, songs are asked for with the account
\* that is saved, unless a visitor has set a cookie or the player has none yet:
\* no order of logins, pastes and clears leaves the player on another account.
Confirming == \E l \in Logins : At(l, "visiting")

PlayerFollowsStored == player \in {stored, NoCookie} \/ visitor \/ Confirming
=============================================================================
