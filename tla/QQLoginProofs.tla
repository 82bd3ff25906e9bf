---------------------------- MODULE QQLoginProofs ----------------------------
(***************************************************************************)
(* Proofs about QQLogin, for any number of accounts and of login windows:  *)
(* a login that is alone with the shared jar saves the cookies of the      *)
(* account that scanned its code and of no other, and the player stays on  *)
(* the saved account.                                                      *)
(***************************************************************************)
EXTENDS QQLogin, TLAPS

Steps == {"new", "xlogin", "ptqr", "shown", "checking", "authorized", "confirming",
          "visiting", "over"}

-----------------------------------------------------------------------------
(* Types.                                                                  *)

\* The cookies the module names are cookies.
LEMMA CookiesTyped ==
  /\ NoCookie \in Cookie /\ Session \in Cookie /\ Session.any
  /\ Session.of = None /\ Session.music = None /\ ~NoCookie.any
  /\ \A a \in Accounts : Pasted(a) \in Cookie
BY DEF Cookie, NoCookie, Session, Pasted

\* A window that moves keeps all but its place.
LEMMA MoveTyped ==
  ASSUME TypeOK, NEW l \in Logins, NEW step \in Steps, Move(l, step)
  PROVE  /\ login' \in [Logins -> Window]
         /\ login'[l].at = step
         /\ \A k \in Logins : /\ k # l => login'[k] = login[k]
                              /\ login'[k].who = login[k].who
                              /\ login'[k].sent = login[k].sent
                              /\ login'[k].alone = login[k].alone
BY DEF TypeOK, Window, Steps, Move

\* One window goes on, and every other keeps its place and loses the jar.
LEMMA WritesJarTyped ==
  ASSUME TypeOK, NEW l \in Logins, NEW w \in Window, NEW cookies \in Cookie,
         WritesJar(l, w, cookies)
  PROVE  /\ login' \in [Logins -> Window] /\ jar' = cookies /\ jar' \in Cookie
         /\ login'[l] = w
         /\ \A k \in Logins : k # l => /\ login'[k].at = login[k].at
                                       /\ login'[k].who = login[k].who
                                       /\ login'[k].alone = FALSE
BY DEF TypeOK, Window, WritesJar

\* What a page leaves in the jar: the jar as it was but for the music key of
\* the account the request was made for.
LEMMA PageTyped ==
  ASSUME TypeOK, NEW l \in Logins, NEW got \in PageCookies(l)
  PROVE  /\ got \in Cookie /\ got.of = jar.of
         /\ got.music \in {jar.music, login[l].sent}
         /\ jar.any => got.any
BY DEF TypeOK, Cookie, PageCookies

\* The shapes of the records a window goes on with.
LEMMA WindowTyped ==
  ASSUME TypeOK, NEW l \in Logins
  PROVE  /\ \A step \in Steps : /\ [login[l] EXCEPT !.at = step] \in Window
                                /\ [login[l] EXCEPT !.at = step].at = step
                                /\ [login[l] EXCEPT !.at = step].who = login[l].who
                                /\ [login[l] EXCEPT !.at = step].sent = login[l].sent
                                /\ [login[l] EXCEPT !.at = step].alone = login[l].alone
         /\ login[l].at \in Steps /\ login[l].who \in Accounts \cup {None}
         /\ login[l] \in Window /\ login[l].alone \in BOOLEAN
BY DEF TypeOK, Window, Steps

\* What the answer of auth_url makes of the jar and of the window.
LEMMA AuthTyped ==
  ASSUME TypeOK, NEW l \in Logins,
         NEW got \in {jar, [jar EXCEPT !.of = login[l].who, !.any = TRUE]}
  PROVE  LET w == [login[l] EXCEPT !.at = "visiting", !.sent = got.of]
         IN  /\ got \in Cookie /\ got.of \in {jar.of, login[l].who} /\ got.music = jar.music
             /\ jar.any => got.any
             /\ w \in Window /\ w.at = "visiting" /\ w.sent = got.of
             /\ w.who = login[l].who /\ w.alone = login[l].alone
<1>1. /\ got \in Cookie /\ got.of \in {jar.of, login[l].who} /\ got.music = jar.music
      /\ jar.any => got.any
  <2>1. jar \in Cookie /\ login[l].who \in Accounts \cup {None}
    BY DEF TypeOK, Window
  <2>2. CASE got = jar
    BY <2>1, <2>2
  <2>3. CASE got = [jar EXCEPT !.of = login[l].who, !.any = TRUE]
    BY <2>1, <2>3 DEF Cookie
  <2> QED
    BY <2>2, <2>3
<1>2. login[l] \in Window /\ got.of \in Accounts \cup {None}
  BY <1>1 DEF TypeOK, Cookie
<1> QED
  BY <1>1, <1>2 DEF Window

\* The jar with the session of a QR code, or without one.
LEMMA SigTyped ==
  ASSUME TypeOK, NEW s \in Logins \cup {None}
  PROVE  /\ [jar EXCEPT !.sig = s] \in Cookie
         /\ [jar EXCEPT !.sig = s].any = jar.any
         /\ [jar EXCEPT !.sig = s].of = jar.of /\ [jar EXCEPT !.sig = s].music = jar.music
         /\ [jar EXCEPT !.sig = s, !.any = TRUE] \in Cookie
         /\ [jar EXCEPT !.sig = s, !.any = TRUE].any
         /\ [jar EXCEPT !.sig = s, !.any = TRUE].of = jar.of
         /\ [jar EXCEPT !.sig = s, !.any = TRUE].music = jar.music
BY DEF TypeOK, Cookie

-----------------------------------------------------------------------------
(* The induction.                                                          *)

\* What a window that has had the jar for itself since it emptied it finds in
\* it: some cookie, and nobody's but its own account's.
Own(l) ==
  login[l].alone =>
    /\ jar.any /\ {jar.of, jar.music} \subseteq {login[l].who, None}
    /\ At(l, "visiting") => login[l].sent \in {login[l].who, None}

IInv == TypeOK /\ PlayerFollowsStored /\ \A l \in Logins : Own(l)

\* It holds of the client a backend starts with, and of windows yet to open.
LEMMA InitInv == Init => IInv
<1> SUFFICES ASSUME Init PROVE IInv
  OBVIOUS
<1>1. TypeOK
  BY CookiesTyped DEF Init, TypeOK, Window
<1>2. PlayerFollowsStored
  BY DEF Init, PlayerFollowsStored
<1>3. \A l \in Logins : Own(l)
  BY DEF Init, Own
<1> QED
  BY <1>1, <1>2, <1>3 DEF IInv

\* A step of a window that leaves the cookies alone, and does not come to visit
\* or end a visit, or take the code of another.
LEMMA QuietMove ==
  ASSUME IInv, NEW l \in Logins, NEW step \in Steps \ {"visiting"}, ~At(l, "visiting"),
         Move(l, step), UNCHANGED <<stored, player, jar, visitor>>
  PROVE  IInv'
<1>1. TypeOK'
  BY MoveTyped DEF IInv, TypeOK
<1>2. PlayerFollowsStored'
  BY MoveTyped DEF IInv, PlayerFollowsStored, Confirming, At
<1>3. \A k \in Logins : Own(k)'
  BY MoveTyped DEF IInv, Own, At
<1> QED
  BY <1>1, <1>2, <1>3 DEF IInv

\* A window that writes the jar, and starts or ends no visit.
LEMMA QuietWrite ==
  ASSUME IInv, NEW l \in Logins, NEW w \in Window, NEW cookies \in Cookie,
         WritesJar(l, w, cookies), UNCHANGED <<stored, player, visitor>>,
         (w.at = "visiting") = At(l, "visiting"),
         w.alone => /\ cookies.any /\ {cookies.of, cookies.music} \subseteq {w.who, None}
                    /\ w.at = "visiting" => w.sent \in {w.who, None}
  PROVE  IInv'
<1>1. TypeOK'
  BY WritesJarTyped DEF IInv, TypeOK
<1>2. PlayerFollowsStored'
  BY WritesJarTyped DEF IInv, PlayerFollowsStored, Confirming, At
<1>3. ASSUME NEW k \in Logins PROVE Own(k)'
  <2>1. CASE k = l
    BY <2>1, WritesJarTyped DEF IInv, Own, At
  <2>2. CASE k # l
    BY <2>2, WritesJarTyped DEF IInv, Own
  <2> QED
    BY <2>1, <2>2
<1> QED
  BY <1>1, <1>2, <1>3 DEF IInv

\* A window whose code is scanned, or that asks after it.
LEMMA CodeStep ==
  ASSUME IInv, NEW l \in Logins, login' \in [Logins -> Window],
         ~At(l, "visiting"), login'[l].at # "visiting",
         UNCHANGED <<stored, player, jar, visitor>>,
         login'[l].alone = login[l].alone,
         login[l].who # None => login'[l].who = login[l].who,
         \A k \in Logins : k # l => login'[k] = login[k]
  PROVE  IInv'
<1>1. TypeOK'
  BY DEF IInv, TypeOK
<1>2. PlayerFollowsStored'
  BY DEF IInv, PlayerFollowsStored, Confirming, At
<1>3. ASSUME NEW k \in Logins PROVE Own(k)'
  <2>1. CASE k = l
    BY <2>1 DEF IInv, Own, At
  <2>2. CASE k # l
    BY <2>2 DEF IInv, Own, At
  <2> QED
    BY <2>1, <2>2
<1> QED
  BY <1>1, <1>2, <1>3 DEF IInv

\* Every step of a window.
LEMMA LoginInv ==
  ASSUME IInv, NEW l \in Logins, LoginStep(l)
  PROVE  IInv'
<1>0. TypeOK /\ Own(l) /\ PlayerFollowsStored
  BY DEF IInv
<1>1. CASE GetQrKey(l)
  BY <1>1, QuietMove DEF GetQrKey, At, Steps
<1>2. CASE XloginAnswered(l)
  <2> DEFINE w == [login[l] EXCEPT !.at = "ptqr", !.alone = TRUE]
  <2>1. w \in Window /\ w.at = "ptqr"
    BY <1>0 DEF TypeOK, Window
  <2>2. WritesJar(l, w, Session) /\ At(l, "xlogin")
    BY <1>2 DEF XloginAnswered
  <2> HIDE DEF w
  <2> QED
    BY <1>2, <2>1, <2>2, QuietWrite, CookiesTyped DEF XloginAnswered, At
<1>3. CASE QrAnswered(l)
  <2> DEFINE w == [login[l] EXCEPT !.at = "shown"]
             c == [jar EXCEPT !.sig = l, !.any = TRUE]
  <2>1. /\ w \in Window /\ w.at = "shown" /\ w.who = login[l].who /\ w.alone = login[l].alone
        /\ c \in Cookie /\ c.any /\ c.of = jar.of /\ c.music = jar.music
    BY <1>0, WindowTyped, SigTyped DEF Steps
  <2>2. WritesJar(l, w, c) /\ At(l, "ptqr")
    BY <1>3 DEF QrAnswered
  <2> HIDE DEF w, c
  <2> QED
    BY <1>0, <1>3, <2>1, <2>2, QuietWrite DEF QrAnswered, At, Own
<1>4. CASE GetQrFails(l)
  <2>1. CASE Move(l, "over") /\ UNCHANGED jar
    BY <1>4, <2>1, QuietMove DEF GetQrFails, At, Steps
  <2>2. CASE At(l, "ptqr") /\ WritesJar(l, [login[l] EXCEPT !.at = "over"], [jar EXCEPT !.sig = None])
    <3> DEFINE w == [login[l] EXCEPT !.at = "over"]
               c == [jar EXCEPT !.sig = None]
    <3>1. /\ w \in Window /\ w.at = "over" /\ w.who = login[l].who /\ w.alone = login[l].alone
          /\ c \in Cookie /\ c.any = jar.any /\ c.of = jar.of /\ c.music = jar.music
      BY <1>0, WindowTyped, SigTyped DEF Steps
    <3>2. WritesJar(l, w, c) /\ At(l, "ptqr")
      BY <2>2
    <3> HIDE DEF w, c
    <3> QED
      BY <1>0, <1>4, <3>1, <3>2, QuietWrite DEF GetQrFails, At, Own
  <2> QED
    BY <1>4, <2>1, <2>2 DEF GetQrFails
<1>5. CASE Scan(l)
  <2>1. /\ login' \in [Logins -> Window] /\ ~At(l, "visiting") /\ login'[l].at # "visiting"
        /\ login'[l].alone = login[l].alone /\ login[l].who = None
        /\ \A k \in Logins : k # l => login'[k] = login[k]
    BY <1>0, <1>5 DEF Scan, TypeOK, Window, At
  <2> QED
    BY <1>5, <2>1, CodeStep DEF Scan
<1>12. CASE Check(l)
  <2>1. /\ login' \in [Logins -> Window] /\ ~At(l, "visiting") /\ login'[l].at # "visiting"
        /\ login'[l].alone = login[l].alone /\ login'[l].who = login[l].who
        /\ \A k \in Logins : k # l => login'[k] = login[k]
    <3> DEFINE sent == IF jar = NoCookie THEN l ELSE jar.sig
               w == [login[l] EXCEPT !.at = "checking", !.sent = sent]
    <3>1. login' = [login EXCEPT ![l] = w] /\ At(l, "shown")
      BY <1>0, <1>12 DEF Check, TypeOK
    <3>2. /\ w \in Window /\ w.at = "checking" /\ w.alone = login[l].alone
          /\ w.who = login[l].who
      BY <1>0 DEF TypeOK, Window, Cookie
    <3> HIDE DEF w
    <3> QED
      BY <1>0, <3>1, <3>2 DEF TypeOK, At
  <2> QED
    BY <1>12, <2>1, CodeStep DEF Check
<1>6. CASE CheckAnswered(l)
  BY <1>6, QuietMove DEF CheckAnswered, At, Steps
<1>7. CASE Confirm(l)
  BY <1>7, QuietMove DEF Confirm, At, Steps
<1>8. CASE AuthAnswered(l)
  <2>1. PICK got \in {jar, [jar EXCEPT !.of = login[l].who, !.any = TRUE]} :
          LET w == [login[l] EXCEPT !.at = "visiting", !.sent = got.of]
          IN  /\ IF got = jar THEN login' = [login EXCEPT ![l] = w] /\ UNCHANGED jar
                              ELSE WritesJar(l, w, got)
              /\ IF got # NoCookie THEN player' = got /\ visitor' = FALSE
                                   ELSE UNCHANGED <<player, visitor>>
    BY <1>8 DEF AuthAnswered
  <2> DEFINE w == [login[l] EXCEPT !.at = "visiting", !.sent = got.of]
  <2>2. /\ got \in Cookie /\ got.of \in {jar.of, login[l].who} /\ got.music = jar.music
        /\ jar.any => got.any
        /\ w \in Window /\ w.at = "visiting" /\ w.sent = got.of
        /\ w.who = login[l].who /\ w.alone = login[l].alone
    BY <1>0, AuthTyped
  <2>3. IF got = jar THEN login' = [login EXCEPT ![l] = w] /\ UNCHANGED jar
                     ELSE WritesJar(l, w, got)
    BY <2>1
  <2>4. player' \in {player, got} /\ visitor' \in {visitor, FALSE} /\ stored' = stored
    BY <1>8, <2>1 DEF AuthAnswered
  <2> HIDE DEF w
  <2>5. /\ login' \in [Logins -> Window] /\ jar' = got /\ login'[l] = w
        /\ \A k \in Logins : k # l => \/ login'[k] = login[k] /\ jar' = jar
                                      \/ login'[k].alone = FALSE
    <3>1. CASE got = jar
      BY <1>0, <2>2, <2>3, <3>1 DEF TypeOK
    <3>2. CASE got # jar
      BY <1>0, <2>2, <2>3, <3>2, WritesJarTyped
    <3> QED
      BY <3>1, <3>2
  <2>6. TypeOK'
    BY <1>0, <2>2, <2>4, <2>5 DEF TypeOK
  <2>7. PlayerFollowsStored'
    BY <2>2, <2>5 DEF PlayerFollowsStored, Confirming, At
  <2>8. \A k \in Logins : Own(k)'
    BY <1>0, <2>2, <2>5 DEF IInv, Own, At
  <2> QED
    BY <2>6, <2>7, <2>8 DEF IInv
<1>9. CASE AuthFails(l)
  BY <1>9, QuietMove DEF AuthFails, At, Steps
<1>10. CASE VisitPage(l)
  <2>1. PICK got \in PageCookies(l) : WritesJar(l, login[l], got)
    BY <1>10 DEF VisitPage
  <2>2. login[l] \in Window
    BY <1>0, WindowTyped
  <2> QED
    BY <1>0, <1>10, <2>1, <2>2, PageTyped, QuietWrite DEF VisitPage, At, Own
<1>11. CASE Save(l)
  <2>1. PICK got \in PageCookies(l) :
          /\ WritesJar(l, [login[l] EXCEPT !.at = "over"], got)
          /\ player' = IF got # NoCookie THEN got ELSE player
          /\ stored' = IF player' # NoCookie THEN player' ELSE stored
          /\ visitor' = (visitor /\ got = NoCookie)
    BY <1>11 DEF Save
  <2> DEFINE w == [login[l] EXCEPT !.at = "over"]
  <2>2. w \in Window /\ w.at = "over" /\ w.who = login[l].who /\ w.alone = login[l].alone
    BY <1>0, WindowTyped DEF Steps
  <2>3. WritesJar(l, w, got) /\ got \in Cookie
    BY <1>0, <2>1, PageTyped
  <2> HIDE DEF w
  <2>4. TypeOK'
    BY <1>0, <2>1, <2>2, <2>3, WritesJarTyped DEF TypeOK
  <2>5. PlayerFollowsStored'
    BY <2>1 DEF PlayerFollowsStored
  <2>6. ASSUME NEW k \in Logins PROVE Own(k)'
    <3>1. CASE k = l
      <4>1. login'[l] = w /\ jar' = got
        BY <1>0, <2>2, <2>3, WritesJarTyped
      <4>2. /\ got.of = jar.of /\ got.music \in {jar.music, login[l].sent}
            /\ jar.any => got.any
        BY <1>0, PageTyped
      <4>3. At(l, "visiting")
        BY <1>11 DEF Save
      <4> QED
        BY <1>0, <2>2, <3>1, <4>1, <4>2, <4>3 DEF Own, At
    <3>2. CASE k # l
      BY <1>0, <2>2, <2>3, <3>2, WritesJarTyped DEF Own
    <3> QED
      BY <3>1, <3>2
  <2> QED
    BY <2>4, <2>5, <2>6 DEF IInv
<1> QED
  BY <1>1, <1>2, <1>3, <1>4, <1>5, <1>6, <1>7, <1>8, <1>9, <1>10, <1>11,
     <1>12 DEF LoginStep

\* The handlers that set the player's cookie or the saved one, the restart, and
\* no step at all.
LEMMA HandlersInv ==
  ASSUME IInv, PasteCookie \/ ClearCookie \/ VisitorCookie \/ UseStored \/ Restart \/ UNCHANGED vars
  PROVE  IInv'
<1>0. TypeOK /\ PlayerFollowsStored /\ \A l \in Logins : Own(l)
  BY DEF IInv
<1>1. CASE PasteCookie \/ ClearCookie \/ VisitorCookie \/ UseStored \/ UNCHANGED vars
  <2>1. UNCHANGED <<jar, login>>
    BY <1>1 DEF PasteCookie, ClearCookie, VisitorCookie, UseStored, vars
  <2>2. TypeOK'
    BY <1>0, <1>1, <2>1, CookiesTyped
    DEF TypeOK, PasteCookie, ClearCookie, VisitorCookie, UseStored, vars
  <2>3. PlayerFollowsStored'
    BY <1>0, <1>1, <2>1 DEF PlayerFollowsStored, Confirming, At, PasteCookie, ClearCookie,
       VisitorCookie, UseStored, vars
  <2>4. \A l \in Logins : Own(l)'
    BY <1>0, <2>1 DEF Own, At
  <2> QED
    BY <2>2, <2>3, <2>4 DEF IInv
<1>2. CASE Restart
  <2>1. login' \in [Logins -> Window] /\ \A l \in Logins : login'[l].alone = FALSE
    BY <1>0, <1>2 DEF Restart, TypeOK, Window
  <2>2. TypeOK' /\ PlayerFollowsStored'
    BY <1>0, <1>2, <2>1, CookiesTyped DEF Restart, TypeOK, PlayerFollowsStored
  <2> QED
    BY <2>1, <2>2 DEF IInv, Own
<1> QED
  BY <1>1, <1>2

\* Every step keeps it.
LEMMA StepInv == IInv /\ [Next]_vars => IInv'
BY LoginInv, HandlersInv DEF Next

-----------------------------------------------------------------------------
(* The theorems.                                                           *)

\* It holds in every state.
THEOREM Invariant == Spec => []IInv
BY InitInv, StepInv, PTL DEF Spec

\* While no confirmation is under way, the player's account is the saved one,
\* a visitor's or none, for any number of accounts and of overlapping logins
\* (main.py:5736 to 5777).
THEOREM PlayerIsOnStored == Spec => []PlayerFollowsStored
<1>1. IInv => PlayerFollowsStored
  BY DEF IInv
<1> QED
  BY <1>1, Invariant, PTL

\* A step that ends a visit by a change of the saved cookie is that login's save.
LEMMA StepSavesOwn == IInv /\ [Next]_vars => [SavesItsOwn]_vars
<1> SUFFICES ASSUME IInv, Next, NEW l \in Logins, At(l, "visiting"), login'[l].at = "over",
                    stored' # stored, login[l].alone
             PROVE  SavedBy(l)
  BY DEF SavesItsOwn
<1>0. TypeOK /\ Own(l)
  BY DEF IInv
<1>1. PICK k \in Logins : LoginStep(k)
  BY DEF Next, At, PasteCookie, ClearCookie, VisitorCookie, UseStored, Restart
<1>2. Save(k)
  BY <1>1 DEF LoginStep, GetQrKey, XloginAnswered, QrAnswered, GetQrFails, Scan, Check,
     CheckAnswered, Confirm, AuthAnswered, AuthFails, VisitPage
<1>3. PICK got \in PageCookies(k) :
        /\ WritesJar(k, [login[k] EXCEPT !.at = "over"], got)
        /\ player' = IF got # NoCookie THEN got ELSE player
        /\ stored' = IF player' # NoCookie THEN player' ELSE stored
  BY <1>2 DEF Save
<1>4. k = l
  <2>1. k # l => login'[l] = [login[l] EXCEPT !.alone = FALSE]
    BY <1>3 DEF WritesJar
  <2>2. [login[l] EXCEPT !.alone = FALSE].at = login[l].at
    BY <1>0 DEF TypeOK, Window
  <2> QED
    BY <2>1, <2>2 DEF At
<1>5. stored' = got
  <2>1. jar.any
    BY <1>0 DEF Own
  <2>2. got.any /\ ~NoCookie.any
    BY <1>0, <1>3, <2>1, PageTyped, CookiesTyped
  <2>3. got # NoCookie
    BY <2>2
  <2> QED
    BY <1>3, <2>3
<1> QED
  BY <1>0, <1>3, <1>4, <1>5, PageTyped DEF Own, SavedBy

\* A login that had the jar to itself saves the cookies of the account that
\* scanned its code: the new session of qqmusic.py:667 leaves nothing of an
\* earlier login's.
THEOREM LoginsSaveTheirOwn == Spec => LoginSavesItsOwn
BY Invariant, StepSavesOwn, PTL DEF Spec, LoginSavesItsOwn
=============================================================================
