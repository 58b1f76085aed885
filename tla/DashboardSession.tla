-------------------------- MODULE DashboardSession --------------------------
(***************************************************************************)
(* api/dashboard_routes.py, api/deps_dashboard.py and                      *)
(* services/dashboard_auth.py: sessions, CSRF tokens and flash messages,   *)
(* which the server keeps nowhere but in the cookies of the browser.       *)
(*                                                                         *)
(* One browser with several tabs.  The tabs share the cookies, a request   *)
(* carries those of the moment it was sent, and its answer sets some of    *)
(* them when it arrives, in whatever order answers arrive.  What a post    *)
(* does to keys and tokens is the subject of other modules.                *)
(***************************************************************************)
EXTENDS Naturals

CONSTANTS Tabs,    \* the tabs of the browser
          Sids,    \* session ids, secrets.token_urlsafe(32)
          Nonces,  \* what makes CSRF tokens of one session differ
          Ttl      \* session_ttl_seconds, in ticks; a flash lasts less than one

ASSUME IdsAssumption == Sids \subseteq Nat \ {0} /\ Nonces \subseteq Nat \ {0}
ASSUME TtlAssumption == Ttl \in Nat
ASSUME TabsAssumption == "none" \notin Tabs

VARIABLES
  jar,     \* the cookies of the browser
  page,    \* the forms each tab shows
  call,    \* the request of each tab
  stage,   \* how far it has come
  answer,  \* its answer, on the way to the tab
  current, \* history: neither the session nor the CSRF cookie was set since
           \* the tab's page was rendered
  kept     \* history: the raw key of the tab's last post is on its way to the tab

vars == <<jar, page, call, stage, answer, current, kept>>

Names == {"session", "csrf", "flash"}

\* A cookie that has lapsed is as good as none.
NoSession == [sid |-> 0, age |-> 0]
Sessions  == [sid : Sids, age : 0..Ttl] \union {NoSession}
NoToken   == [sid |-> 0, n |-> 0]
Tokens    == [sid : Sids, n : Nonces] \union {NoToken}
\* The raw key a tab has just created; of other messages nothing matters but that
\* they take its place.
Flashes   == {"none"} \union Tabs
NoCookies == [session |-> NoSession, csrf |-> NoToken, flash |-> "none"]
Cookies   == [session : Sessions, csrf : Tokens, flash : Flashes]

\* Pages and posts by what they have in common: "dashboard" is any page with forms
\* but "created", "change" any post but the other two.
Screens == {"nothing", "login", "dashboard", "created", "refused", "failed"}
Gets    == {"loginForm", "dashboard", "created"}
Posts   == {"logout", "health", "change"}
Forms   == [login : BOOLEAN, token : Tokens]
NoForm  == [login |-> FALSE, token |-> NoToken]

\* form is the csrf_token field, sid the handler's session_id, current what the
\* variable said when the form was sent.
Calls  == [what : Gets \union Posts \union {"login"}, form : Tokens, cookies : Cookies,
           sid : Sids \union {0}, current : BOOLEAN]
NoCall == [what |-> "dashboard", form |-> NoToken, cookies |-> NoCookies,
           sid |-> 0, current |-> FALSE]

\* sets: the cookies with a Set-Cookie header; to: where a redirect leads; else
\* a page with the token in its forms and the message it shows.
Answers  == [sets : SUBSET Names, cookies : Cookies, to : Gets \union {"nowhere"},
             at : Screens, token : Tokens, shows : Flashes]
NoAnswer == [sets |-> {}, cookies |-> NoCookies, to |-> "nowhere",
             at |-> "nothing", token |-> NoToken, shows |-> "none"]

Init ==
  /\ jar = NoCookies
  /\ page = [t \in Tabs |-> NoForm]
  /\ call = [t \in Tabs |-> NoCall]
  /\ stage = [t \in Tabs |-> "idle"]
  /\ answer = [t \in Tabs |-> NoAnswer]
  /\ current = [t \in Tabs |-> FALSE]
  /\ kept = [t \in Tabs |-> FALSE]

Jars == {jar} \union {call[t].cookies : t \in Tabs} \union {answer[t].cookies : t \in Tabs}
UsedTokens == {j.csrf : j \in Jars} \union {page[t].token : t \in Tabs}
              \union {call[t].form : t \in Tabs} \union {answer[t].token : t \in Tabs}
UsedSids == {j.session.sid : j \in Jars} \union {c.sid : c \in UsedTokens}
            \union {call[t].sid : t \in Tabs}
UsedNonces == {c.n : c \in UsedTokens}

\* What a generator returns is new; of the new values any will do.
New(x, values, used) == x \in values \ used /\ \A y \in values \ used : x <= y

(***************************************************************************)
(* The browser                                                             *)
(***************************************************************************)

\* The cookies a request carries, those its handler looks at.
Carried(what) ==
  [jar EXCEPT !.csrf = IF what \in Posts THEN @ ELSE NoToken,
              !.flash = IF what \in Gets THEN @ ELSE "none"]

Send(t, what, form) ==
  /\ stage[t] = "idle"
  /\ call' = [call EXCEPT ![t] = [what |-> what, form |-> form, cookies |-> Carried(what),
                                  sid |-> 0, current |-> what \in Posts /\ current[t]]]
  /\ stage' = [stage EXCEPT ![t] = "sent"]
  /\ UNCHANGED <<jar, page, answer, current, kept>>

\* Any page: the login form comes by a redirect when it comes at all.
Open(t) == Send(t, "dashboard", NoToken)

SignIn(t) == page[t].login /\ Send(t, "login", NoToken)

Submit(t, what) ==
  /\ what \in Posts /\ page[t].token # NoToken
  /\ Send(t, what, page[t].token)

\* The user does not wait for the answer: the page stays, and its forms.
Abandon(t) ==
  /\ stage[t] # "idle"
  /\ stage' = [stage EXCEPT ![t] = "idle"]
  /\ call' = [call EXCEPT ![t] = NoCall]
  /\ answer' = [answer EXCEPT ![t] = NoAnswer]
  /\ kept' = [kept EXCEPT ![t] = FALSE]
  /\ UNCHANGED <<jar, page, current>>

\* The Set-Cookie headers of an answer, before anything else is done with it.
SetCookies(t) ==
  LET set == answer[t].sets
      new == answer[t].cookies
  IN  jar' = [session |-> IF "session" \in set THEN new.session ELSE jar.session,
              csrf    |-> IF "csrf" \in set THEN new.csrf ELSE jar.csrf,
              flash   |-> IF "flash" \in set THEN new.flash ELSE jar.flash]

\* Which forms are still the last ones, and which raw keys still under way, when
\* these cookies are set.
StillCurrent(t) ==
  IF answer[t].sets \cap {"session", "csrf"} = {} THEN current
  ELSE [u \in Tabs |-> FALSE]

StillKept(t) ==
  [u \in Tabs |-> kept[u] /\ (stage[u] = "redirected" => "flash" \notin answer[t].sets)]

Render(t) ==
  /\ stage[t] = "answered" /\ answer[t].to = "nowhere"
  /\ SetCookies(t)
  /\ page' = [page EXCEPT ![t] = [login |-> answer[t].at = "login", token |-> answer[t].token]]
  /\ current' = [StillCurrent(t) EXCEPT ![t] = answer[t].token # NoToken]
  /\ kept' = [StillKept(t) EXCEPT ![t] = FALSE]
  /\ stage' = [stage EXCEPT ![t] = "idle"]
  /\ call' = [call EXCEPT ![t] = NoCall]
  /\ answer' = [answer EXCEPT ![t] = NoAnswer]

\* A redirect: its cookies are set, then the next request is made.
Redirect(t) ==
  /\ stage[t] = "answered" /\ answer[t].to # "nowhere"
  /\ SetCookies(t)
  /\ current' = StillCurrent(t)
  /\ kept' = StillKept(t)
  /\ stage' = [stage EXCEPT ![t] = "redirected"]
  /\ call' = [call EXCEPT ![t] = [NoCall EXCEPT !.what = answer[t].to]]
  /\ answer' = [answer EXCEPT ![t] = NoAnswer]
  /\ UNCHANGED page

Follow(t) ==
  /\ stage[t] = "redirected"
  /\ call' = [call EXCEPT ![t].cookies = Carried(call[t].what)]
  /\ stage' = [stage EXCEPT ![t] = "sent"]
  /\ UNCHANGED <<jar, page, answer, current, kept>>

\* (Mutant of Older: the age of a cookie is not looked at.)
OlderForEver(session) == [session EXCEPT !.age = @ + 1]

Older(session) ==
  IF session.age < Ttl /\ session # NoSession THEN [session EXCEPT !.age = @ + 1] ELSE NoSession

Aged(cookies) == [cookies EXCEPT !.session = Older(@), !.flash = "none"]

\* Time passes: sessions age, and flashes lapse.
Tick ==
  /\ jar' = Aged(jar)
  /\ call' = [t \in Tabs |-> [call[t] EXCEPT !.cookies = Aged(@)]]
  /\ answer' = [t \in Tabs |-> [answer[t] EXCEPT !.cookies = Aged(@)]]
  /\ kept' = [t \in Tabs |-> kept[t] /\ answer[t].at = "created"]
  /\ UNCHANGED <<page, stage, current>>

(***************************************************************************)
(* The server: a request comes in                                          *)
(***************************************************************************)

\* Of a request only what is still looked at is kept.
AnsweredWith(t, ans) ==
  /\ stage' = [stage EXCEPT ![t] = "answered"]
  /\ answer' = [answer EXCEPT ![t] = ans]
  /\ call' = [call EXCEPT ![t].form = NoToken, ![t].cookies.csrf = NoToken,
                          ![t].cookies.flash = "none"]
  /\ UNCHANGED <<jar, page, current>>

Answered(t, ans) == AnsweredWith(t, ans) /\ UNCHANGED kept

Page(at) == [NoAnswer EXCEPT !.at = at]
To(where) == [NoAnswer EXCEPT !.to = where]
\* An answer with one more message.
Saying(ans, flash) == [ans EXCEPT !.sets = @ \union {"flash"}, !.cookies.flash = flash]

\* get_dashboard_session
Sid(t) == call[t].cookies.session.sid

Admitted(t) ==
  /\ stage' = [stage EXCEPT ![t] = "admitted"]
  /\ call' = [call EXCEPT ![t].sid = Sid(t), ![t].form = NoToken, ![t].cookies.csrf = NoToken,
                          ![t].current = FALSE]
  /\ UNCHANGED <<jar, page, answer, current, kept>>

\* (Mutant of ReadFlash: messages are kept by the server.)
ReadFlashShared(t) == jar.flash

ReadFlash(t) == call[t].cookies.flash

AdmitGet(t) ==
  /\ stage[t] = "sent" /\ call[t].what \in {"dashboard", "created"}
  /\ IF Sid(t) = 0 THEN Answered(t, To("loginForm")) ELSE Admitted(t)

\* login_form; the flash is read, and cleared.
LoginForm(t) ==
  /\ stage[t] = "sent" /\ call[t].what = "loginForm"
  /\ Answered(t, IF Sid(t) # 0 THEN To("dashboard")
                 ELSE Saying([Page("login") EXCEPT !.shows = ReadFlash(t)], "none"))

\* login_submit
Login(t) ==
  /\ stage[t] = "sent" /\ call[t].what = "login"
  /\ \/ Answered(t, Saying(To("loginForm"), "none"))
     \/ \E sid \in Sids, n \in Nonces :
          /\ New(sid, Sids, UsedSids) /\ New(n, Nonces, UsedNonces)
          /\ Answered(t, [To("dashboard") EXCEPT
                            !.sets = Names,
                            !.cookies = [session |-> [sid |-> sid, age |-> 0],
                                         csrf |-> [sid |-> sid, n |-> n],
                                         flash |-> "none"]])

\* require_dashboard_csrf: the field equals the cookie and is of this session.
CsrfHolds(t) ==
  /\ call[t].form = call[t].cookies.csrf
  /\ call[t].form # NoToken
  /\ call[t].form.sid = Sid(t)

AdmitPost(t) ==
  /\ stage[t] = "sent" /\ call[t].what \in Posts
  /\ Sid(t) # 0 /\ CsrfHolds(t)
  /\ Admitted(t)

\* (Mutant of Refuse: the error handler signs out.)
RefuseSignsOut(t) ==
  /\ stage[t] = "sent" /\ call[t].what \in Posts
  /\ Sid(t) = 0 \/ ~CsrfHolds(t)
  /\ Answered(t, [Page("refused") EXCEPT !.sets = {"session"}])

\* 401 or 403, an error page without cookies.
Refuse(t) ==
  /\ stage[t] = "sent" /\ call[t].what \in Posts
  /\ Sid(t) = 0 \/ ~CsrfHolds(t)
  /\ Answered(t, Page("refused"))

(***************************************************************************)
(* The server: the handler ends                                            *)
(***************************************************************************)

\* _reissue_session verifies the cookie of the request once more.
Reissued(t) == IF Sid(t) = 0 THEN NoSession ELSE [sid |-> Sid(t), age |-> 0]

\* (Mutant of FormToken: a token is minted for every rendering.)
FormTokenOfItsOwn(sid, n) == [sid |-> sid, n |-> IF n = 1 THEN 2 ELSE 1]

\* _csrf_form_value is called once for the form and the cookie.
FormToken(sid, n) == [sid |-> sid, n |-> n]

\* A page with forms: its token, its flash, the session once more.
ShowPage(t) ==
  /\ stage[t] = "admitted" /\ call[t].what \in {"dashboard", "created"}
  /\ \E n \in Nonces :
       /\ New(n, Nonces, UsedNonces)
       /\ Answered(t, [NoAnswer EXCEPT
            !.sets = Names,
            !.cookies = [session |-> Reissued(t),
                         csrf |-> [sid |-> call[t].sid, n |-> n],
                         flash |-> "none"],
            !.at = call[t].what,
            !.token = FormToken(call[t].sid, n),
            !.shows = ReadFlash(t)])

\* The pages about one key or token, when it is gone.
GoneGet(t) ==
  /\ stage[t] = "admitted" /\ call[t].what = "dashboard"
  /\ Answered(t, Saying(To("dashboard"), "none"))

LoggedOut(t) ==
  /\ stage[t] = "admitted" /\ call[t].what = "logout"
  /\ Answered(t, [Saying(To("loginForm"), "none") EXCEPT !.sets = Names])

\* The handler asks for the session once more before it does anything.
LapsedPost(t) ==
  /\ stage[t] = "admitted" /\ call[t].what \in Posts \ {"logout"}
  /\ Sid(t) = 0
  /\ Answered(t, To("loginForm"))

\* refresh_health does not rotate the CSRF token.
Health(t) ==
  /\ stage[t] = "admitted" /\ call[t].what = "health"
  /\ Answered(t, [Saying(To("dashboard"), "none") EXCEPT
                    !.sets = {"session", "flash"},
                    !.cookies.session = Reissued(t)])

\* Every other post rotates it, whether it succeeds or says why not.
Rotated(t, n, where, flash) ==
  [To(where) EXCEPT !.sets = Names,
                    !.cookies = [session |-> Reissued(t),
                                 csrf |-> [sid |-> call[t].sid, n |-> n],
                                 flash |-> flash]]

Changed(t) ==
  /\ stage[t] = "admitted" /\ call[t].what = "change"
  /\ \E n \in Nonces : /\ New(n, Nonces, UsedNonces)
                      /\ Answered(t, Rotated(t, n, "dashboard", "none"))

\* The raw key exists nowhere but in the flash.
Created(t) ==
  /\ stage[t] = "admitted" /\ call[t].what = "change"
  /\ \E n \in Nonces : /\ New(n, Nonces, UsedNonces)
                      /\ AnsweredWith(t, Rotated(t, n, "created", t))
  /\ kept' = [kept EXCEPT ![t] = TRUE]

\* An exception no handler foresees, or a form that does not validate.
Raises(t) ==
  /\ stage[t] = "admitted" /\ call[t].what # "logout"
  /\ Answered(t, Page("failed"))

Next ==
  \/ \E t \in Tabs :
       \/ Open(t) \/ SignIn(t)
       \/ (\E what \in Posts : Submit(t, what)) \/ Abandon(t)
       \/ Render(t) \/ Redirect(t) \/ Follow(t)
       \/ AdmitGet(t) \/ LoginForm(t) \/ Login(t) \/ AdmitPost(t) \/ Refuse(t)
       \/ ShowPage(t) \/ GoneGet(t) \/ LoggedOut(t) \/ LapsedPost(t)
       \/ Health(t) \/ Changed(t) \/ Created(t) \/ Raises(t)
  \/ Tick

Spec == Init /\ [][Next]_vars

(***************************************************************************)
(* Properties                                                              *)
(***************************************************************************)

Stages == {"idle", "sent", "admitted", "answered", "redirected"}

TypeOK ==
  /\ jar \in Cookies
  /\ page \in [Tabs -> Forms]
  /\ call \in [Tabs -> Calls]
  /\ stage \in [Tabs -> Stages]
  /\ answer \in [Tabs -> Answers]
  /\ current \in [Tabs -> BOOLEAN]
  /\ kept \in [Tabs -> BOOLEAN]

\* A form whose page set the last CSRF cookie is accepted as long as the session
\* lasts, also when it is sent again after an answer that never arrived.
FreshFormAccepted ==
  \A t \in Tabs :
    stage[t] = "answered" /\ answer[t].at = "refused"
      => ~call[t].current \/ call[t].cookies.session = NoSession

\* "Show the raw key once on a dedicated page via flash": unless a minute passes
\* before it is read, or another tab's answer comes between the redirect and the
\* request it leads to, the page after a creation shows the key that was created in this tab.
NewKeyShown ==
  \A t \in Tabs :
    kept[t] /\ stage[t] = "answered" /\ answer[t].at = "created"
      => answer[t].shows = t

\* A live session leaves the browser only with the answer of a logout, of a login
\* that took longer than a session lasts, or of a
\* request whose own session lapsed before its answer came, or by lapsing.
SignedOutOnlyBy ==
  [][ jar.session # NoSession /\ jar'.session = NoSession =>
        \/ jar.session.age = Ttl /\ stage' = stage
        \/ \E t \in Tabs :
             /\ stage[t] = "answered" /\ stage'[t] # "answered"
             /\ \/ call[t].what \in {"logout", "login"}
                \/ call[t].sid # 0 /\ call[t].cookies.session = NoSession ]_vars
=============================================================================
