----------------------- MODULE DashboardSession_proofs -----------------------
(***************************************************************************)
(* The cookies of the dashboard for any number of tabs, session ids and    *)
(* CSRF tokens and any time to live.                                       *)
(***************************************************************************)
EXTENDS DashboardSession, TLAPS

\* The page that is the last to have set the session and CSRF cookies has a form
\* with this token, of this session.
FormsCurrent ==
  \A t \in Tabs : current[t] =>
    /\ page[t].token = jar.csrf /\ page[t].token # NoToken
    /\ jar.session.sid \in {0, jar.csrf.sid}

\* So has a post from that page; what a redirect leads to is none.
SentFormsCurrent ==
  \A t \in Tabs : call[t].current =>
    /\ stage[t] # "redirected"
    /\ stage[t] = "sent" =>
         /\ call[t].form = call[t].cookies.csrf /\ call[t].form # NoToken
         /\ call[t].cookies.session.sid \in {0, call[t].form.sid}

\* The session of a handler is that of the request, also when it has lapsed since.
HandlersSigned ==
  \A t \in Tabs : stage[t] = "admitted" =>
    call[t].sid \in Sids /\ call[t].cookies.session.sid \in {0, call[t].sid}

\* A page brings the cookies its forms need.  A session cookie is renewed no later
\* than it was set, so it does not lapse before the one the request came with.
AnswerFits(t, ans) ==
  /\ ans.token # NoToken => /\ ans.sets = Names /\ ans.cookies.csrf = ans.token
                            /\ ans.cookies.session.sid \in {0, ans.token.sid}
  /\ "session" \in ans.sets /\ call[t].what \notin {"login", "logout"} =>
       /\ call[t].sid # 0
       /\ \/ call[t].cookies.session = NoSession
          \/ /\ ans.cookies.session # NoSession
             /\ ans.cookies.session.age <= call[t].cookies.session.age
  /\ ans.to # "nowhere" => ans.at = "nothing"
  /\ ans.at = "refused" => ~call[t].current \/ call[t].cookies.session = NoSession

\* The answer to a creation carries the raw key, the page it leads to shows it.
CarriesKey(t, ans) ==
  /\ ans.to = "created" => "flash" \in ans.sets /\ ans.cookies.flash = t
  /\ ans.at = "created" => ans.shows = t

AnswersFit ==
  \A t \in Tabs : stage[t] = "answered" =>
    AnswerFits(t, answer[t]) /\ (kept[t] => CarriesKey(t, answer[t]))

\* Between the two the raw key is in the cookie, then in the request for the page.
KeyUnderWay ==
  \A t \in Tabs : kept[t] /\ call[t].what = "created" =>
    /\ stage[t] = "redirected" => jar.flash = t
    /\ stage[t] \in {"sent", "admitted"} => call[t].cookies.flash = t

OneAnswer == \A t \in Tabs : stage[t] # "answered" => answer[t] = NoAnswer

DashInv == /\ TypeOK /\ FormsCurrent /\ SentFormsCurrent /\ HandlersSigned
           /\ AnswersFit /\ KeyUnderWay /\ OneAnswer

\* The constants that stand for no value.
LEMMA NoneTypes ==
  /\ NoSession \in Sessions /\ NoToken \in Tokens /\ "none" \in Flashes
  /\ NoCookies \in Cookies /\ NoForm \in Forms /\ NoCall \in Calls /\ NoAnswer \in Answers
  <1>1. NoSession \in Sessions /\ NoToken \in Tokens /\ "none" \in Flashes
    BY DEF Sessions, Tokens, Flashes
  <1>2. NoCookies \in Cookies
    BY <1>1 DEF NoCookies, Cookies
  <1>3. NoForm \in Forms
    BY <1>1 DEF NoForm, Forms
  <1>4. NoCall \in Calls
    BY <1>1, <1>2 DEF NoCall, Calls, Gets
  <1>5. NoAnswer \in Answers
    BY <1>1, <1>2 DEF NoAnswer, Answers, Screens
  <1> QED
    BY <1>1, <1>2, <1>3, <1>4, <1>5

\* What a request carries is what the browser has, or nothing.
LEMMA CarriedType ==
  ASSUME jar \in Cookies, NEW what
  PROVE  /\ Carried(what) \in Cookies /\ Carried(what).session = jar.session
         /\ what \in Posts => Carried(what).csrf = jar.csrf
         /\ what \in Gets => Carried(what).flash = jar.flash
  BY NoneTypes DEF Carried, Cookies

LEMMA SendStep ==
  ASSUME DashInv, NEW t \in Tabs, NEW what \in Gets \union Posts \union {"login"},
         NEW form \in Tokens, Send(t, what, form), what # "created",
         what \in Posts => form = page[t].token
  PROVE  DashInv'
  <1> DEFINE new == [what |-> what, form |-> form, cookies |-> Carried(what),
                     sid |-> 0, current |-> what \in Posts /\ current[t]]
  <1> USE DEF DashInv, TypeOK
  <1>1. new \in Calls
    BY CarriedType DEF Calls
  <1>2. /\ call' = [call EXCEPT ![t] = new] /\ stage' = [stage EXCEPT ![t] = "sent"]
        /\ stage[t] = "idle" /\ UNCHANGED <<jar, page, answer, current, kept>>
    BY DEF Send
  <1>3. /\ new.what = what /\ new.form = form /\ new.cookies.session = jar.session
        /\ what \in Posts => new.cookies.csrf = jar.csrf
        /\ new.current => what \in Posts /\ current[t]
    BY CarriedType
  <1> HIDE DEF new
  <1>4. TypeOK'
    BY <1>1, <1>2 DEF Stages
  <1>5. FormsCurrent' /\ HandlersSigned' /\ OneAnswer'
    BY <1>2 DEF FormsCurrent, HandlersSigned, OneAnswer
  <1>6. SentFormsCurrent'
    BY <1>2, <1>3 DEF SentFormsCurrent, FormsCurrent
  <1>7. AnswersFit' /\ KeyUnderWay'
    BY <1>2, <1>3 DEF AnswersFit, AnswerFits, CarriesKey, KeyUnderWay
  <1> QED
    BY <1>4, <1>5, <1>6, <1>7

LEMMA FollowStep ==
  ASSUME DashInv, NEW t \in Tabs, Follow(t)
  PROVE  DashInv'
  <1> USE DEF DashInv, TypeOK
  <1>1. /\ call' \in [Tabs -> Calls] /\ call'[t].what = call[t].what
        /\ call'[t].current = call[t].current
        /\ call[t].what = "created" => call'[t].cookies.flash = jar.flash
        /\ \A u \in Tabs \ {t} : call'[u] = call[u]
    BY CarriedType DEF Follow, Calls, Gets
  <1>2. /\ stage[t] = "redirected" /\ stage' = [stage EXCEPT ![t] = "sent"]
        /\ UNCHANGED <<jar, page, answer, current, kept>>
    BY DEF Follow
  <1>3. TypeOK' /\ FormsCurrent'
    BY <1>1, <1>2 DEF Stages, FormsCurrent
  <1>4. SentFormsCurrent' /\ HandlersSigned' /\ OneAnswer'
    BY <1>1, <1>2 DEF SentFormsCurrent, HandlersSigned, OneAnswer
  <1>5. AnswersFit' /\ KeyUnderWay'
    BY <1>1, <1>2 DEF AnswersFit, AnswerFits, CarriesKey, KeyUnderWay
  <1> QED
    BY <1>3, <1>4, <1>5

LEMMA AbandonStep ==
  ASSUME DashInv, NEW t \in Tabs, Abandon(t)
  PROVE  DashInv'
  <1> USE DEF DashInv, TypeOK
  <1>1. TypeOK' /\ FormsCurrent'
    BY NoneTypes DEF Abandon, Stages, FormsCurrent
  <1>2. SentFormsCurrent' /\ HandlersSigned' /\ OneAnswer'
    BY DEF Abandon, SentFormsCurrent, HandlersSigned, OneAnswer, NoCall
  <1>3. AnswersFit' /\ KeyUnderWay'
    BY DEF Abandon, AnswersFit, AnswerFits, CarriesKey, KeyUnderWay, NoCall
  <1> QED
    BY <1>1, <1>2, <1>3

\* What a handler no longer looks at is left out of the request.
LEMMA CallType ==
  ASSUME NEW f \in [Tabs -> Calls], NEW t \in Tabs
  PROVE  /\ [f EXCEPT ![t].form = NoToken] \in [Tabs -> Calls]
         /\ [f EXCEPT ![t].current = FALSE] \in [Tabs -> Calls]
         /\ \A sid \in Sids : [f EXCEPT ![t].sid = sid] \in [Tabs -> Calls]
         /\ [f EXCEPT ![t].cookies.csrf = NoToken] \in [Tabs -> Calls]
         /\ [f EXCEPT ![t].cookies.flash = "none"] \in [Tabs -> Calls]
  <1>1. ASSUME NEW c \in Calls
        PROVE  /\ [c EXCEPT !.form = NoToken] \in Calls /\ [c EXCEPT !.current = FALSE] \in Calls
               /\ \A sid \in Sids : [c EXCEPT !.sid = sid] \in Calls
    BY NoneTypes DEF Calls
  <1>2. ASSUME NEW c \in Calls
        PROVE  /\ [c EXCEPT !.cookies.csrf = NoToken] \in Calls
               /\ [c EXCEPT !.cookies.flash = "none"] \in Calls
    <2>1. c.cookies \in Cookies
      BY DEF Calls
    <2>2. /\ [c.cookies EXCEPT !.csrf = NoToken] \in Cookies
          /\ [c.cookies EXCEPT !.flash = "none"] \in Cookies
      BY <2>1, NoneTypes DEF Cookies
    <2> QED
      BY <2>2 DEF Calls
  <1> QED
    BY <1>1, <1>2

LEMMA AdmittedStep ==
  ASSUME DashInv, NEW t \in Tabs, stage[t] = "sent", Sid(t) # 0, Admitted(t)
  PROVE  DashInv'
  <1> USE DEF DashInv, TypeOK
  <1>1. Sid(t) \in Sids /\ Sid(t) = call[t].cookies.session.sid
    BY DEF Sid, Calls, Cookies, Sessions, NoSession
  <1>2. /\ call' \in [Tabs -> Calls] /\ call'[t].what = call[t].what
        /\ ~call'[t].current /\ call'[t].sid = Sid(t)
        /\ call'[t].cookies.session = call[t].cookies.session
        /\ call'[t].cookies.flash = call[t].cookies.flash
        /\ \A u \in Tabs \ {t} : call'[u] = call[u]
    <2> DEFINE call1 == [call EXCEPT ![t].sid = Sid(t)]
               call2 == [call1 EXCEPT ![t].form = NoToken]
               call3 == [call2 EXCEPT ![t].cookies.csrf = NoToken]
               call4 == [call3 EXCEPT ![t].current = FALSE]
    <2>1. call1 \in [Tabs -> Calls]
      BY <1>1, CallType
    <2> HIDE DEF call1
    <2>2. call2 \in [Tabs -> Calls]
      BY <2>1, CallType
    <2> HIDE DEF call2
    <2>3. call3 \in [Tabs -> Calls]
      BY <2>2, CallType
    <2> HIDE DEF call3
    <2>5. call4 \in [Tabs -> Calls]
      BY <2>3, CallType
    <2>4. call' = call4
      BY DEF Admitted, call1, call2, call3
    <2> QED
      BY <2>1, <2>2, <2>3, <2>4, <2>5 DEF call1, call2, call3, Calls, Cookies
  <1>3. stage' = [stage EXCEPT ![t] = "admitted"] /\ UNCHANGED <<jar, page, answer, current, kept>>
    BY DEF Admitted
  <1>4. TypeOK' /\ FormsCurrent'
    BY <1>2, <1>3 DEF Stages, FormsCurrent
  <1>5. SentFormsCurrent' /\ HandlersSigned' /\ OneAnswer'
    BY <1>1, <1>2, <1>3 DEF SentFormsCurrent, HandlersSigned, OneAnswer
  <1>6. AnswersFit' /\ KeyUnderWay'
    BY <1>2, <1>3 DEF AnswersFit, AnswerFits, CarriesKey, KeyUnderWay
  <1> QED
    BY <1>4, <1>5, <1>6

\* Whatever the handler answers, if the answer fits the request.
LEMMA AnswerStep ==
  ASSUME DashInv, NEW t \in Tabs, NEW ans \in Answers, AnsweredWith(t, ans),
         stage[t] \in {"sent", "admitted"}, AnswerFits(t, ans),
         kept' \in [Tabs -> BOOLEAN], \A u \in Tabs \ {t} : kept'[u] = kept[u],
         kept'[t] => CarriesKey(t, ans)
  PROVE  DashInv'
  <1> USE DEF DashInv, TypeOK
  <1>1. /\ call' \in [Tabs -> Calls] /\ call'[t].what = call[t].what
        /\ call'[t].current = call[t].current /\ call'[t].sid = call[t].sid
        /\ call'[t].cookies.session = call[t].cookies.session
        /\ \A u \in Tabs \ {t} : call'[u] = call[u]
    <2> DEFINE call1 == [call EXCEPT ![t].form = NoToken]
               call2 == [call1 EXCEPT ![t].cookies.csrf = NoToken]
               call3 == [call2 EXCEPT ![t].cookies.flash = "none"]
    <2>1. call1 \in [Tabs -> Calls]
      BY CallType
    <2> HIDE DEF call1
    <2>2. call2 \in [Tabs -> Calls]
      BY <2>1, CallType
    <2> HIDE DEF call2
    <2>3. call3 \in [Tabs -> Calls]
      BY <2>2, CallType
    <2>4. call' = call3
      BY DEF AnsweredWith, call1, call2
    <2> QED
      BY <2>1, <2>2, <2>3, <2>4 DEF call1, call2, Calls, Cookies
  <1>2. /\ stage' = [stage EXCEPT ![t] = "answered"] /\ answer' = [answer EXCEPT ![t] = ans]
        /\ UNCHANGED <<jar, page, current>>
    BY DEF AnsweredWith
  <1>3. TypeOK' /\ FormsCurrent'
    BY <1>1, <1>2 DEF Stages, FormsCurrent
  <1>4. SentFormsCurrent' /\ HandlersSigned' /\ OneAnswer'
    BY <1>1, <1>2 DEF SentFormsCurrent, HandlersSigned, OneAnswer
  <1>5. AnswersFit'
    <2> SUFFICES ASSUME NEW u \in Tabs, stage'[u] = "answered"
                 PROVE  AnswerFits(u, answer[u])' /\ (kept'[u] => CarriesKey(u, answer[u])')
      BY DEF AnswersFit
    <2>1. CASE u = t
      BY <1>1, <1>2, <2>1 DEF AnswerFits, CarriesKey
    <2>2. CASE u # t
      BY <1>1, <1>2, <2>2 DEF AnswersFit, AnswerFits, CarriesKey
    <2> QED
      BY <2>1, <2>2
  <1>6. KeyUnderWay'
    BY <1>1, <1>2 DEF KeyUnderWay
  <1> QED
    BY <1>3, <1>4, <1>5, <1>6

\* The cookies of the browser when an answer arrives.
LEMMA SetCookiesType ==
  ASSUME DashInv, NEW t \in Tabs, SetCookies(t)
  PROVE  /\ jar' \in Cookies
         /\ "session" \in answer[t].sets => jar'.session = answer[t].cookies.session
         /\ "session" \notin answer[t].sets => jar'.session = jar.session
         /\ "csrf" \in answer[t].sets => jar'.csrf = answer[t].cookies.csrf
         /\ "csrf" \notin answer[t].sets => jar'.csrf = jar.csrf
         /\ "flash" \in answer[t].sets => jar'.flash = answer[t].cookies.flash
         /\ "flash" \notin answer[t].sets => jar'.flash = jar.flash
  BY DEF DashInv, TypeOK, SetCookies, Answers, Cookies

LEMMA RenderStep ==
  ASSUME DashInv, NEW t \in Tabs, Render(t)
  PROVE  DashInv'
  <1> USE DEF DashInv, TypeOK
  <1> DEFINE form == [login |-> answer[t].at = "login", token |-> answer[t].token]
  <1>1. form \in Forms /\ form.token = answer[t].token
    BY DEF Forms, Answers
  <1>2. /\ page' = [page EXCEPT ![t] = form] /\ stage[t] = "answered"
        /\ stage' = [stage EXCEPT ![t] = "idle"] /\ call' = [call EXCEPT ![t] = NoCall]
        /\ answer' = [answer EXCEPT ![t] = NoAnswer]
        /\ current' = [StillCurrent(t) EXCEPT ![t] = answer[t].token # NoToken]
        /\ kept' = [StillKept(t) EXCEPT ![t] = FALSE]
    BY DEF Render
  <1> HIDE DEF form
  <1>3. StillCurrent(t) \in [Tabs -> BOOLEAN] /\ StillKept(t) \in [Tabs -> BOOLEAN]
    BY DEF StillCurrent, StillKept
  <1>4. SetCookies(t)
    BY DEF Render
  <1>5. TypeOK'
    BY <1>1, <1>2, <1>3, <1>4, NoneTypes, SetCookiesType DEF Stages
  <1>6. FormsCurrent'
    <2> SUFFICES ASSUME NEW u \in Tabs, current'[u]
                 PROVE  /\ page'[u].token = jar'.csrf /\ page'[u].token # NoToken
                        /\ jar'.session.sid \in {0, jar'.csrf.sid}
      BY DEF FormsCurrent
    <2>1. CASE u = t
      <3>1. /\ answer[t].token # NoToken /\ answer[t].sets = Names
            /\ answer[t].cookies.csrf = answer[t].token
            /\ answer[t].cookies.session.sid \in {0, answer[t].token.sid}
        BY <1>2, <1>3, <2>1 DEF AnswersFit, AnswerFits
      <3> QED
        BY <1>1, <1>2, <1>4, <2>1, <3>1, SetCookiesType DEF Names
    <2>2. CASE u # t
      <3>1. current[u] /\ answer[t].sets \cap {"session", "csrf"} = {}
        BY <1>2, <2>2 DEF StillCurrent
      <3>2. jar'.session = jar.session /\ jar'.csrf = jar.csrf
        BY <1>4, <3>1, SetCookiesType
      <3> QED
        BY <1>2, <2>2, <3>1, <3>2 DEF FormsCurrent
    <2> QED
      BY <2>1, <2>2
  <1>7. SentFormsCurrent' /\ HandlersSigned' /\ OneAnswer'
    BY <1>2 DEF SentFormsCurrent, HandlersSigned, OneAnswer, NoCall
  <1>8. \A u \in Tabs : kept'[u] => u # t /\ kept[u] /\ (stage[u] = "redirected" => jar'.flash = jar.flash)
    BY <1>2, <1>3, <1>4, SetCookiesType DEF StillKept
  <1>9. AnswersFit'
    BY <1>2, <1>8 DEF AnswersFit, AnswerFits, CarriesKey
  <1>10. KeyUnderWay'
    BY <1>2, <1>8 DEF KeyUnderWay
  <1> QED
    BY <1>5, <1>6, <1>7, <1>9, <1>10

LEMMA RedirectStep ==
  ASSUME DashInv, NEW t \in Tabs, Redirect(t)
  PROVE  DashInv'
  <1> USE DEF DashInv, TypeOK
  <1> DEFINE next == [NoCall EXCEPT !.what = answer[t].to]
  <1>1. next \in Calls /\ next.what = answer[t].to /\ ~next.current
    BY NoneTypes DEF Redirect, NoCall, Calls, Answers
  <1>2. /\ stage[t] = "answered" /\ stage' = [stage EXCEPT ![t] = "redirected"]
        /\ call' = [call EXCEPT ![t] = next] /\ answer' = [answer EXCEPT ![t] = NoAnswer]
        /\ current' = StillCurrent(t) /\ kept' = StillKept(t) /\ page' = page
    BY DEF Redirect
  <1> HIDE DEF next
  <1>3. StillCurrent(t) \in [Tabs -> BOOLEAN] /\ StillKept(t) \in [Tabs -> BOOLEAN]
    BY DEF StillCurrent, StillKept
  <1>4. SetCookies(t)
    BY DEF Redirect
  <1>5. TypeOK'
    BY <1>1, <1>2, <1>3, <1>4, NoneTypes, SetCookiesType DEF Stages
  <1>6. FormsCurrent'
    <2>1. ASSUME NEW u \in Tabs, current'[u]
          PROVE  current[u] /\ jar'.session = jar.session /\ jar'.csrf = jar.csrf
      BY <1>2, <1>4, <2>1, SetCookiesType DEF StillCurrent
    <2> QED
      BY <1>2, <2>1 DEF FormsCurrent
  <1>7. SentFormsCurrent' /\ HandlersSigned' /\ OneAnswer'
    BY <1>1, <1>2 DEF SentFormsCurrent, HandlersSigned, OneAnswer
  <1>8. \A u \in Tabs : kept'[u] => kept[u] /\ (stage[u] = "redirected" => jar'.flash = jar.flash)
    BY <1>2, <1>4, SetCookiesType DEF StillKept
  <1>9. AnswersFit'
    BY <1>2, <1>8 DEF AnswersFit, AnswerFits, CarriesKey
  <1>10. KeyUnderWay'
    <2>1. kept[t] /\ answer[t].to = "created" => jar'.flash = t
      BY <1>2, <1>4, SetCookiesType DEF AnswersFit, CarriesKey
    <2> QED
      BY <1>1, <1>2, <1>8, <2>1 DEF KeyUnderWay
  <1> QED
    BY <1>5, <1>6, <1>7, <1>9, <1>10

\* A cookie that ages is the same or has lapsed, an older one no later.
LEMMA OlderType ==
  ASSUME NEW s \in Sessions
  PROVE  /\ Older(s) \in Sessions /\ Older(s).sid \in {0, s.sid}
         /\ s = NoSession => Older(s) = NoSession
         /\ \A r \in Sessions : s.age <= r.age /\ s # NoSession =>
              \/ Older(r) = NoSession
              \/ Older(s) # NoSession /\ Older(s).age <= Older(r).age
  BY TtlAssumption, IdsAssumption DEF Older, Sessions, NoSession

LEMMA AgedType ==
  ASSUME NEW c \in Cookies
  PROVE  /\ Aged(c) \in Cookies /\ Aged(c).session = Older(c.session)
         /\ Aged(c).csrf = c.csrf /\ Aged(c).flash = "none"
  BY OlderType, NoneTypes DEF Aged, Cookies

LEMMA TickStep ==
  ASSUME DashInv, Tick
  PROVE  DashInv'
  <1> USE DEF DashInv, TypeOK
  <1>1. /\ jar' \in Cookies /\ jar'.session.sid \in {0, jar.session.sid} /\ jar'.csrf = jar.csrf
    BY AgedType, OlderType DEF Tick, Cookies
  <1>2. \A t \in Tabs :
          /\ call'[t] \in Calls /\ call'[t].what = call[t].what /\ call'[t].sid = call[t].sid
          /\ call'[t].current = call[t].current /\ call'[t].form = call[t].form
          /\ call'[t].cookies.session = Older(call[t].cookies.session)
          /\ call'[t].cookies.csrf = call[t].cookies.csrf
          /\ call[t].cookies.session \in Sessions
    BY AgedType DEF Tick, Calls, Cookies
  <1>3. \A t \in Tabs :
          /\ answer'[t] \in Answers /\ answer'[t].sets = answer[t].sets
          /\ answer'[t].to = answer[t].to /\ answer'[t].at = answer[t].at
          /\ answer'[t].token = answer[t].token /\ answer'[t].shows = answer[t].shows
          /\ answer'[t].cookies.session = Older(answer[t].cookies.session)
          /\ answer'[t].cookies.csrf = answer[t].cookies.csrf
          /\ answer[t].cookies.session \in Sessions
    BY AgedType DEF Tick, Answers, Cookies
  <1>4. /\ UNCHANGED <<page, stage, current>>
        /\ kept' = [t \in Tabs |-> kept[t] /\ answer[t].at = "created"]
    BY DEF Tick
  <1>5. TypeOK'
    <2>1. call' \in [Tabs -> Calls] /\ answer' \in [Tabs -> Answers]
      BY <1>2, <1>3 DEF Tick
    <2> QED
      BY <1>1, <1>4, <2>1
  <1>6. FormsCurrent'
    BY <1>1, <1>4 DEF FormsCurrent
  <1>7. SentFormsCurrent' /\ HandlersSigned'
    BY <1>2, <1>4, OlderType DEF SentFormsCurrent, HandlersSigned
  <1>8. ASSUME NEW t \in Tabs, stage[t] = "answered"
        PROVE  AnswerFits(t, answer[t])' /\ (kept'[t] => CarriesKey(t, answer[t])')
    <2>1. AnswerFits(t, answer[t]) /\ (kept[t] => CarriesKey(t, answer[t]))
      BY <1>8 DEF AnswersFit
    <2>2. answer'[t].token # NoToken =>
            /\ answer'[t].sets = Names /\ answer'[t].cookies.csrf = answer'[t].token
            /\ answer'[t].cookies.session.sid \in {0, answer'[t].token.sid}
      BY <1>3, <2>1, OlderType DEF AnswerFits
    <2>3. "session" \in answer'[t].sets /\ call'[t].what \notin {"login", "logout"} =>
            /\ call'[t].sid # 0
            /\ \/ call'[t].cookies.session = NoSession
               \/ /\ answer'[t].cookies.session # NoSession
                  /\ answer'[t].cookies.session.age <= call'[t].cookies.session.age
      BY <1>2, <1>3, <2>1, OlderType DEF AnswerFits
    <2>4. /\ answer'[t].to # "nowhere" => answer'[t].at = "nothing"
          /\ answer'[t].at = "refused" => ~call'[t].current \/ call'[t].cookies.session = NoSession
      BY <1>2, <1>3, <2>1, OlderType DEF AnswerFits
    <2>5. kept'[t] => CarriesKey(t, answer[t])'
      BY <1>3, <1>4, <2>1 DEF CarriesKey, AnswerFits
    <2> QED
      BY <2>2, <2>3, <2>4, <2>5 DEF AnswerFits
  <1>9. AnswersFit'
    BY <1>4, <1>8 DEF AnswersFit
  <1>10. KeyUnderWay' /\ OneAnswer'
    <2>1. ASSUME NEW t \in Tabs, kept'[t]
          PROVE  stage[t] = "answered"
      <3>1. answer[t].at = "created"
        BY <1>4, <2>1
      <3>2. NoAnswer.at = "nothing"
        BY DEF NoAnswer
      <3> QED
        BY <3>1, <3>2 DEF OneAnswer
    <2>2. Aged(NoCookies) = NoCookies
      <3>1. Older(NoSession) = NoSession
        BY DEF Older
      <3> QED
        <4>1. /\ Aged(NoCookies) \in Cookies /\ Aged(NoCookies).session = NoSession
              /\ Aged(NoCookies).csrf = NoToken /\ Aged(NoCookies).flash = "none"
          BY <3>1, AgedType, NoneTypes DEF NoCookies
        <4> HIDE DEF Aged
        <4> QED
          BY <4>1 DEF NoCookies, Cookies
    <2>3. [NoAnswer EXCEPT !.cookies = Aged(NoAnswer.cookies)] = NoAnswer
      BY <2>2 DEF NoAnswer
    <2>4. OneAnswer'
      BY <1>4, <2>3 DEF OneAnswer, Tick
    <2> QED
      BY <1>4, <2>1, <2>4 DEF KeyUnderWay
  <1> QED
    BY <1>1, <1>5, <1>6, <1>7, <1>9, <1>10

(***************************************************************************)
(* The handlers, by what they answer                                       *)
(***************************************************************************)

\* Redirects and pages without a token, with a message or without.
LEMMA PlainAnswers ==
  ASSUME NEW at \in Screens, NEW where \in Gets, NEW shows \in Flashes
  PROVE  /\ Page(at) \in Answers /\ To(where) \in Answers
         /\ Saying(To(where), "none") \in Answers
         /\ Saying(To(where), "none").to = where /\ Saying(To(where), "none").at = "nothing"
         /\ Saying(To(where), "none").token = NoToken
         /\ Saying(To(where), "none").sets = {"flash"}
         /\ Saying([Page(at) EXCEPT !.shows = shows], "none") \in Answers
         /\ Page(at).at = at /\ Page(at).sets = {} /\ Page(at).to = "nowhere"
         /\ Page(at).token = NoToken
         /\ To(where).to = where /\ To(where).at = "nothing" /\ To(where).sets = {}
         /\ To(where).token = NoToken
  BY NoneTypes DEF Page, To, Saying, NoAnswer, Answers, Cookies, Names

\* The session that a handler sets again.
LEMMA ReissuedType ==
  ASSUME DashInv, NEW t \in Tabs, stage[t] = "admitted"
  PROVE  /\ Reissued(t) \in Sessions /\ Reissued(t).sid \in {0, call[t].sid}
         /\ call[t].sid \in Sids /\ call[t].sid # 0
         /\ \/ call[t].cookies.session = NoSession
            \/ /\ Reissued(t) # NoSession
               /\ Reissued(t).age <= call[t].cookies.session.age
  <1>1. /\ call[t].cookies.session \in Sessions /\ call[t].sid \in Sids /\ 0 \notin Sids
        /\ call[t].cookies.session.sid \in {0, call[t].sid}
    BY IdsAssumption DEF DashInv, TypeOK, HandlersSigned, Calls, Cookies
  <1> QED
    BY <1>1, TtlAssumption DEF Reissued, Sid, Sessions, NoSession

LEMMA ShowPageStep ==
  ASSUME DashInv, NEW t \in Tabs, ShowPage(t)
  PROVE  DashInv'
  <1>1. PICK n \in Nonces :
          Answered(t, [NoAnswer EXCEPT
            !.sets = Names,
            !.cookies = [session |-> Reissued(t), csrf |-> [sid |-> call[t].sid, n |-> n],
                         flash |-> "none"],
            !.at = call[t].what, !.token = FormToken(call[t].sid, n), !.shows = ReadFlash(t)])
    BY DEF ShowPage
  <1> DEFINE token == [sid |-> call[t].sid, n |-> n]
             cookies == [session |-> Reissued(t), csrf |-> token, flash |-> "none"]
             ans == [NoAnswer EXCEPT !.sets = Names, !.cookies = cookies, !.at = call[t].what,
                                     !.token = token, !.shows = call[t].cookies.flash]
  <1>2. stage[t] = "admitted" /\ call[t].what \in {"dashboard", "created"}
    BY DEF ShowPage
  <1>3. token \in Tokens /\ token.sid = call[t].sid
    BY <1>2, ReissuedType DEF Tokens
  <1>4. cookies \in Cookies
    BY <1>2, <1>3, ReissuedType, NoneTypes DEF Cookies
  <1>5. call[t].cookies.flash \in Flashes
    BY DEF DashInv, TypeOK, Calls, Cookies
  <1>6. /\ ans \in Answers /\ ans.sets = Names /\ ans.cookies = cookies
        /\ ans.to = "nowhere" /\ ans.at = call[t].what /\ ans.token = token
        /\ ans.shows = call[t].cookies.flash
    BY <1>2, <1>3, <1>4, <1>5 DEF NoAnswer, Answers, Screens
  <1>7. AnsweredWith(t, ans) /\ kept' = kept
    BY <1>1 DEF Answered, FormToken, ReadFlash
  <1> HIDE DEF ans
  <1>8. AnswerFits(t, ans)
    BY <1>2, <1>3, <1>6, ReissuedType DEF AnswerFits
  <1>9. kept[t] => CarriesKey(t, ans)
    BY <1>2, <1>6 DEF CarriesKey, DashInv, KeyUnderWay
  <1> QED
    BY <1>2, <1>6, <1>7, <1>8, <1>9, AnswerStep DEF DashInv, TypeOK

\* The posts that change something: session, token and message are all new.
LEMMA RotatedStep ==
  ASSUME DashInv, NEW t \in Tabs, Changed(t) \/ Created(t)
  PROVE  DashInv'
  <1>1. PICK n \in Nonces, where \in Gets, flash \in Flashes :
          /\ AnsweredWith(t, Rotated(t, n, where, flash))
          /\ where = "created" => flash = t
          /\ kept' \in [Tabs -> BOOLEAN] /\ \A u \in Tabs \ {t} : kept'[u] = kept[u]
    BY DEF Changed, Created, Answered, Gets, Flashes, DashInv, TypeOK
  <1> DEFINE token == [sid |-> call[t].sid, n |-> n]
             cookies == [session |-> Reissued(t), csrf |-> token, flash |-> flash]
             ans == [To(where) EXCEPT !.sets = Names, !.cookies = cookies]
  <1>2. stage[t] = "admitted" /\ call[t].what = "change"
    BY DEF Changed, Created
  <1>3. token \in Tokens
    BY <1>2, ReissuedType DEF Tokens
  <1>4. cookies \in Cookies
    BY <1>2, <1>3, ReissuedType DEF Cookies
  <1>5. /\ ans \in Answers /\ ans.sets = Names /\ ans.cookies = cookies /\ ans.to = where
        /\ ans.at = "nothing" /\ ans.token = NoToken
    <2>1. /\ To(where) \in Answers /\ To(where).to = where /\ To(where).at = "nothing"
          /\ To(where).token = NoToken
      BY NoneTypes DEF To, NoAnswer, Answers
    <2> QED
      BY <1>4, <2>1 DEF Answers
  <1>6. AnsweredWith(t, ans)
    BY <1>1 DEF Rotated
  <1> HIDE DEF ans
  <1>7. AnswerFits(t, ans)
    BY <1>2, <1>5, ReissuedType DEF AnswerFits
  <1>8. CarriesKey(t, ans)
    BY <1>1, <1>5 DEF CarriesKey, Names
  <1> QED
    BY <1>1, <1>2, <1>5, <1>6, <1>7, <1>8, AnswerStep

LEMMA HealthStep ==
  ASSUME DashInv, NEW t \in Tabs, Health(t)
  PROVE  DashInv'
  <1> DEFINE said == Saying(To("dashboard"), "none")
             ans == [said EXCEPT !.sets = {"session", "flash"}, !.cookies.session = Reissued(t)]
  <1>1. stage[t] = "admitted" /\ call[t].what = "health"
    BY DEF Health
  <1>2. /\ said \in Answers /\ said.to = "dashboard" /\ said.at = "nothing"
        /\ said.token = NoToken
    BY PlainAnswers DEF Gets, Screens, Flashes
  <1>3. AnsweredWith(t, ans) /\ kept' = kept
    BY DEF Health, Answered
  <1> HIDE DEF said
  <1>4. /\ ans \in Answers /\ ans.to = "dashboard" /\ ans.at = "nothing" /\ ans.token = NoToken
        /\ ans.cookies.session = Reissued(t)
    <2>1. said.cookies \in Cookies
      BY <1>2 DEF Answers
    <2>2. [said.cookies EXCEPT !.session = Reissued(t)] \in Cookies
      BY <1>1, <2>1, ReissuedType DEF Cookies
    <2> QED
      BY <1>2, <2>1, <2>2 DEF Answers, Cookies, Names
  <1> HIDE DEF ans
  <1>5. AnswerFits(t, ans) /\ CarriesKey(t, ans)
    BY <1>1, <1>4, ReissuedType DEF AnswerFits, CarriesKey
  <1> QED
    BY <1>1, <1>3, <1>4, <1>5, AnswerStep DEF DashInv, TypeOK

LEMMA LoginStep ==
  ASSUME DashInv, NEW t \in Tabs, Login(t)
  PROVE  DashInv'
  <1>1. stage[t] = "sent" /\ call[t].what = "login"
    BY DEF Login
  <1>2. CASE Answered(t, Saying(To("loginForm"), "none"))
    <2> DEFINE ans == Saying(To("loginForm"), "none")
    <2>1. ans \in Answers
      BY PlainAnswers DEF Screens, Gets, Flashes
    <2>2. AnswerFits(t, ans) /\ CarriesKey(t, ans)
      BY <1>1 DEF AnswerFits, CarriesKey, Saying, To, NoAnswer
    <2> HIDE DEF ans
    <2>3. AnsweredWith(t, ans) /\ kept' = kept
      BY <1>2 DEF Answered, ans
    <2> QED
      BY <1>1, <2>1, <2>2, <2>3, AnswerStep DEF DashInv, TypeOK
  <1>3. ASSUME NEW sid \in Sids, NEW n \in Nonces,
               Answered(t, [To("dashboard") EXCEPT
                              !.sets = Names,
                              !.cookies = [session |-> [sid |-> sid, age |-> 0],
                                           csrf |-> [sid |-> sid, n |-> n], flash |-> "none"]])
        PROVE  DashInv'
    <2> DEFINE cookies == [session |-> [sid |-> sid, age |-> 0],
                           csrf |-> [sid |-> sid, n |-> n], flash |-> "none"]
               ans == [To("dashboard") EXCEPT !.sets = Names, !.cookies = cookies]
    <2>1. cookies \in Cookies
      BY TtlAssumption, NoneTypes DEF Cookies, Sessions, Tokens
    <2>2. /\ ans \in Answers /\ ans.to = "dashboard" /\ ans.at = "nothing"
          /\ ans.token = NoToken
      <3>1. /\ To("dashboard") \in Answers /\ To("dashboard").to = "dashboard"
            /\ To("dashboard").at = "nothing" /\ To("dashboard").token = NoToken
        BY NoneTypes DEF To, NoAnswer, Answers, Gets
      <3> QED
        BY <2>1, <3>1 DEF Answers
    <2>3. AnsweredWith(t, ans) /\ kept' = kept
      BY <1>3 DEF Answered
    <2> HIDE DEF ans
    <2>4. AnswerFits(t, ans) /\ CarriesKey(t, ans)
      BY <1>1, <2>2 DEF AnswerFits, CarriesKey
    <2> QED
      BY <1>1, <2>2, <2>3, <2>4, AnswerStep DEF DashInv, TypeOK
  <1> QED
    BY <1>2, <1>3 DEF Login

\* A refused post is either not from the last page or has no session: what a page
\* sets is what its forms are checked against.
LEMMA RefuseStep ==
  ASSUME DashInv, NEW t \in Tabs, Refuse(t)
  PROVE  DashInv'
  <1>1. stage[t] = "sent" /\ Answered(t, Page("refused")) /\ (Sid(t) = 0 \/ ~CsrfHolds(t))
    BY DEF Refuse
  <1>2. ~call[t].current \/ call[t].cookies.session = NoSession
    <2>1. call[t].cookies.session \in Sessions
      BY DEF DashInv, TypeOK, Calls, Cookies
    <2>2. call[t].cookies.session.sid = 0 => call[t].cookies.session = NoSession
      BY <2>1, IdsAssumption DEF Sessions
    <2> QED
      BY <1>1, <2>2 DEF DashInv, SentFormsCurrent, CsrfHolds, Sid
  <1>3. Page("refused") \in Answers
    BY PlainAnswers DEF Screens, Gets, Flashes
  <1>4. AnswerFits(t, Page("refused")) /\ CarriesKey(t, Page("refused"))
    BY <1>2 DEF AnswerFits, CarriesKey, Page, NoAnswer
  <1> QED
    BY <1>1, <1>3, <1>4, AnswerStep DEF Answered, DashInv, TypeOK

\* The other answers set at most the flash, or end the session.
LEMMA OtherAnswers ==
  ASSUME DashInv, NEW t \in Tabs,
         LoginForm(t) \/ GoneGet(t) \/ LoggedOut(t) \/ LapsedPost(t) \/ Raises(t)
  PROVE  DashInv'
  <1>1. PICK ans : /\ AnsweredWith(t, ans) /\ kept' = kept
                   /\ \/ \E where \in {"dashboard", "loginForm"} :
                           ans = To(where) \/ ans = Saying(To(where), "none")
                      \/ ans = Page("failed")
                      \/ ans = Saying([Page("login") EXCEPT !.shows = ReadFlash(t)], "none")
                      \/ /\ ans = [Saying(To("loginForm"), "none") EXCEPT !.sets = Names]
                         /\ call[t].what = "logout"
    BY DEF LoginForm, GoneGet, LoggedOut, LapsedPost, Raises, Answered
  <1>2. stage[t] \in {"sent", "admitted"}
    BY DEF LoginForm, GoneGet, LoggedOut, LapsedPost, Raises
  <1>3. ReadFlash(t) \in Flashes
    BY DEF ReadFlash, DashInv, TypeOK, Calls, Cookies
  <1>4. /\ ans \in Answers
        /\ ans.token = NoToken /\ ans.at \in {"nothing", "failed", "login"} /\ ans.to # "created"
        /\ "session" \in ans.sets => call[t].what = "logout"
        /\ ans.to # "nowhere" => ans.at = "nothing"
    <2>1. /\ {"failed", "login"} \subseteq Screens /\ {"dashboard", "loginForm"} \subseteq Gets
          /\ "none" \in Flashes
      BY DEF Screens, Gets, Flashes
    <2>2. ASSUME NEW where \in {"dashboard", "loginForm"},
                 ans = To(where) \/ ans = Saying(To(where), "none")
          PROVE  /\ ans \in Answers /\ ans.token = NoToken /\ ans.at = "nothing"
                 /\ ans.to # "created" /\ "session" \notin ans.sets
      <3>1. where \in Gets
        BY <2>1, <2>2
      <3>2. CASE ans = To(where)
        <4>1. /\ To(where) \in Answers /\ To(where).to = where /\ To(where).at = "nothing"
              /\ To(where).sets = {} /\ To(where).token = NoToken
          BY <2>1, <3>1, PlainAnswers
        <4> QED
          BY <3>2, <4>1
      <3>3. CASE ans = Saying(To(where), "none")
        <4>1. /\ Saying(To(where), "none") \in Answers /\ Saying(To(where), "none").to = where
              /\ Saying(To(where), "none").at = "nothing"
              /\ Saying(To(where), "none").sets = {"flash"}
              /\ Saying(To(where), "none").token = NoToken
          BY <2>1, <3>1, PlainAnswers
        <4> QED
          BY <3>3, <4>1
      <3> QED
        BY <2>2, <3>2, <3>3
    <2>3. CASE ans = Page("failed")
      BY <2>1, <2>3, PlainAnswers
    <2>4. CASE ans = Saying([Page("login") EXCEPT !.shows = ReadFlash(t)], "none")
      <3>1. /\ ans.token = NoToken /\ ans.at = "login" /\ ans.to = "nowhere"
            /\ ans.sets = {"flash"}
        BY <2>4 DEF Saying, Page, NoAnswer
      <3> QED
        BY <1>3, <2>1, <2>4, <3>1, PlainAnswers
    <2>5. CASE ans = [Saying(To("loginForm"), "none") EXCEPT !.sets = Names] /\ call[t].what = "logout"
      <3> DEFINE said == Saying(To("loginForm"), "none")
      <3>1. /\ said \in Answers /\ said.to = "loginForm" /\ said.at = "nothing"
            /\ said.token = NoToken
        BY <2>1, PlainAnswers
      <3> HIDE DEF said
      <3>2. ans = [said EXCEPT !.sets = Names]
        BY <2>5 DEF said
      <3> QED
        BY <2>5, <3>1, <3>2 DEF Answers
    <2> QED
      BY <1>1, <2>2, <2>3, <2>4, <2>5
  <1>5. AnswerFits(t, ans) /\ CarriesKey(t, ans)
    BY <1>4 DEF AnswerFits, CarriesKey
  <1> QED
    BY <1>1, <1>2, <1>4, <1>5, AnswerStep DEF DashInv, TypeOK

(***************************************************************************)
(* The theorems                                                            *)
(***************************************************************************)

\* The requests a tab may send.
LEMMA RequestStep ==
  ASSUME DashInv, NEW t \in Tabs,
         Open(t) \/ SignIn(t) \/ \E what \in Posts : Submit(t, what)
  PROVE  DashInv'
  <1>1. NoToken \in Tokens /\ page[t].token \in Tokens
    BY NoneTypes DEF DashInv, TypeOK, Forms
  <1>2. PICK what \in {"dashboard", "login"} \union Posts, form \in Tokens :
          Send(t, what, form) /\ (what \in Posts => form = page[t].token)
    BY <1>1 DEF Open, SignIn, Submit, Posts
  <1>3. what \in Gets \union Posts \union {"login"} /\ what # "created"
    BY DEF Gets, Posts
  <1> QED
    BY <1>2, <1>3, SendStep

LEMMA AdmitStep ==
  ASSUME DashInv, NEW t \in Tabs, AdmitGet(t) \/ AdmitPost(t)
  PROVE  DashInv'
  <1>1. CASE Sid(t) # 0
    BY <1>1, AdmittedStep DEF AdmitGet, AdmitPost
  <1>2. CASE Sid(t) = 0
    <2> DEFINE ans == To("loginForm")
    <2>1. stage[t] = "sent" /\ AnsweredWith(t, ans) /\ kept' = kept
      BY <1>2 DEF AdmitGet, AdmitPost, Answered
    <2>2. ans \in Answers /\ AnswerFits(t, ans) /\ CarriesKey(t, ans)
      BY NoneTypes DEF To, NoAnswer, Answers, Gets, AnswerFits, CarriesKey
    <2> HIDE DEF ans
    <2> QED
      BY <2>1, <2>2, AnswerStep DEF DashInv, TypeOK
  <1> QED
    BY <1>1, <1>2

LEMMA DashInvStep == DashInv /\ [Next]_vars => DashInv'
  <1> SUFFICES ASSUME DashInv, [Next]_vars
               PROVE  DashInv'
    OBVIOUS
  <1>1. CASE UNCHANGED vars
    BY <1>1 DEF vars, DashInv, TypeOK, FormsCurrent, SentFormsCurrent, HandlersSigned, AnswersFit,
                AnswerFits, CarriesKey, KeyUnderWay, OneAnswer
  <1>2. ASSUME NEW t \in Tabs,
               Open(t) \/ SignIn(t) \/ (\E what \in Posts : Submit(t, what)) \/ Abandon(t)
        PROVE  DashInv'
    BY <1>2, RequestStep, AbandonStep
  <1>3. ASSUME NEW t \in Tabs, Render(t) \/ Redirect(t) \/ Follow(t)
        PROVE  DashInv'
    BY <1>3, RenderStep, RedirectStep, FollowStep
  <1>4. ASSUME NEW t \in Tabs,
               AdmitGet(t) \/ LoginForm(t) \/ Login(t) \/ AdmitPost(t) \/ Refuse(t)
        PROVE  DashInv'
    BY <1>4, AdmitStep, OtherAnswers, LoginStep, RefuseStep
  <1>5. ASSUME NEW t \in Tabs, ShowPage(t) \/ GoneGet(t) \/ LoggedOut(t) \/ LapsedPost(t)
                               \/ Health(t) \/ Changed(t) \/ Created(t) \/ Raises(t)
        PROVE  DashInv'
    BY <1>5, ShowPageStep, OtherAnswers, HealthStep, RotatedStep
  <1> QED
    BY <1>1, <1>2, <1>3, <1>4, <1>5, TickStep DEF Next

LEMMA DashInvInit == Init => DashInv
  <1> SUFFICES ASSUME Init
               PROVE  DashInv
    OBVIOUS
  <1>1. TypeOK
    BY NoneTypes DEF Init, TypeOK, Stages
  <1>2. FormsCurrent /\ SentFormsCurrent /\ HandlersSigned /\ AnswersFit /\ KeyUnderWay /\ OneAnswer
    BY DEF Init, FormsCurrent, SentFormsCurrent, HandlersSigned, AnswersFit, KeyUnderWay, OneAnswer
  <1> QED
    BY <1>1, <1>2 DEF DashInv

\* What is on the way between the browser and the server agrees: the form, the
\* cookie and the session of a page, the renewed session and the one it renews,
\* the raw key and the tab it is for.
THEOREM DashInvariant == Spec => []DashInv
  <1>1. Init => DashInv
    BY DashInvInit
  <1>2. DashInv /\ [Next]_vars => DashInv'
    BY DashInvStep
  <1> QED
    BY <1>1, <1>2, PTL DEF Spec

\* The types of cookies, forms, requests and answers.
THEOREM DashTypes == Spec => []TypeOK
  <1>1. DashInv => TypeOK
    BY DEF DashInv
  <1> QED
    BY <1>1, DashInvariant, PTL

\* The form of the page that set the last cookies is not refused while the session
\* lasts, with any number of tabs and of answers that never arrive.
THEOREM LastFormAccepted == Spec => []FreshFormAccepted
  <1>1. DashInv => FreshFormAccepted
    BY DEF DashInv, AnswersFit, AnswerFits, FreshFormAccepted
  <1> QED
    BY <1>1, DashInvariant, PTL

\* The page after a creation shows the raw key of this tab's creation.
THEOREM CreatedKeyShown == Spec => []NewKeyShown
  <1>1. DashInv => NewKeyShown
    BY DEF DashInv, AnswersFit, CarriesKey, NewKeyShown
  <1> QED
    BY <1>1, DashInvariant, PTL

LEMMA SignedOutStep ==
  ASSUME DashInv, [Next]_vars, jar.session # NoSession, jar'.session = NoSession
  PROVE  \/ jar.session.age = Ttl /\ stage' = stage
         \/ \E t \in Tabs :
              /\ stage[t] = "answered" /\ stage'[t] # "answered"
              /\ \/ call[t].what \in {"logout", "login"}
                 \/ call[t].sid # 0 /\ call[t].cookies.session = NoSession
  <1>1. ASSUME NEW t \in Tabs, Render(t) \/ Redirect(t)
        PROVE  /\ stage[t] = "answered" /\ stage'[t] # "answered"
               /\ \/ call[t].what \in {"logout", "login"}
                  \/ call[t].sid # 0 /\ call[t].cookies.session = NoSession
    <2>1. SetCookies(t) /\ stage[t] = "answered" /\ stage'[t] \in {"idle", "redirected"}
      BY <1>1 DEF Render, Redirect, DashInv, TypeOK
    <2>2. "session" \in answer[t].sets /\ answer[t].cookies.session = NoSession
      BY <2>1, SetCookiesType
    <2> QED
      BY <2>1, <2>2 DEF DashInv, AnswersFit, AnswerFits
  <1>2. CASE Tick
    <2>1. jar \in Cookies /\ jar'.session = Older(jar.session) /\ stage' = stage
      BY <1>2, AgedType DEF Tick, DashInv, TypeOK
    <2>2. jar.session \in Sessions
      BY <2>1 DEF Cookies
    <2> QED
      BY <2>1, <2>2, TtlAssumption DEF Older, Sessions, NoSession
  <1>3. CASE UNCHANGED jar
    BY <1>3
  <1>4. UNCHANGED jar \/ Tick \/ \E t \in Tabs : Render(t) \/ Redirect(t)
    <2>1. \A t \in Tabs : \A ans : AnsweredWith(t, ans) \/ Answered(t, ans) => UNCHANGED jar
      BY DEF AnsweredWith, Answered
    <2>2. ASSUME NEW t \in Tabs,
                 Open(t) \/ SignIn(t) \/ (\E what \in Posts : Submit(t, what)) \/ Abandon(t) \/ Follow(t)
          PROVE  UNCHANGED jar
      BY <2>2 DEF Open, SignIn, Submit, Send, Abandon, Follow
    <2>3. ASSUME NEW t \in Tabs,
                 AdmitGet(t) \/ LoginForm(t) \/ Login(t) \/ AdmitPost(t) \/ Refuse(t)
          PROVE  UNCHANGED jar
      BY <2>1, <2>3 DEF AdmitGet, LoginForm, Login, AdmitPost, Refuse, Admitted
    <2>4. ASSUME NEW t \in Tabs, ShowPage(t) \/ GoneGet(t) \/ LoggedOut(t) \/ LapsedPost(t)
                                 \/ Health(t) \/ Changed(t) \/ Created(t) \/ Raises(t)
          PROVE  UNCHANGED jar
      BY <2>1, <2>4 DEF ShowPage, GoneGet, LoggedOut, LapsedPost, Health, Changed, Created, Raises
    <2> QED
      BY <2>2, <2>3, <2>4 DEF Next, vars
  <1> QED
    BY <1>1, <1>2, <1>3, <1>4

\* A live session ends only by a logout, a login, or by lapsing, be it in the
\* browser or while a request of its own is handled.
THEOREM SessionsEndOnlyBy == Spec => SignedOutOnlyBy
  <1>1. DashInv /\ [Next]_vars =>
          [jar.session # NoSession /\ jar'.session = NoSession =>
             \/ jar.session.age = Ttl /\ stage' = stage
             \/ \E t \in Tabs :
                  /\ stage[t] = "answered" /\ stage'[t] # "answered"
                  /\ \/ call[t].what \in {"logout", "login"}
                     \/ call[t].sid # 0 /\ call[t].cookies.session = NoSession]_vars
    BY SignedOutStep
  <1> QED
    BY <1>1, DashInvariant, PTL DEF Spec, SignedOutOnlyBy
=============================================================================
