------------------------- MODULE TokenWindows_proofs -------------------------
(***************************************************************************)
(* The token windows for any keys and any lengths.  When windows start and *)
(* end is proved for any number of concurrent requests and probes; that    *)
(* the counters are exact, for one request at a time: it is not true of    *)
(* two.                                                                    *)
(***************************************************************************)
EXTENDS TokenWindows, Rotation_proofs

Window  == [used : [Tokens -> Nat], started : Times \union {Never}]
Windows == [Kinds -> Window]

TokTypeOK ==
  /\ now \in Times
  /\ tokens \in [KeyIds -> Windows]
  /\ seen \in [Callers -> [KeyIds -> Windows]]
  /\ own \in [Callers -> Windows]
  /\ reports \in [KeyIds -> [Tokens -> [Times -> Nat]]]

TokInv == RotInv /\ TokTypeOK

\* Counting the tokens of requests changes nothing about rotation.
LEMMA RotationStep == [TokenNext]_<<vars, tokVars>> => [Next]_vars
  <1>1. ASSUME NEW c \in Callers,
               Look(c) \/ Take(c) \/ Reread(c) \/ SucceededWithUsage(c) \/ SucceededPlainly(c)
        PROVE  Next
    BY <1>1 DEF Look, Take, Reread, SucceededWithUsage, SucceededPlainly, Next, Step
  <1>2. ASSUME NEW c \in Callers, Elsewhere(c)
        PROVE  Next
    BY <1>2 DEF Elsewhere, Next, Step
  <1>3. CASE AroundTokens
    BY <1>3 DEF AroundTokens, Next
  <1>4. CASE Tick \/ UNCHANGED <<vars, tokVars>>
    BY <1>4 DEF Tick
  <1> QED
    BY <1>1, <1>2, <1>3, <1>4 DEF TokenNext

\* The token counters are an addition to Rotation.
THEOREM WindowsImplementRotation == TokenSpec => Spec
  <1>1. TokenInit => Init
    BY DEF TokenInit
  <1> QED
    BY <1>1, RotationStep, PTL DEF TokenSpec, Spec

LEMMA NoTokensType == NoTokens \in Windows /\ NothingSeen \in [KeyIds -> Windows]
  BY WindowsAssumption DEF NoTokens, NothingSeen, Windows, Window, Unused, Never

LEMMA LengthType == \A kind \in Kinds : Length[kind] \in Nat \ {0}
  BY WindowsAssumption DEF Length, Kinds

\* A counted window is a window, and the present is in it.
LEMMA CountType ==
  ASSUME now \in Times, NEW window \in Window, NEW length \in Nat \ {0},
         NEW block \in [Tokens -> Nat]
  PROVE  /\ Count(window, length, block) \in Window
         /\ now - Count(window, length, block).started < length
  <1>1. now \in Nat /\ MaxTime \in Nat /\ now <= MaxTime
    BY WindowsAssumption DEF Times
  <1>2. CASE IsOver(window, length)
    <2>1. Count(window, length, block) = [used |-> block, started |-> now]
      BY <1>2 DEF Count
    <2> QED
      BY <1>1, <2>1 DEF Window
  <1>3. CASE ~IsOver(window, length)
    <2>1. Plus(window.used, block) \in [Tokens -> Nat]
      BY DEF Plus, Window
    <2>2. /\ Count(window, length, block).used = Plus(window.used, block)
          /\ Count(window, length, block).started = window.started
          /\ Count(window, length, block) \in Window
      BY <1>3, <2>1 DEF Count, Window
    <2> QED
      BY <1>1, <1>3, <2>2 DEF IsOver, Window, Times, Never
  <1> QED
    BY <1>2, <1>3

LEMMA TokenInitInv == TokenInit => TokInv
  BY RotInitInv, NoTokensType, WindowsAssumption DEF TokenInit, TokInv, TokTypeOK, Times, NoReports

\* Who uses a key has an object for it.
LEMMA HeldInUse ==
  ASSUME RotInv, NEW c \in Callers, phase[c] \in Reserving
  PROVE  held[c].id \in KeyIds
  BY DEF RotInv, KMInv, KMTypeOK, Copy

LEMMA HeldWhenTaken ==
  ASSUME RotInv, NEW c \in Callers, GotKey(c)
  PROVE  held'[c].id \in KeyIds
  <1>1. RotInv'
    BY RotInvStep DEF Next, Step
  <1>2. phase'[c] \in Reserving
    BY DEF GotKey, Reserve, RotInv, KMInv, KMTypeOK, Reserving
  <1> QED
    BY <1>1, <1>2 DEF RotInv, KMInv, KMTypeOK, Copy

\* What a report of tokens does to a row: both windows are such as Count makes
\* them, from whatever copy.
LEMMA UsageStep ==
  ASSUME TokInv, NEW c \in Callers, SucceededWithUsage(c)
  PROVE  /\ TokTypeOK'
         /\ \A k \in KeyIds, kind \in Kinds :
              reports'[k] # reports[k] => now - tokens'[k][kind].started < Length[kind]
  <1> USE DEF TokInv, TokTypeOK
  <1> DEFINE k == held[c].id
             counted(b) == [kind \in Kinds |-> Count(own[c][kind], Length[kind], b)]
             after(b) == [t \in Tokens |-> [at \in Times |->
                            IF at <= now THEN reports[k][t][at] + b[t] ELSE reports[k][t][at]]]
  <1>1. k \in KeyIds
    BY HeldInUse DEF SucceededWithUsage, Succeeded, Record, RecordUsage, Reserving
  <1>2. UNCHANGED <<now, seen>>
    BY DEF SucceededWithUsage
  <1>3. CASE UNCHANGED <<tokens, own, reports>>
    BY <1>2, <1>3
  <1>4. ASSUME NEW block \in [Tokens -> 0..1], CountTokens(c, block)
        PROVE  /\ TokTypeOK'
               /\ \A j \in KeyIds, kind \in Kinds :
                    reports'[j] # reports[j] => now - tokens'[j][kind].started < Length[kind]
    <2>0. block \in [Tokens -> Nat]
      OBVIOUS
    <2>1. \A kind \in Kinds : /\ own[c][kind] \in Window /\ Length[kind] \in Nat \ {0}
      BY LengthType DEF Windows
    <2>2. \A kind \in Kinds : /\ counted(block)[kind] \in Window
                              /\ now - counted(block)[kind].started < Length[kind]
      BY <2>0, <2>1, CountType
    <2>3. counted(block) \in Windows
      BY <2>2 DEF Windows
    <2>4. /\ own' = [own EXCEPT ![c] = counted(block)] /\ tokens' = [tokens EXCEPT ![k] = counted(block)]
          /\ reports' = [reports EXCEPT ![k] = after(block)]
      BY <1>4 DEF CountTokens
    <2>5. after(block) \in [Tokens -> [Times -> Nat]]
      BY <1>1, <2>0
    <2> HIDE DEF counted, after
    <2> QED
      BY <1>1, <1>2, <2>2, <2>3, <2>4, <2>5
  <1>5. ASSUME NEW block \in [Tokens -> 0..1], CountNothing(c, block)
        PROVE  TokTypeOK' /\ reports' = reports
    <2> DEFINE kept == [kind \in Kinds |-> [tokens[k][kind] EXCEPT !.used = own[c][kind].used]]
    <2>1. \A kind \in Kinds : tokens[k][kind] \in Window /\ own[c][kind] \in Window
      BY <1>1 DEF Windows
    <2>2. kept \in Windows
      BY <2>1 DEF Windows, Window
    <2>3. tokens' = [tokens EXCEPT ![k] = kept] /\ UNCHANGED <<own, reports>>
      BY <1>1, <1>5 DEF CountNothing
    <2> HIDE DEF kept
    <2> QED
      BY <1>1, <1>2, <2>2, <2>3
  <1> QED
    BY <1>3, <1>4, <1>5 DEF SucceededWithUsage

\* A row under an id that is used again starts like the ones before it.
LEMMA AroundStep ==
  ASSUME TokInv, AroundTokens
  PROVE  /\ TokTypeOK'
         /\ \A k \in KeyIds, kind \in Kinds :
              reports'[k] # reports[k] => now - tokens'[k][kind].started < Length[kind]
  <1> USE DEF TokInv, TokTypeOK
  <1>1. \A k \in KeyIds :
          \/ tokens'[k] = NoTokens /\ reports'[k] = NoReports
          \/ tokens'[k] = tokens[k] /\ reports'[k] = reports[k]
    BY DEF AroundTokens
  <1>2. TokTypeOK'
    BY <1>1, NoTokensType DEF AroundTokens, NoReports
  <1>3. \A kind \in Kinds : now - NoTokens[kind].started < Length[kind]
    BY LengthType, WindowsAssumption DEF NoTokens, Unused, Never, Times
  <1> QED
    BY <1>1, <1>2, <1>3

\* Every other step leaves the stored counters and their history alone.
LEMMA OtherStep ==
  ASSUME TokInv, UNCHANGED <<vars, tokVars>> \/ Tick
                 \/ \E c \in Callers : Look(c) \/ Take(c) \/ Reread(c)
                                       \/ SucceededPlainly(c) \/ Elsewhere(c)
  PROVE  TokTypeOK' /\ UNCHANGED <<tokens, reports>>
  <1> USE DEF TokInv, TokTypeOK
  <1>1. CASE UNCHANGED <<vars, tokVars>>
    BY <1>1 DEF tokVars
  <1>2. CASE Tick
    BY <1>2, WindowsAssumption DEF Tick, Times
  <1>3. ASSUME NEW c \in Callers, Look(c)
        PROVE  TokTypeOK' /\ UNCHANGED <<tokens, reports>>
    BY <1>3 DEF Look
  <1>4. ASSUME NEW c \in Callers, Take(c)
        PROVE  TokTypeOK' /\ UNCHANGED <<tokens, reports>>
    <2>1. held'[c].id \in KeyIds
      BY <1>4, HeldWhenTaken DEF Take
    <2> QED
      BY <1>4, <2>1, NoTokensType DEF Take
  <1>5. ASSUME NEW c \in Callers, Reread(c)
        PROVE  TokTypeOK' /\ UNCHANGED <<tokens, reports>>
    <2>1. held[c].id \in KeyIds
      BY <1>5, HeldInUse DEF Reread, Refreshed, Refresh, Reserving
    <2> QED
      BY <1>5, <2>1 DEF Reread
  <1>6. ASSUME NEW c \in Callers, SucceededPlainly(c) \/ Elsewhere(c)
        PROVE  TokTypeOK' /\ UNCHANGED <<tokens, reports>>
    BY <1>6 DEF SucceededPlainly, Elsewhere, tokVars
  <1> QED
    BY <1>1, <1>2, <1>3, <1>4, <1>5, <1>6

LEMMA TokInvStep ==
  ASSUME TokInv, [TokenNext]_<<vars, tokVars>>
  PROVE  /\ TokInv'
         /\ \A k \in KeyIds, kind \in Kinds :
              reports'[k] # reports[k] => now - tokens'[k][kind].started < Length[kind]
  <1>1. RotInv'
    BY RotationStep, RotInvStep DEF TokInv
  <1>2. CASE \E c \in Callers : SucceededWithUsage(c)
    BY <1>1, <1>2, UsageStep DEF TokInv
  <1>3. CASE AroundTokens
    BY <1>1, <1>3, AroundStep DEF TokInv
  <1>4. CASE UNCHANGED <<vars, tokVars>> \/ Tick
             \/ \E c \in Callers : Look(c) \/ Take(c) \/ Reread(c)
                                   \/ SucceededPlainly(c) \/ Elsewhere(c)
    BY <1>1, <1>4, OtherStep DEF TokInv
  <1> QED
    BY <1>2, <1>3, <1>4 DEF TokenNext

\* Tokens are never counted in a window that is over, also when the copy they
\* are added to is older than other requests' records of the same key.
THEOREM WindowsAreCurrent == TokenSpec => WindowsEnd
  <1>1. TokInv /\ [TokenNext]_<<vars, tokVars>> => TokInv'
    BY TokInvStep
  <1>2. TokInv /\ [TokenNext]_<<vars, tokVars>> =>
          [\A k \in KeyIds, kind \in Kinds :
             reports'[k] # reports[k] => now - tokens'[k][kind].started < Length[kind]]_<<vars, tokVars>>
    BY TokInvStep
  <1> QED
    BY <1>1, <1>2, TokenInitInv, PTL DEF TokenSpec, WindowsEnd

(***************************************************************************)
(* For one request at a time the counters are exact                        *)
(***************************************************************************)

\* A window has started in the past, and one that is over has no report in the
\* present: the first report of tokens starts a new window.
WindowsInPast ==
  \A k \in KeyIds, kind \in Kinds :
    /\ tokens[k][kind].started \in (0..now) \union {Never}
    /\ IsOver(tokens[k][kind], Length[kind]) => \A t \in Tokens : reports[k][t][now] = 0

\* Nothing has been reported in the future.
NoneLater ==
  \A k \in KeyIds, t \in Tokens : \A at \in Times : at > now => reports[k][t][at] = 0

\* The columns a request has loaded, with its list or with its object, are those
\* stored.
CopiesAreStored ==
  \A c \in Callers : /\ held[c] # NoCopy => own[c] = tokens[held[c].id]
                     /\ phase[c] = "scan" => seen[c] = tokens

ExactInv == TokInv /\ CountersExact /\ WindowsInPast /\ NoneLater /\ CopiesAreStored

\* What was reported since each time, once a block is reported now.
Added(before, block) ==
  [t \in Tokens |-> [at \in Times |->
     IF at <= now THEN before[t][at] + block[t] ELSE before[t][at]]]

\* A running window whose counters are what was reported since it started.
Agrees(window, length, reported) ==
  /\ window.started \in 0..now
  /\ \A t \in Tokens : window.used[t] = reported[t][window.started]
  /\ window.started # Never
  /\ ~IsOver(window, length)

\* Counting adds what was reported to a window that goes on, and starts one that
\* is over with it.
LEMMA CountExact ==
  ASSUME now \in Times, NEW window \in Window, NEW length \in Nat \ {0},
         NEW block \in [Tokens -> Nat], NEW before \in [Tokens -> [Times -> Nat]],
         window.started \in (0..now) \union {Never},
         \A t \in Tokens :
           window.used[t] = IF window.started = Never THEN 0 ELSE before[t][window.started],
         IsOver(window, length) => \A t \in Tokens : before[t][now] = 0
  PROVE  Agrees(Count(window, length, block), length, Added(before, block))
  <1> DEFINE after == Added(before, block)
             counted == Count(window, length, block)
  <1>1. now \in Nat /\ MaxTime \in Nat /\ now <= MaxTime
    BY WindowsAssumption DEF Times
  <1>2. \A t \in Tokens, at \in 0..now : after[t][at] = before[t][at] + block[t]
    BY <1>1 DEF Times, Added
  <1>3. CASE IsOver(window, length)
    <2>1. counted.used = block /\ counted.started = now
      BY <1>3 DEF Count
    <2>2. ~IsOver(counted, length)
      BY <1>1, <2>1 DEF IsOver, Never
    <2>3. \A t \in Tokens : before[t][now] = 0 /\ block[t] \in Nat /\ now \in 0..now
      BY <1>1, <1>3
    <2> HIDE DEF counted, after
    <2>4. \A t \in Tokens : counted.used[t] = after[t][counted.started]
      BY <1>2, <2>1, <2>3
    <2> QED
      BY <1>1, <2>1, <2>2, <2>4 DEF Agrees, counted, after, Never
  <1>4. CASE ~IsOver(window, length)
    <2>1. /\ window.started # Never /\ window.started \in 0..now
          /\ now - window.started < length
      BY <1>1, <1>4 DEF IsOver
    <2>2. counted.started = window.started /\ counted.used = Plus(window.used, block)
      BY <1>4 DEF Count, Window
    <2>3. ~IsOver(counted, length)
      BY <1>1, <2>1, <2>2 DEF IsOver
    <2>4. \A t \in Tokens : counted.used[t] = before[t][window.started] + block[t]
      BY <2>1, <2>2 DEF Plus
    <2> HIDE DEF counted, after
    <2>5. \A t \in Tokens : counted.used[t] = after[t][counted.started]
      BY <1>2, <2>1, <2>2, <2>4
    <2> QED
      BY <1>1, <2>1, <2>2, <2>3, <2>5 DEF Agrees, counted, after
  <1> QED
    BY <1>3, <1>4

\* A step that leaves the stored columns, the clock and the history alone, and
\* takes no list and no object that was not there before.
LEMMA ExactStays ==
  ASSUME ExactInv, TokInv', UNCHANGED <<now, tokens, seen, own, reports>>,
         \A c \in Callers : /\ held'[c] \in {held[c], NoCopy}
                            /\ phase'[c] = "scan" => phase[c] = "scan"
  PROVE  ExactInv'
  <1>1. CopiesAreStored'
    BY DEF ExactInv, CopiesAreStored
  <1> QED
    BY <1>1 DEF ExactInv, CountersExact, Reported, WindowsInPast, NoneLater, IsOver

\* What the steps that count nothing do to the objects and the lists.
LEMMA ElsewhereCopies ==
  ASSUME TokInv, NEW c \in Callers, Elsewhere(c) \/ SucceededPlainly(c), NEW d \in Callers
  PROVE  /\ held'[d] \in {held[d], NoCopy}
         /\ phase'[d] = "scan" => phase[d] = "scan"
  <1> USE DEF TokInv, RotInv, KMInv, KMTypeOK
  <1>1. CASE StartChat(c) \/ StartRaises(c) \/ StartList(c) \/ NextAttempt(c) \/ Finish(c)
    BY <1>1 DEF StartChat, StartRaises, StartList, NextAttempt, Finish, PickBegin,
                CloseSession, kmVars
  <1>2. CASE GotNone(c) \/ GotNoneToList(c) \/ PickFailed(c)
    BY <1>2 DEF GotNone, GotNoneToList, PickFailed, PickNothing, PickRaises
  <1>3. CASE WaitOver(c)
    BY <1>3 DEF WaitOver, kmVars
  <1>4. CASE Refused(c) \/ Unusable(c) \/ PassedThrough(c) \/ SucceededPlainly(c)
    BY <1>4 DEF Refused, Unusable, PassedThrough, SucceededPlainly, Succeeded, Record,
                RecordUsage, NoRecord
  <1>5. CASE Released(c) \/ CallFailed(c)
    BY <1>5 DEF Released, CallFailed, Release, RecordRaises, RecordFails
  <1> QED
    BY <1>1, <1>2, <1>3, <1>4, <1>5 DEF Elsewhere

\* The list and the object a request takes are what is stored.
LEMMA TakingExact ==
  ASSUME ExactInv, TokInv', \A c, d \in Callers : c = d, NEW c \in Callers,
         Look(c) \/ Take(c) \/ Reread(c)
  PROVE  ExactInv'
  <1> USE DEF TokInv, TokTypeOK, RotInv, KMInv, KMTypeOK
  <1>0. TokInv
    BY DEF ExactInv
  <1>1. UNCHANGED <<now, tokens, reports>>
    BY DEF Look, Take, Reread
  <1>2. CopiesAreStored'
    <2>1. CASE Look(c)
      <3>1. held' = held /\ own' = own
        BY <2>1 DEF Look, Picking, Load, Reactivate, Reload
      <3>2. phase'[c] = "scan" => seen'[c] = tokens
        BY <1>0, <2>1 DEF Look, Picking, Load, Reactivate, Reload
      <3> QED
        BY <1>1, <3>1, <3>2 DEF ExactInv, CopiesAreStored
    <2>2. CASE Take(c)
      <3>1. PICK k \in DOMAIN snap[c] : held'[c] = Loaded(c, k)
        BY <1>0, <2>2 DEF Take, GotKey, Reserve
      <3>2. phase[c] = "scan" /\ phase'[c] = "using" /\ k \in KeyIds
        BY <1>0, <2>2 DEF Take, GotKey, Reserve
      <3>3. CASE held[c].id = k
        <4>1. held'[c] = held[c] /\ own' = own /\ held[c] # NoCopy
          BY <2>2, <3>1, <3>2, <3>3, MaxIdAssumption DEF Take, Loaded, KeyIds, NoCopy
        <4> QED
          BY <1>1, <3>2, <4>1 DEF ExactInv, CopiesAreStored
      <3>4. CASE held[c].id # k
        <4>1. held'[c].id = k
          BY <3>1, <3>4 DEF Loaded
        <4>2. own'[c] = seen[c][k]
          BY <1>0, <2>2, <3>4, <4>1 DEF Take
        <4>3. seen[c] = tokens
          BY <3>2 DEF ExactInv, CopiesAreStored
        <4> QED
          BY <1>1, <3>2, <4>1, <4>2, <4>3 DEF CopiesAreStored
      <3> QED
        BY <3>3, <3>4
    <2>3. CASE Reread(c)
      <3>1. held[c] \in Copy
        BY <1>0, <2>3 DEF Reread, Refreshed, Refresh, Reserving
      <3>2. held'[c].id = held[c].id /\ phase'[c] = "recorded"
        BY <1>0, <2>3, <3>1 DEF Reread, Refreshed, Refresh, Copy
      <3>3. own'[c] = tokens[held[c].id]
        BY <1>0, <2>3 DEF Reread
      <3> QED
        BY <1>1, <3>2, <3>3 DEF CopiesAreStored
    <2> QED
      BY <2>1, <2>2, <2>3
  <1> QED
    BY <1>1, <1>2 DEF ExactInv, CountersExact, Reported, WindowsInPast, NoneLater, IsOver

\* The copy a request counts in is what is stored, so nothing is lost.
LEMMA UsageExact ==
  ASSUME ExactInv, TokInv', \A c, d \in Callers : c = d, NEW c \in Callers,
         SucceededWithUsage(c)
  PROVE  ExactInv'
  <1> DEFINE k == held[c].id
  <1>0. TokTypeOK /\ RotInv /\ KMTypeOK
    BY DEF ExactInv, TokInv, RotInv, KMInv
  <1>1. phase[c] = "using" /\ phase'[c] = "recorded" /\ k \in KeyIds
    <2>1. phase[c] = "using"
      BY DEF SucceededWithUsage, Succeeded, Record, RecordUsage
    <2> QED
      BY <1>0, <2>1, HeldInUse DEF SucceededWithUsage, Reserving
  <1>2. held' = held /\ now' = now /\ held[c] # NoCopy
    BY <1>0, <1>1 DEF SucceededWithUsage, Succeeded, Record, RecordUsage, KMTypeOK, Reserving
  <1>3. own[c] = tokens[k]
    BY <1>2 DEF ExactInv, CopiesAreStored
  <1>4. CASE UNCHANGED <<tokens, own, reports>>
    <2>1. \A d \in Callers : held'[d] = held[d] /\ phase'[d] # "scan"
      BY <1>1, <1>2
    <2> QED
      BY <1>2, <1>4, <2>1, ExactStays DEF SucceededWithUsage
  <1>5. ASSUME NEW block \in [Tokens -> 0..1], CountNothing(c, block)
        PROVE  ExactInv'
    <2> DEFINE kept == [kind \in Kinds |-> [tokens[k][kind] EXCEPT !.used = own[c][kind].used]]
    <2>1. ASSUME NEW kind \in Kinds
          PROVE  kept[kind] = tokens[k][kind]
      <3>1. tokens[k][kind] \in Window
        BY <1>0, <1>1 DEF TokTypeOK, Windows
      <3>2. kept[kind] = [tokens[k][kind] EXCEPT !.used = tokens[k][kind].used]
        BY <1>3
      <3> HIDE DEF kept
      <3> QED
        BY <3>1, <3>2 DEF Window
    <2>2. kept = tokens[k]
      BY <1>0, <1>1, <2>1 DEF TokTypeOK, Windows
    <2>3. tokens' = [tokens EXCEPT ![k] = kept] /\ UNCHANGED <<own, reports>>
      BY <1>0, <1>1, <1>5 DEF CountNothing, TokTypeOK
    <2> HIDE DEF kept
    <2>4. tokens' = tokens
      BY <1>0, <2>2, <2>3 DEF TokTypeOK
    <2> QED
      BY <1>4, <2>3, <2>4
  <1>6. ASSUME NEW block \in [Tokens -> 0..1], CountTokens(c, block)
        PROVE  ExactInv'
    <2> DEFINE counted == [kind \in Kinds |-> Count(own[c][kind], Length[kind], block)]
               after == [t \in Tokens |-> [at \in Times |->
                          IF at <= now THEN reports[k][t][at] + block[t] ELSE reports[k][t][at]]]
    <2>0. block \in [Tokens -> Nat]
      OBVIOUS
    <2>1. /\ tokens' = [tokens EXCEPT ![k] = counted] /\ own' = [own EXCEPT ![c] = counted]
          /\ reports' = [reports EXCEPT ![k] = after]
      BY <1>6 DEF CountTokens
    <2>2. ASSUME NEW kind \in Kinds
          PROVE  /\ counted[kind].started \in 0..now
                 /\ \A t \in Tokens : counted[kind].used[t] = after[t][counted[kind].started]
                 /\ counted[kind].started # Never
                 /\ ~IsOver(counted[kind], Length[kind])
      <3> DEFINE window == tokens[k][kind]
      <3>1. window \in Window /\ reports[k] \in [Tokens -> [Times -> Nat]] /\ now \in Times
        BY <1>0, <1>1 DEF TokTypeOK, Windows
      <3>2. /\ window.started \in (0..now) \union {Never}
            /\ \A t \in Tokens : window.used[t] =
                 IF window.started = Never THEN 0 ELSE reports[k][t][window.started]
            /\ IsOver(window, Length[kind]) => \A t \in Tokens : reports[k][t][now] = 0
        BY <1>1 DEF ExactInv, WindowsInPast, CountersExact, Reported
      <3>3. counted[kind] = Count(window, Length[kind], block)
        BY <1>3
      <3> DEFINE length == Length[kind]
                 before == reports[k]
      <3>4. length \in Nat \ {0}
        BY LengthType
      <3>5. Added(before, block) = after
        BY DEF Added
      <3> HIDE DEF window, length, before, counted, after
      <3>6. /\ window.started \in (0..now) \union {Never}
            /\ \A t \in Tokens : window.used[t] =
                 IF window.started = Never THEN 0 ELSE before[t][window.started]
            /\ IsOver(window, length) => \A t \in Tokens : before[t][now] = 0
        BY <3>2 DEF before, length
      <3>7. before \in [Tokens -> [Times -> Nat]] /\ window \in Window /\ now \in Times
        BY <3>1 DEF before
      <3>8. Agrees(Count(window, length, block), length, Added(before, block))
        BY ONLY <2>0, <3>4, <3>6, <3>7, CountExact
      <3> QED
        BY <3>3, <3>5, <3>8 DEF Agrees, length
    <2> HIDE DEF counted, after
    <2>3. \A j \in KeyIds : /\ tokens'[j] = IF j = k THEN counted ELSE tokens[j]
                            /\ reports'[j] = IF j = k THEN after ELSE reports[j]
      BY <1>0, <2>1 DEF TokTypeOK
    <2>4. CountersExact'
      BY <1>1, <2>2, <2>3 DEF ExactInv, CountersExact, Reported
    <2>5. WindowsInPast'
      BY <1>1, <1>2, <2>2, <2>3 DEF ExactInv, WindowsInPast, IsOver
    <2>6. \A t \in Tokens : \A at \in Times : at > now => after[t][at] = reports[k][t][at]
      BY <1>0 DEF after, TokTypeOK, Times
    <2>7. NoneLater'
      BY <1>1, <1>2, <2>3, <2>6 DEF ExactInv, NoneLater
    <2>8. CopiesAreStored'
      BY <1>0, <1>1, <1>2, <2>1, <2>3 DEF CopiesAreStored, TokTypeOK
    <2> QED
      BY <2>4, <2>5, <2>7, <2>8 DEF ExactInv
  <1> QED
    BY <1>4, <1>5, <1>6 DEF SucceededWithUsage

\* Without a new row under an old id nothing else changes the counters, and
\* time passing makes the present a time without reports.
LEMMA AroundExact ==
  ASSUME ExactInv, TokInv', "create" \notin AdminOps, AroundTokens \/ Tick
  PROVE  ExactInv'
  <1>0. TokTypeOK /\ KMInv
    BY DEF ExactInv, TokInv, RotInv
  <1>1. CASE AroundTokens
    <2>1. KMNext
      BY <1>1 DEF AroundTokens, Others, KMNext
    <2>2. \A k \in KeyIds : ~(rows[k] = NoRow /\ rows'[k] # NoRow)
      BY <1>0, <2>1, AppearStep
    <2>3. \A k \in KeyIds : tokens'[k] = tokens[k] /\ reports'[k] = reports[k]
      BY <1>1, <2>2 DEF AroundTokens
    <2>4. UNCHANGED <<now, tokens, reports, seen, own>>
      BY <1>0, <1>1, <2>3 DEF AroundTokens, TokTypeOK, TokInv
    <2>5. UNCHANGED <<phase, held>>
      BY <1>1 DEF AroundTokens, Others, Environment, ProbeStep, ProbeBegin, ProbeEnd
    <2> QED
      BY <2>4, <2>5, ExactStays
  <1>2. CASE Tick
    <2>1. /\ now' = now + 1 /\ now' \in Times /\ now \in Times /\ now' > now
          /\ UNCHANGED <<tokens, seen, own, reports, held, phase>>
      BY <1>0, <1>2, WindowsAssumption DEF Tick, TokTypeOK, Times, vars, kmVars
    <2>2. CopiesAreStored' /\ CountersExact'
      BY <2>1 DEF ExactInv, CopiesAreStored, CountersExact, Reported
    <2>3. NoneLater'
      <3>1. \A at \in Times : at > now' => at > now
        BY <2>1 DEF Times
      <3> QED
        BY <2>1, <3>1 DEF ExactInv, NoneLater
    <2>4. WindowsInPast'
      <3>1. \A k \in KeyIds, t \in Tokens : reports[k][t][now'] = 0
        BY <2>1 DEF ExactInv, NoneLater
      <3>2. 0..now \subseteq 0..now'
        BY <2>1 DEF Times
      <3> QED
        BY <2>1, <3>1, <3>2 DEF ExactInv, WindowsInPast
    <2> QED
      BY <2>2, <2>3, <2>4 DEF ExactInv
  <1> QED
    BY <1>1, <1>2

\* For one request at a time no report of tokens is lost or counted twice, beside
\* any probes, edits, resets and deletions and with statements that may fail: each
\* counter is the sum of what the answers with prompt tokens reported since its
\* window started. It takes that no new row
\* comes under the id of a deleted one: a request that holds a copy of the old row
\* would write its counters over the new one's.
THEOREM LoneCountersExact ==
  ASSUME "create" \notin AdminOps, \A c, d \in Callers : c = d
  PROVE  TokenSpec => []CountersExact
  <1>1. TokenInit => ExactInv
    <2> SUFFICES ASSUME TokenInit
                 PROVE  ExactInv
      OBVIOUS
    <2>1. TokInv
      BY TokenInitInv
    <2>2. \A k \in KeyIds, kind \in Kinds : tokens[k][kind] = Unused
      BY DEF TokenInit, NothingSeen, NoTokens
    <2>3. CountersExact
      BY <2>2 DEF CountersExact, Reported, Unused
    <2>4. WindowsInPast /\ NoneLater
      BY <2>2, WindowsAssumption DEF TokenInit, WindowsInPast, NoneLater, Unused, Times, NoReports
    <2>5. CopiesAreStored
      BY DEF TokenInit, Init, KMInit, CopiesAreStored
    <2> QED
      BY <2>1, <2>3, <2>4, <2>5 DEF ExactInv
  <1>2. ExactInv /\ [TokenNext]_<<vars, tokVars>> => ExactInv'
    <2> SUFFICES ASSUME ExactInv, [TokenNext]_<<vars, tokVars>>
                 PROVE  ExactInv'
      OBVIOUS
    <2>1. TokInv /\ TokInv'
      BY TokInvStep DEF ExactInv
    <2>2. ASSUME NEW c \in Callers, Look(c) \/ Take(c) \/ Reread(c)
          PROVE  ExactInv'
      BY <2>1, <2>2, TakingExact
    <2>3. ASSUME NEW c \in Callers, SucceededWithUsage(c)
          PROVE  ExactInv'
      BY <2>1, <2>3, UsageExact
    <2>4. ASSUME NEW c \in Callers, Elsewhere(c) \/ SucceededPlainly(c)
          PROVE  ExactInv'
      BY <2>1, <2>4, ElsewhereCopies, ExactStays DEF Elsewhere, SucceededPlainly, tokVars
    <2>5. CASE AroundTokens \/ Tick
      BY <2>1, <2>5, AroundExact
    <2>6. CASE UNCHANGED <<vars, tokVars>>
      BY <2>1, <2>6, ExactStays DEF vars, kmVars, tokVars
    <2> QED
      BY <2>2, <2>3, <2>4, <2>5, <2>6 DEF TokenNext
  <1>3. ExactInv => CountersExact
    BY DEF ExactInv
  <1> QED
    BY <1>1, <1>2, <1>3, PTL DEF TokenSpec
=============================================================================
