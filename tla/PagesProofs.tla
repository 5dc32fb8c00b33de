---------------------------- MODULE PagesProofs -----------------------------
(***************************************************************************)
(* What the pages show, for every value of the constants: the data of the  *)
(* view that is polled, the daily statistics, the series of a history and the*)
(* analysis of the cluster.  The four parts share no variable, and each has an*)
(* inductive invariant of its own.                                         *)
(***************************************************************************)
EXTENDS
    DataPoller, UserAnalytics, UserTimelines, ClusterAnalysis, TotalsProofs,
    NaturalsInduction, WellFoundedInduction, TLAPS

-----------------------------------------------------------------------------
(* The poller: the inductive invariant says what a task leaves behind.  The*)
(* request is for the target of the view, a hidden mounted view awaits no  *)
(* start(), and as long as no call joined a poll() there is one timer or one*)
(* request.                                                                *)

\* What the requests and the data are.
Shapes ==
    /\ target \in Targets
    /\ request \in Requests \cup {NoRequest}
    /\ data \in Answers \cup {NoData}
    /\ server \in Versions
    /\ due \in Versions

\* The request under way and the data shown are of the target.
OfTarget ==
    /\ Polling => request.target = target
    /\ data # NoData => data.target = target

\* Without a joined call, a timer and a poll() exclude each other, and only a
\* mounted view has either.
OneChain ==
    ~joined =>
        /\ lost = 0
        /\ ~(Polling /\ timer)
        /\ view # "mounted" => ~Polling /\ ~timer

\* A view that is not mounted yet does nothing, joined or not.
Created == view = "created" => ~Polling /\ ~timer /\ ~joined /\ data = NoData

PollerInv ==
    /\ Shapes
    /\ OfTarget
    /\ HiddenPageIsQuiet
    /\ OneChain
    /\ Created

\* What start() leaves behind when no poll() is under way, and when one is.
Alone ==
    /\ joined' = joined
    /\ \/ request' = request
       \/ /\ request' = [caller |-> "start", target |-> target', version |-> NoVersion]
          /\ ~hidden' /\ ~timer'

Joining ==
    /\ Polling /\ request' = request
    /\ \/ joined'
       \/ ~timer' /\ (joined' <=> joined)

LEMMA NoRequestIsNone == NoRequest \notin Requests
<1>1. \A r \in Requests : r.caller # "none"
      BY DEF Requests, Callers
<1>2. NoRequest.caller = "none"
      BY DEF NoRequest
<1> QED
    BY <1>1, <1>2

LEMMA NoDataIsNone == NoData \notin Answers
<1>1. \A d \in Answers : d.version # NoVersion
      BY DataPollerAssumption DEF Answers, Versions, NoVersion
<1>2. NoData.version = NoVersion
      BY DEF NoData
<1> QED
    BY <1>1, <1>2

LEMMA InitPollerInv == Init => PollerInv
<1> SUFFICES ASSUME Init
             PROVE  PollerInv
    OBVIOUS
<1>1. Shapes
      BY DataPollerAssumption DEF Init, Shapes, Versions
<1>2. ~Polling /\ lost = 0 /\ data = NoData /\ ~joined /\ ~timer /\ view = "created"
      BY DEF Init, Polling
<1> QED
    BY <1>1, <1>2 DEF PollerInv, OfTarget, HiddenPageIsQuiet, OneChain, Created

LEMMA ShapesStep == Shapes /\ [Next]_vars => Shapes'
<1> SUFFICES ASSUME Shapes, [Next]_vars
             PROVE  Shapes'
    OBVIOUS
<1> USE DataPollerAssumption
    DEF Shapes, Requests, Answers, Callers, Versions, NoVersion
<1>1. CASE Mount \/ Show \/ TimerFires \/ LostTimerFires
      BY <1>1 DEF Mount, Show, TimerFires, LostTimerFires, Start, StartIdle, StartPolling, Quiet, Ask
<1>2. CASE Unmount \/ Hide
      BY <1>2 DEF Unmount, Hide, StopAll, shown
<1>3. CASE FocusOrBlur \/ Write
      BY <1>3 DEF FocusOrBlur, Write, shown
<1>4. CASE Read
      BY <1>4 DEF Read, Polling, shown
<1>5. CASE Answered \/ Failed \/ Refused
      BY <1>5 DEF Answered, Failed, Refused, Settle, Polling
<1>6. ASSUME NEW t \in Targets, SetTarget(t)
      PROVE  Shapes'
      <2>1. /\ target' = t /\ data' = NoData /\ server' = server /\ due' = 0
            /\ \/ request' \in {request, NoRequest}
               \/ request' = [caller |-> "start", target |-> target', version |-> NoVersion]
            BY <1>6, Zenon DEF SetTarget, Forget, StartIdle, Ask
      <2> QED
          BY <2>1
<1>7. CASE Refresh
      BY <1>7 DEF Refresh, Quiet, Ask
<1>8. CASE UNCHANGED vars
      BY <1>8 DEF vars, shown
<1> QED
    BY <1>1, <1>2, <1>3, <1>4, <1>5, <1>6, <1>7, <1>8 DEF Next

LEMMA SafetyStep ==
    PollerInv /\ [Next]_vars => OfTarget' /\ HiddenPageIsQuiet' /\ OneChain' /\ Created'
<1> SUFFICES ASSUME PollerInv, [Next]_vars
             PROVE  OfTarget' /\ HiddenPageIsQuiet' /\ OneChain' /\ Created'
    OBVIOUS
<1> USE NoRequestIsNone, NoDataIsNone
    DEF PollerInv, OfTarget, HiddenPageIsQuiet, OneChain, Created, Polling
<1>1. CASE Mount
      <2>1. view = "created" /\ lost' = lost /\ UNCHANGED <<target, data>> /\ view' = "mounted"
            BY <1>1 DEF Mount, StartIdle
      <2>2. Alone
            BY <1>1, Zenon DEF Mount, StartIdle, Ask, Alone
      <2> QED
          BY <2>1, <2>2 DEF Alone
<1>2. CASE Unmount
      BY <1>2 DEF Unmount, StopAll
<1>3. CASE Hide
      BY <1>3 DEF Hide, StopAll, shown
<1>4. CASE Show
      <2>1. UNCHANGED <<view, target, data, lost>> /\ ~hidden'
            BY <1>4 DEF Show, Start, StartIdle, StartPolling
      <2>2. CASE view # "mounted"
            BY <1>4, <2>1, <2>2 DEF Show, Start, Quiet
      <2>3. CASE view = "mounted"
            <3>1. (~Polling /\ Alone) \/ Joining
                  BY <1>4, <2>3, Zenon DEF Show, Start, StartIdle, StartPolling, Quiet, Ask,
                     Alone, Joining, Polling
            <3> QED
                BY <2>1, <2>3, <3>1 DEF Alone, Joining
      <2> QED
          BY <2>2, <2>3
<1>5. CASE FocusOrBlur
      BY <1>5 DEF FocusOrBlur, shown
<1>6. CASE TimerFires
      <2>1. UNCHANGED <<view, target, data, hidden, lost>> /\ timer
            BY <1>6 DEF TimerFires, Start, StartIdle, StartPolling
      <2>2. Alone \/ Joining
            BY <1>6, Zenon DEF TimerFires, Start, StartIdle, StartPolling, Quiet, Ask,
                     Alone, Joining, Polling
      <2> QED
          BY <2>1, <2>2 DEF Alone, Joining
<1>7. CASE LostTimerFires
      <2>1. UNCHANGED <<view, target, data, hidden>> /\ lost # 0
            BY <1>7 DEF LostTimerFires, Start, StartIdle, StartPolling
      <2>2. Alone \/ Joining
            <3>1. PICK n : Start(n)
                  BY <1>7 DEF LostTimerFires
            <3> QED
                BY <3>1, Zenon DEF Start, StartIdle, StartPolling, Quiet, Ask,
                     Alone, Joining, Polling
      <2> QED
          BY <2>1, <2>2 DEF Alone, Joining
<1>8. CASE Read
      BY <1>8 DEF Read, shown, Shapes, Requests
<1>9. CASE Answered
      BY <1>9 DEF Answered, Settle, Resume, Arm
<1>10. CASE Failed
      BY <1>10 DEF Failed, Settle, Resume, Arm
<1>11. CASE Refused
      BY <1>11 DEF Refused, Settle
<1>12. ASSUME NEW t \in Targets, SetTarget(t)
       PROVE  OfTarget' /\ HiddenPageIsQuiet' /\ OneChain' /\ Created'
      <2>1. view = "mounted" /\ view' = "mounted" /\ data' = NoData
            BY <1>12 DEF SetTarget, Forget
      <2>2. \/ ~Polling /\ lost' = lost /\ Alone
            \/ Polling /\ ~Polling' /\ (joined' \/ (~timer' /\ UNCHANGED <<lost, joined>>))
            BY <1>12, Zenon DEF SetTarget, StartIdle, Ask, Arm, Alone, Polling
      <2> QED
          BY <2>1, <2>2 DEF Alone
<1>13. CASE Refresh
      BY <1>13 DEF Refresh, Quiet, Ask
<1>14. CASE Write
      BY <1>14 DEF Write, shown
<1>15. CASE UNCHANGED vars
      BY <1>15 DEF vars, shown
<1> QED
    BY <1>1, <1>2, <1>3, <1>4, <1>5, <1>6, <1>7, <1>8, <1>9, <1>10, <1>11, <1>12, <1>13,
       <1>14, <1>15 DEF Next

LEMMA PollerInvariant == Spec => []PollerInv
<1>1. PollerInv /\ [Next]_vars => PollerInv'
      BY ShapesStep, SafetyStep DEF PollerInv
<1> QED
    BY InitPollerInv, <1>1, PTL DEF Spec

\* A view never shows the data of a target it has left: the change of target
\* aborts the request and resets the data.
THEOREM DataStaysOfTarget == Spec => []DataIsOfTarget
<1>1. PollerInv => DataIsOfTarget
      BY DEF PollerInv, OfTarget, DataIsOfTarget
<1> QED
    BY PollerInvariant, <1>1, PTL

\* A hidden page asks only when its user code calls refresh(): start() looks at
\* document.hidden and visibilitychange stops the rest.
THEOREM HiddenStaysQuiet == Spec => []HiddenPageIsQuiet
<1>1. PollerInv => HiddenPageIsQuiet
      BY DEF PollerInv
<1> QED
    BY PollerInvariant, <1>1, PTL

\* Unmounting ends the polling, provided no call ever joined a poll().
THEOREM GoneStaysQuiet == Spec => []GoneMeansQuiet
<1>1. PollerInv => GoneMeansQuiet
      BY DEF PollerInv, OneChain, GoneMeansQuiet
<1> QED
    BY PollerInvariant, <1>1, PTL

-----------------------------------------------------------------------------
(* What refresh() promises.                                                 *)

\* Data never run ahead of the server. What is due is on its way, or shown: a request
\* under way has not read anything older, since it was sent after the refresh().
FreshInv ==
    /\ due <= server
    /\ ~Polling /\ data # NoData => data.version >= due
    /\ Polling /\ request.version # NoVersion => request.version >= due

\* The poll() of a task is not ahead of what is due.
Asked ==
    /\ UNCHANGED <<server, due, data>>
    /\ \/ request' = request
       \/ request' = [caller |-> "start", target |-> target', version |-> NoVersion] /\ ~Polling

LEMMA AskedIsFresh ==
    ASSUME PollerInv, FreshInv, Asked
    PROVE  FreshInv'
BY NoRequestIsNone DEF Asked, FreshInv, Polling, NoRequest, NoVersion

LEMMA FreshStep == PollerInv /\ FreshInv /\ [Next]_vars => FreshInv'
<1> SUFFICES ASSUME PollerInv, FreshInv, [Next]_vars
             PROVE  FreshInv'
    OBVIOUS
<1>0. server \in Nat /\ due \in Nat
      BY DataPollerAssumption DEF PollerInv, Shapes, Versions
<1> USE NoRequestIsNone, NoDataIsNone
<1>1. CASE Mount \/ Show \/ TimerFires \/ LostTimerFires
      <2>1. UNCHANGED <<server, due, data>>
            BY <1>1 DEF Mount, Show, TimerFires, LostTimerFires
      <2>2. Mount => ~Polling
            BY DEF Mount, PollerInv, Created
      <2>3. request' = request \/ (~Polling /\ Ask("start"))
            BY <1>1, <2>2, Zenon DEF Mount, Show, TimerFires, LostTimerFires, Start, StartIdle,
               StartPolling, Quiet
      <2>4. Asked
            BY <2>1, <2>3 DEF Ask, Asked
      <2> QED
          BY <2>4, AskedIsFresh
<1>2. CASE Unmount \/ Hide
      BY <1>0, <1>2 DEF Unmount, Hide, StopAll, shown, FreshInv, Polling, Answers, Versions, PollerInv, Shapes
<1>3. CASE FocusOrBlur
      BY <1>3 DEF FocusOrBlur, shown, FreshInv, Polling
<1>4. CASE Read
      BY <1>0, <1>4 DEF Read, shown, FreshInv, Polling, PollerInv, Shapes, Requests
<1>5. CASE Answered
      BY <1>0, <1>5 DEF Answered, Settle, FreshInv, Polling
<1>6. CASE Failed \/ Refused
      BY <1>0, <1>6 DEF Failed, Refused, Settle, FreshInv, Polling, Answers, Versions, PollerInv, Shapes
<1>7. ASSUME NEW t \in Targets, SetTarget(t)
      PROVE  FreshInv'
      <2>1. /\ data' = NoData /\ server' = server /\ due' = 0
            /\ \/ request' = NoRequest
               \/ request' = request /\ ~Polling
               \/ request' = [caller |-> "start", target |-> target', version |-> NoVersion]
            BY <1>7, Zenon DEF SetTarget, Forget, StartIdle, Ask
      <2> QED
          BY <1>0, <2>1 DEF FreshInv, Polling
<1>8. CASE Refresh
      <2>1. UNCHANGED <<data, server>>
            BY <1>8 DEF Refresh
      <2>2. CASE UNCHANGED <<request, due>>
            BY <2>1, <2>2 DEF FreshInv, Polling
      <2>3. CASE due' = server /\ Ask("refresh")
            <3>1. request'.version = NoVersion /\ request' # NoRequest
                  BY <2>3 DEF Ask, NoRequest
            <3> QED
                BY <1>0, <2>1, <2>3, <3>1 DEF FreshInv, Polling
      <2> QED
          BY <1>8, <2>2, <2>3, Zenon DEF Refresh, Quiet
<1>9. CASE Write
      BY <1>0, <1>9 DEF Write, shown, FreshInv, Polling
<1>10. CASE UNCHANGED vars
      BY <1>10 DEF vars, shown, FreshInv, Polling
<1> QED
    BY <1>1, <1>2, <1>3, <1>4, <1>5, <1>6, <1>7, <1>8, <1>9, <1>10 DEF Next

\* Once the request of a refresh() that found none under way is answered, what is shown
\* has the writes before it (refresh() after the write operations of a view).
THEOREM RefreshesShowWrites == Spec => []RefreshShowsWrites
<1>1. Init => FreshInv
      <2> SUFFICES ASSUME Init
                   PROVE  FreshInv
          OBVIOUS
      <2> QED
          BY DataPollerAssumption DEF Init, FreshInv, Polling
<1>2. FreshInv => RefreshShowsWrites
      BY DEF FreshInv, RefreshShowsWrites
<1> QED
    BY PollerInvariant, FreshStep, <1>1, <1>2, PTL DEF Spec

-----------------------------------------------------------------------------
(* Types.                                                                   *)

\* A timer that a poll() may still overwrite leaves room for one more.
TypeInv == TypeOK /\ (Polling /\ timer => lost < MaxLost)

LEMMA TypeStep == PollerInv /\ TypeInv /\ [Next]_vars => TypeInv'
<1> SUFFICES ASSUME PollerInv, TypeInv, [Next]_vars
             PROVE  TypeInv'
    OBVIOUS
<1>1. Shapes'
      BY ShapesStep DEF PollerInv
<1> DEFINE
      Flags ==
        /\ view \in {"created", "mounted", "gone"} /\ hidden \in BOOLEAN /\ typing \in BOOLEAN
        /\ stopped \in BOOLEAN /\ loaded \in BOOLEAN /\ initialLoading \in BOOLEAN
        /\ unable \in BOOLEAN /\ joined \in BOOLEAN /\ timer \in BOOLEAN
      Room == lost \in 0..MaxLost /\ (Polling /\ timer => lost < MaxLost)
<1>2. Flags /\ Room
      BY DEF TypeInv, TypeOK
<1>3. Flags' /\ Room' => TypeInv'
      BY <1>1 DEF Shapes, TypeInv, TypeOK
<1>4. Flags' /\ Room'
      <2> USE DataPollerAssumption
      <2>1. CASE Mount
            <3>1. Flags'
                  BY <1>2, <2>1, Zenon DEF Mount, StartIdle, Ask
            <3>2. Room'
                  BY <1>2, <2>1, SMT DEF Mount, StartIdle, Ask, Polling, PollerInv, Created
            <3> QED
                BY <3>1, <3>2
      <2>2. CASE Show
            <3>1. Flags'
                  BY <1>2, <2>2, Zenon DEF Show, Start, StartIdle, StartPolling, Quiet, Ask
            <3>2. Room'
                  BY <1>2, <2>2, SMT DEF Show, Start, StartIdle, StartPolling, Quiet, Ask, Polling
            <3> QED
                BY <3>1, <3>2
      <2>3. CASE TimerFires
            <3>1. Flags'
                  BY <1>2, <2>3, Zenon DEF TimerFires, Start, StartIdle, StartPolling, Quiet, Ask
            <3>2. Room'
                  BY <1>2, <2>3, SMT DEF TimerFires, Start, StartIdle, StartPolling, Quiet, Ask, Polling
            <3> QED
                BY <3>1, <3>2
      <2>4. CASE LostTimerFires
            <3>1. Flags'
                  BY <1>2, <2>4, Zenon DEF LostTimerFires, Start, StartIdle, StartPolling, Quiet, Ask
            <3>2. Room'
                  BY <1>2, <2>4, SMT DEF LostTimerFires, Start, StartIdle, StartPolling, Quiet, Ask, Polling
            <3> QED
                BY <3>1, <3>2
      <2>5. CASE Unmount \/ Hide
            <3>1. Flags'
                  BY <1>2, <2>5, Zenon DEF Unmount, Hide, StopAll, shown
            <3>2. Room'
                  BY <1>2, <2>5, SMT DEF Unmount, Hide, StopAll, shown, Polling
            <3> QED
                BY <3>1, <3>2
      <2>6. CASE FocusOrBlur \/ Write
            <3>1. Flags'
                  BY <1>2, <2>6, Zenon DEF FocusOrBlur, Write, shown
            <3>2. Room'
                  BY <1>2, <2>6, SMT DEF FocusOrBlur, Write, shown, Polling
            <3> QED
                BY <3>1, <3>2
      <2>7. CASE Read
            <3>1. Flags'
                  BY <1>2, <2>7, Zenon DEF Read, shown
            <3>2. Room'
                  BY <1>2, <2>7, SMT DEF Read, shown, Polling
            <3> QED
                BY <3>1, <3>2
      <2>8. CASE Answered \/ Failed \/ Refused
            <3>1. Flags'
                  BY <1>2, <2>8, Zenon DEF Answered, Failed, Refused, Settle, Resume, Arm
            <3>2. Room'
                  BY <1>2, <2>8, SMT DEF Answered, Failed, Refused, Settle, Resume, Arm, Polling
            <3> QED
                BY <3>1, <3>2
      <2>9. ASSUME NEW t \in Targets, SetTarget(t)
            PROVE  Flags' /\ Room'
            <3>1. Flags'
                  BY <1>2, <2>9, Zenon DEF SetTarget, Forget, StartIdle, Ask, Arm
            <3>2. Room'
                  BY <1>2, <2>9, SMT DEF SetTarget, Forget, StartIdle, Ask, Arm, Polling
            <3> QED
                BY <3>1, <3>2
      <2>10. CASE Refresh
             <3>1. Flags'
                   BY <1>2, <2>10, Zenon DEF Refresh, Quiet, Ask
             <3>2. Room'
                   BY <1>2, <2>10, SMT DEF Refresh, Quiet, Ask, Polling
             <3> QED
                 BY <3>1, <3>2
      <2>11. CASE UNCHANGED vars
             <3>1. Flags'
                   BY <1>2, <2>11, Zenon DEF vars, shown
             <3>2. Room'
                   BY <1>2, <2>11, SMT DEF vars, shown, Polling
             <3> QED
                 BY <3>1, <3>2
      <2> QED
          BY <2>1, <2>2, <2>3, <2>4, <2>5, <2>6, <2>7, <2>8, <2>9, <2>10, <2>11 DEF Next
<1> QED
    BY <1>3, <1>4

\* The variables keep their types, and no more timers are forgotten than the
\* calls that joined a poll() leave.
THEOREM PollerTypeCorrect == Spec => []TypeOK
<1>1. Init => TypeInv
      <2> SUFFICES ASSUME Init
                   PROVE  TypeInv
          OBVIOUS
      <2>1. Shapes
            BY InitPollerInv DEF PollerInv
      <2>2. lost \in 0..MaxLost /\ ~timer
            BY DataPollerAssumption DEF Init
      <2>3. /\ hidden \in BOOLEAN /\ typing \in BOOLEAN /\ stopped \in BOOLEAN /\ timer \in BOOLEAN
            /\ loaded \in BOOLEAN /\ initialLoading \in BOOLEAN /\ unable \in BOOLEAN
            /\ joined \in BOOLEAN /\ view \in {"created", "mounted", "gone"}
            BY Zenon DEF Init
      <2> QED
          BY <2>1, <2>2, <2>3, Zenon DEF TypeInv, TypeOK, Shapes
<1>2. TypeInv => TypeOK
      BY DEF TypeInv
<1> QED
    BY PollerInvariant, TypeStep, <1>1, <1>2, PTL DEF Spec

-----------------------------------------------------------------------------
(* The daily statistics: rows count completed jobs on their day, and a     *)
(* refresh that nobody overtakes takes no counted job away.                *)

JobRecord == [day : Days \cup {-1}, state : {"none", "queued", "completed", "failed"}, memory : BOOLEAN]

\* A job is submitted the day it is, at the latest.
JobsTyped ==
    /\ today \in Days
    /\ jobs \in [Jobs -> JobRecord]
    /\ \A j \in Jobs : jobs[j].day <= today

\* Every writer works on days and counts jobs.
WritersTyped ==
    /\ stage \in [Writers -> Stages]
    /\ days \in [Writers -> SUBSET Days]
    /\ payload \in [Writers -> [Days -> SUBSET Jobs]]
    /\ found \in [Writers -> SUBSET (Days \X Tools)]
    /\ alone \in [Writers -> BOOLEAN]

AnalyticsTypeOK ==
    /\ JobsTyped /\ WritersTyped
    /\ stats \in [Days \X Tools -> SUBSET Jobs]
    /\ restarts \in 0..MaxRestarts

\* What a writer is going to insert was submitted that day, is completed and
\* has its memory.
PayloadIsCountable == \A w \in Writers, d \in Days : payload[w][d] \subseteq Countable(d)

\* The writer has read every job that the row counts.
Covers(w, k) == stats[k] \subseteq payload[w][k[1]]

\* While no other one commits, a writer has read the jobs of the rows it is
\* going to delete, of those its DELETE has found and of those it inserts.
AloneCovers == \A w \in Writers : alone[w] => \A k \in Days \X Tools :
    /\ stage[w] = "replace" /\ k[1] \in Replaced(w) => Covers(w, k)
    /\ stage[w] \in {"replace", "insert"} /\ payload[w][k[1]] # {} => Covers(w, k)
    /\ stage[w] = "insert" /\ k \in found[w] => Covers(w, k)

AnalyticsInv == AnalyticsTypeOK /\ CountedOnItsDay /\ PayloadIsCountable /\ AloneCovers

LEMMA AnalyticsInvInit == AnalyticsInit => AnalyticsInv
  <1> SUFFICES ASSUME AnalyticsInit PROVE AnalyticsInv
    OBVIOUS
  <1>1. JobsTyped
    BY AnalyticsAssumption DEF AnalyticsInit, JobsTyped, JobRecord, Days, NotSubmitted
  <1>2. WritersTyped
    BY DEF AnalyticsInit, WritersTyped, Stages, NoRows
  <1>3. stats \in [Days \X Tools -> SUBSET Jobs] /\ restarts \in 0..MaxRestarts
    BY AnalyticsAssumption DEF AnalyticsInit
  <1>4. CountedOnItsDay
    BY DEF AnalyticsInit, CountedOnItsDay
  <1>5. PayloadIsCountable
    BY DEF AnalyticsInit, PayloadIsCountable, NoRows
  <1>6. AloneCovers
    BY DEF AnalyticsInit, AloneCovers
  <1> QED BY <1>1, <1>2, <1>3, <1>4, <1>5, <1>6 DEF AnalyticsInv, AnalyticsTypeOK

-----------------------------------------------------------------------------
(* Steps that leave the rows alone.                                         *)

\* Jobs go on, days pass, and a writer that goes on to replace rows is one
\* that was doing so with the same rows.
RowsStay ==
    /\ JobsTyped' /\ WritersTyped' /\ restarts' \in 0..MaxRestarts
    /\ stats' = stats
    /\ today <= today'
    /\ \A d \in Days : Countable(d) \subseteq Countable(d)'
    /\ \A w \in Writers, d \in Days : payload'[w][d] \in {payload[w][d], {}}
    /\ \A w \in Writers : alone'[w] /\ stage'[w] \in {"replace", "insert"} =>
          /\ alone[w] /\ stage'[w] = stage[w] /\ days'[w] = days[w]
          /\ payload'[w] = payload[w] /\ found'[w] = found[w]

\* No row counts jobs of a day to come.
LEMMA NothingAhead ==
  ASSUME AnalyticsInv, NEW k \in Days \X Tools, k[1] > today
  PROVE  stats[k] = {}
  <1>1. ASSUME NEW j \in stats[k] PROVE FALSE
    <2>1. j \in Jobs
      BY <1>1 DEF AnalyticsInv, AnalyticsTypeOK
    <2>2. jobs[j].day = k[1] /\ jobs[j].day <= today
      BY <1>1, <2>1 DEF AnalyticsInv, CountedOnItsDay, AnalyticsTypeOK, JobsTyped
    <2> QED BY <2>2 DEF AnalyticsInv, AnalyticsTypeOK, JobsTyped, Days
  <1> QED BY <1>1

LEMMA QuietKeepsInv ==
  ASSUME AnalyticsInv, RowsStay
  PROVE  AnalyticsInv'
  <1>1. AnalyticsTypeOK'
    BY DEF RowsStay, AnalyticsInv, AnalyticsTypeOK
  <1>2. CountedOnItsDay'
    <2> SUFFICES ASSUME NEW j \in Jobs, NEW k \in Days \X Tools, j \in stats[k]
                 PROVE  /\ jobs'[j].day = k[1] /\ DailyTool(j) = k[2]
                        /\ jobs'[j].state = "completed" /\ jobs'[j].memory
      BY DEF RowsStay, CountedOnItsDay
    <2>1. j \in Countable(k[1]) /\ DailyTool(j) = k[2] /\ k[1] \in Days
      BY DEF AnalyticsInv, CountedOnItsDay, Countable
    <2>2. j \in Countable(k[1])'
      BY <2>1 DEF RowsStay
    <2> QED BY <2>1, <2>2 DEF Countable
  <1>3. PayloadIsCountable'
    <2> SUFFICES ASSUME NEW w \in Writers, NEW d \in Days
                 PROVE  payload'[w][d] \subseteq Countable(d)'
      BY DEF PayloadIsCountable
    <2>1. payload[w][d] \subseteq Countable(d) /\ Countable(d) \subseteq Countable(d)'
      BY DEF AnalyticsInv, PayloadIsCountable, RowsStay
    <2>2. payload'[w][d] = payload[w][d] \/ payload'[w][d] = {}
      BY DEF RowsStay
    <2> QED BY <2>1, <2>2
  <1>4. AloneCovers'
    <2> SUFFICES ASSUME NEW w \in Writers, alone'[w], NEW k \in Days \X Tools,
                        stage'[w] \in {"replace", "insert"}
                 PROVE  /\ stage'[w] = "replace" /\ k[1] \in Replaced(w)' => Covers(w, k)'
                        /\ payload'[w][k[1]] # {} => Covers(w, k)'
                        /\ stage'[w] = "insert" /\ k \in found'[w] => Covers(w, k)'
      BY DEF AloneCovers
    <2>1. /\ alone[w] /\ stage'[w] = stage[w] /\ days'[w] = days[w]
          /\ payload'[w] = payload[w] /\ found'[w] = found[w] /\ stats' = stats
      BY DEF RowsStay
    <2>2. Covers(w, k)' <=> Covers(w, k)
      BY <2>1 DEF Covers
    <2>3. /\ stage[w] = "replace" /\ k[1] \in Replaced(w) => Covers(w, k)
          /\ payload[w][k[1]] # {} => Covers(w, k)
          /\ stage[w] = "insert" /\ k \in found[w] => Covers(w, k)
      BY <2>1 DEF AnalyticsInv, AloneCovers
    <2>4. ASSUME k[1] \in Replaced(w)', k[1] \notin Replaced(w) PROVE Covers(w, k)
      <3>1. k[1] = today' /\ today' # today /\ today <= today'
        BY <2>1, <2>4 DEF Replaced, RowsStay
      <3>2. k[1] > today
        BY <3>1 DEF RowsStay, AnalyticsInv, AnalyticsTypeOK, JobsTyped, Days
      <3> QED BY <3>2, NothingAhead DEF Covers
    <2> QED BY <2>1, <2>2, <2>3, <2>4
  <1> QED BY <1>1, <1>2, <1>3, <1>4 DEF AnalyticsInv

\* The jobs stay as they are or one goes on; the writers do not move.
LEMMA JobStepsAreQuiet ==
  ASSUME AnalyticsInv, (\E j \in Jobs : Submit(j) \/ End(j)) \/ Midnight
  PROVE  RowsStay
  <1>1. /\ JobsTyped /\ WritersTyped /\ restarts \in 0..MaxRestarts
        /\ today \in 0..MaxDay /\ MaxDay \in Nat
    BY AnalyticsAssumption DEF AnalyticsInv, AnalyticsTypeOK, JobsTyped, Days
  <1>2. UNCHANGED <<stats, stage, days, payload, found, alone, restarts>>
    BY DEF Submit, End, Midnight
  <1>3. WritersTyped' /\ restarts' \in 0..MaxRestarts
    BY <1>1, <1>2 DEF WritersTyped
  <1>4. /\ today <= today' /\ JobsTyped'
        /\ \A d \in Days : Countable(d) \subseteq Countable(d)'
    <2>1. CASE \E j \in Jobs : Submit(j)
      <3>1. PICK j \in Jobs : Submit(j)
        BY <2>1
      <3> DEFINE new == [day |-> today, state |-> "queued", memory |-> FALSE]
      <3>2. new \in JobRecord /\ new.day = today /\ jobs[j].state = "none"
        BY <1>1, <3>1 DEF Submit, JobRecord, JobsTyped, NotSubmitted
      <3>3. jobs' = [jobs EXCEPT ![j] = new] /\ today' = today
        BY <3>1 DEF Submit
      <3> HIDE DEF new
      <3>4. JobsTyped'
        BY <1>1, <3>2, <3>3 DEF JobsTyped
      <3>5. \A d \in Days : Countable(d) \subseteq Countable(d)'
        BY <1>1, <3>2, <3>3 DEF Countable, JobsTyped
      <3> QED BY <1>1, <3>3, <3>4, <3>5
    <2>2. CASE \E j \in Jobs : End(j)
      <3>1. PICK j \in Jobs, state \in {"completed", "failed"}, memory \in BOOLEAN :
              /\ jobs[j].state = "queued" /\ today' = today
              /\ jobs' = [jobs EXCEPT ![j].state = state, ![j].memory = memory]
        BY <2>2 DEF End
      <3> DEFINE new == [jobs[j] EXCEPT !.state = state, !.memory = memory]
      <3>2. new \in JobRecord /\ new.day = jobs[j].day /\ jobs[j].day <= today
        BY <1>1, <3>1 DEF JobRecord, JobsTyped
      <3>3. jobs' = [jobs EXCEPT ![j] = new]
        BY <1>1, <3>1 DEF JobsTyped
      <3> HIDE DEF new
      <3>4. JobsTyped'
        BY <1>1, <3>1, <3>2, <3>3 DEF JobsTyped
      <3>5. \A d \in Days : Countable(d) \subseteq Countable(d)'
        BY <1>1, <3>1, <3>3 DEF Countable, JobsTyped
      <3> QED BY <1>1, <3>1, <3>4, <3>5
    <2>3. CASE Midnight
      <3>1. today' = today + 1 /\ today < MaxDay /\ jobs' = jobs
        BY <2>3 DEF Midnight
      <3>2. \A j \in Jobs : jobs[j].day <= today + 1
        BY <1>1 DEF JobsTyped, JobRecord, Days
      <3> QED BY <1>1, <3>1, <3>2 DEF JobsTyped, Days, Countable
    <2> QED BY <2>1, <2>2, <2>3
  <1> QED BY <1>2, <1>3, <1>4 DEF RowsStay

\* Nothing but a writer moves, which is not going to replace rows then.
Rests(w) ==
    /\ \E s \in Stages \ {"replace", "insert"} : Goto(w, s)
    /\ today' = today /\ stats' = stats /\ restarts' \in 0..MaxRestarts
    /\ JobsTyped' /\ \A d \in Days : Countable(d) \subseteq Countable(d)'
    /\ \E ds \in SUBSET Days : days' = [days EXCEPT ![w] = ds]
    /\ payload' \in {payload, [payload EXCEPT ![w] = NoRows]}
    /\ found' \in {found, [found EXCEPT ![w] = {}]}
    /\ alone' \in {alone, [alone EXCEPT ![w] = FALSE]}

LEMMA RestIsQuiet ==
  ASSUME AnalyticsInv, NEW w \in Writers, Rests(w)
  PROVE  RowsStay
  <1>1. WritersTyped /\ today \in Days /\ Days \subseteq Int
    BY AnalyticsAssumption DEF AnalyticsInv, AnalyticsTypeOK, JobsTyped, Days
  <1>2. PICK s \in Stages \ {"replace", "insert"}, ds \in SUBSET Days :
          stage' = [stage EXCEPT ![w] = s] /\ days' = [days EXCEPT ![w] = ds]
    BY DEF Rests, Goto
  <1>3. NoRows \in [Days -> SUBSET Jobs] /\ \A d \in Days : NoRows[d] = {}
    BY DEF NoRows
  <1>4. WritersTyped'
    <2>1. stage' \in [Writers -> Stages] /\ days' \in [Writers -> SUBSET Days]
      BY <1>1, <1>2 DEF WritersTyped
    <2>2. payload' \in [Writers -> [Days -> SUBSET Jobs]]
      BY <1>1, <1>3 DEF WritersTyped, Rests
    <2>3. found' \in [Writers -> SUBSET (Days \X Tools)]
      BY <1>1 DEF WritersTyped, Rests
    <2>4. alone' \in [Writers -> BOOLEAN]
      BY <1>1, Zenon DEF WritersTyped, Rests
    <2> QED BY <2>1, <2>2, <2>3, <2>4 DEF WritersTyped
  <1>5. ASSUME NEW v \in Writers, NEW d \in Days
        PROVE  payload'[v][d] \in {payload[v][d], {}}
    BY <1>1, <1>3 DEF Rests, WritersTyped
  <1>6. ASSUME NEW v \in Writers, alone'[v], stage'[v] \in {"replace", "insert"}
        PROVE  /\ alone[v] /\ stage'[v] = stage[v] /\ days'[v] = days[v]
               /\ payload'[v] = payload[v] /\ found'[v] = found[v]
    <2>1. v # w /\ stage'[v] = stage[v] /\ days'[v] = days[v]
      BY <1>1, <1>2, <1>6 DEF WritersTyped
    <2>2. payload'[v] = payload[v] /\ found'[v] = found[v]
      BY <1>1, <2>1 DEF Rests, WritersTyped
    <2>3. alone'[v] = alone[v]
      BY <1>1, <2>1 DEF Rests, WritersTyped
    <2> QED BY <1>6, <2>1, <2>2, <2>3
  <1>7. today <= today'
    BY <1>1 DEF Rests
  <1> QED BY <1>4, <1>5, <1>6, <1>7 DEF RowsStay, Rests

\* The steps of this kind.
Resting(w) ==
    \/ StartAgent(w) \/ StopAgent(w) \/ Wake(w) \/ BeginScript(w)
    \/ BeginRefresh(w) \/ Backfill(w) \/ Fail(w)

LEMMA RestingRests ==
  ASSUME AnalyticsInv, NEW w \in Writers, Resting(w)
  PROVE  Rests(w)
  <1>1. /\ JobsTyped /\ WritersTyped /\ restarts \in 0..MaxRestarts /\ MaxRestarts \in Nat
        /\ today \in 0..MaxDay /\ MaxDay \in Nat
    BY AnalyticsAssumption DEF AnalyticsInv, AnalyticsTypeOK, JobsTyped, Days
  <1>2. days = [days EXCEPT ![w] = days[w]] /\ days[w] \in SUBSET Days
    BY <1>1 DEF WritersTyped
  <1>3. \E ds \in SUBSET Days : days' = [days EXCEPT ![w] = ds]
    <2>1. CASE StartAgent(w) \/ Wake(w) \/ Backfill(w)
      <3>1. days' = days
        BY <2>1 DEF StartAgent, Wake, Backfill
      <3> QED BY <1>2, <3>1
    <2>2. CASE StopAgent(w) \/ Fail(w)
      BY <2>2 DEF StopAgent, Fail, Leave
    <2>3. CASE BeginRefresh(w)
      BY <1>1, <2>3 DEF BeginRefresh, Days
    <2>4. CASE BeginScript(w)
      <3>1. PICK from \in Days, to \in Days :
              to <= today /\ days' = [days EXCEPT ![w] = from..to]
        BY <2>4 DEF BeginScript
      <3>2. from..to \in SUBSET Days
        BY <1>1 DEF Days
      <3> QED BY <3>1, <3>2
    <2> QED BY <2>1, <2>2, <2>3, <2>4 DEF Resting
  <1>4. JobsTyped' /\ \A d \in Days : Countable(d) \subseteq Countable(d)'
    <2>1. CASE Backfill(w)
      <3>1. PICK js \in SUBSET Jobs :
              jobs' = [j \in Jobs |-> IF j \in js THEN [jobs[j] EXCEPT !.memory = TRUE] ELSE jobs[j]]
        BY <2>1 DEF Backfill, MissingUsage
      <3>2. today' = today
        BY <2>1 DEF Backfill
      <3>3. ASSUME NEW j \in Jobs
            PROVE  /\ jobs'[j] \in JobRecord /\ jobs'[j].day = jobs[j].day
                   /\ jobs'[j].state = jobs[j].state /\ (jobs[j].memory => jobs'[j].memory)
        <4>1. jobs[j] \in JobRecord
          BY <1>1 DEF JobsTyped
        <4>2. jobs'[j] = jobs[j] \/ jobs'[j] = [jobs[j] EXCEPT !.memory = TRUE]
          BY <3>1
        <4> QED BY <4>1, <4>2 DEF JobRecord
      <3>4. jobs' \in [Jobs -> JobRecord]
        <4>1. jobs' = [j \in Jobs |-> jobs'[j]]
          BY <3>1
        <4> QED BY <4>1, <3>3
      <3>5. \A d \in Days : Countable(d) \subseteq Countable(d)'
        BY <3>3 DEF Countable
      <3> QED BY <1>1, <3>2, <3>3, <3>4, <3>5 DEF JobsTyped
    <2>2. CASE ~Backfill(w)
      <3>1. UNCHANGED <<jobs, today>>
        BY <2>2 DEF Resting, StartAgent, StopAgent, Wake, BeginScript, BeginRefresh, Fail
      <3> QED BY <1>1, <3>1 DEF JobsTyped, Countable
    <2> QED BY <2>1, <2>2
  <1>5. \E s \in Stages \ {"replace", "insert"} : Goto(w, s)
    BY DEF Resting, StartAgent, StopAgent, Wake, BeginScript, BeginRefresh, Backfill, Fail, Leave,
           Stages
  <1>6. /\ today' = today /\ stats' = stats
        /\ payload' \in {payload, [payload EXCEPT ![w] = NoRows]}
        /\ found' \in {found, [found EXCEPT ![w] = {}]}
        /\ alone' \in {alone, [alone EXCEPT ![w] = FALSE]}
    BY DEF Resting, StartAgent, StopAgent, Wake, BeginScript, BeginRefresh, Backfill, Fail, Leave
  <1>7. restarts' \in 0..MaxRestarts
    <2>1. restarts' = restarts \/ (restarts < MaxRestarts /\ restarts' = restarts + 1)
      BY DEF Resting, StartAgent, StopAgent, Wake, BeginScript, BeginRefresh, Backfill, Fail
    <2> QED BY <1>1, <2>1
  <1> QED BY <1>3, <1>4, <1>5, <1>6, <1>7 DEF Rests

-----------------------------------------------------------------------------
(* The steps of a replacement.                                              *)

\* What a writer reads has all the jobs that the rows of those days count.
LEMMA ReadCovers ==
  ASSUME CountedOnItsDay, AnalyticsTypeOK, NEW k \in Days \X Tools
  PROVE  stats[k] \subseteq Countable(k[1])
  <1> SUFFICES ASSUME NEW j \in stats[k] PROVE j \in Countable(k[1])
    OBVIOUS
  <1>1. j \in Jobs
    BY DEF AnalyticsTypeOK
  <1> QED BY <1>1 DEF CountedOnItsDay, Countable

LEMMA ReadKeepsInv ==
  ASSUME AnalyticsInv, NEW w \in Writers, ReadJobs(w)
  PROVE  AnalyticsInv'
  <1> DEFINE ds == IF w \in Aggregators THEN {today} ELSE days[w]
             counted == [d \in Days |-> IF d \in ds THEN Countable(d) ELSE {}]
  <1>1. AnalyticsTypeOK /\ WritersTyped
    BY DEF AnalyticsInv, AnalyticsTypeOK
  <1>2. /\ stage' = [stage EXCEPT ![w] = "replace"] /\ alone' = [alone EXCEPT ![w] = TRUE]
        /\ payload' = [payload EXCEPT ![w] = counted]
        /\ UNCHANGED <<today, jobs, stats, days, found, restarts>>
    BY DEF ReadJobs, Goto
  <1>3. counted \in [Days -> SUBSET Jobs] /\ ds = Replaced(w)
    BY DEF Countable, Replaced
  <1>4. \A d \in Days : counted[d] \subseteq Countable(d) /\ (d \in ds \/ counted[d] # {} => counted[d] = Countable(d))
    OBVIOUS
  <1> HIDE DEF counted, ds
  <1>5. AnalyticsTypeOK'
    <2>1. JobsTyped' /\ stats' \in [Days \X Tools -> SUBSET Jobs] /\ restarts' \in 0..MaxRestarts
      BY <1>1, <1>2 DEF AnalyticsTypeOK, JobsTyped
    <2>2. stage' \in [Writers -> Stages]
      BY <1>1, <1>2 DEF WritersTyped, Stages
    <2>3. payload' \in [Writers -> [Days -> SUBSET Jobs]]
      BY <1>1, <1>2, <1>3 DEF WritersTyped
    <2>4. alone' \in [Writers -> BOOLEAN]
      BY <1>1, <1>2, Zenon DEF WritersTyped
    <2> QED BY <1>1, <1>2, <2>1, <2>2, <2>3, <2>4 DEF AnalyticsTypeOK, WritersTyped
  <1>6. CountedOnItsDay'
    BY <1>2 DEF AnalyticsInv, CountedOnItsDay
  <1>7. \A v \in Writers : payload'[v] = IF v = w THEN counted ELSE payload[v]
    BY <1>1, <1>2 DEF WritersTyped
  <1>8. PayloadIsCountable'
    BY <1>2, <1>4, <1>7 DEF AnalyticsInv, PayloadIsCountable, Countable
  <1>9. AloneCovers'
    <2> SUFFICES ASSUME NEW v \in Writers, alone'[v], NEW k \in Days \X Tools
                 PROVE  /\ stage'[v] = "replace" /\ k[1] \in Replaced(v)' => Covers(v, k)'
                        /\ stage'[v] \in {"replace", "insert"} /\ payload'[v][k[1]] # {} => Covers(v, k)'
                        /\ stage'[v] = "insert" /\ k \in found'[v] => Covers(v, k)'
      BY DEF AloneCovers
    <2>1. Replaced(v)' = Replaced(v)
      BY <1>2 DEF Replaced
    <2>2. CASE v = w
      <3>1. stage'[v] = "replace"
        BY <1>1, <1>2, <2>2 DEF WritersTyped
      <3>2. stats[k] \subseteq Countable(k[1])
        BY ReadCovers DEF AnalyticsInv
      <3>3. k[1] \in ds \/ counted[k[1]] # {} => stats[k] \subseteq counted[k[1]]
        BY <1>4, <3>2
      <3> QED BY <1>2, <1>3, <1>7, <2>1, <2>2, <3>1, <3>3 DEF Covers
    <2>3. CASE v # w
      <3>1. stage'[v] = stage[v] /\ payload'[v] = payload[v] /\ alone[v]
        BY <1>1, <1>2, <2>3 DEF WritersTyped
      <3> QED BY <1>2, <2>1, <3>1 DEF AnalyticsInv, AloneCovers, Covers
    <2> QED BY <2>2, <2>3
  <1> QED BY <1>5, <1>6, <1>8, <1>9 DEF AnalyticsInv

LEMMA DeleteKeepsInv ==
  ASSUME AnalyticsInv, NEW w \in Writers, Delete(w)
  PROVE  AnalyticsInv'
  <1> DEFINE keys == {k \in Replaced(w) \X Tools : stats[k] # {}}
  <1>1. AnalyticsTypeOK /\ WritersTyped /\ JobsTyped
    BY DEF AnalyticsInv, AnalyticsTypeOK
  <1>2. /\ stage[w] = "replace" /\ stage' = [stage EXCEPT ![w] = "insert"]
        /\ found' = [found EXCEPT ![w] = keys]
        /\ UNCHANGED <<today, jobs, stats, days, payload, alone, restarts>>
    BY DEF Delete, Goto
  <1>3. keys \subseteq Days \X Tools /\ \A k \in keys : k[1] \in Replaced(w)
    BY <1>1 DEF Replaced, WritersTyped, JobsTyped
  <1> HIDE DEF keys
  <1>4. AnalyticsTypeOK'
    <2>1. JobsTyped' /\ stats' \in [Days \X Tools -> SUBSET Jobs] /\ restarts' \in 0..MaxRestarts
      BY <1>1, <1>2 DEF AnalyticsTypeOK, JobsTyped
    <2>2. stage' \in [Writers -> Stages]
      BY <1>1, <1>2 DEF WritersTyped, Stages
    <2>3. found' \in [Writers -> SUBSET (Days \X Tools)]
      BY <1>1, <1>2, <1>3 DEF WritersTyped
    <2> QED BY <1>1, <1>2, <2>1, <2>2, <2>3 DEF AnalyticsTypeOK, WritersTyped
  <1>5. CountedOnItsDay' /\ PayloadIsCountable'
    BY <1>2 DEF AnalyticsInv, CountedOnItsDay, PayloadIsCountable, Countable
  <1>6. AloneCovers'
    <2> SUFFICES ASSUME NEW v \in Writers, alone[v], NEW k \in Days \X Tools
                 PROVE  /\ stage'[v] = "replace" /\ k[1] \in Replaced(v) => Covers(v, k)
                        /\ stage'[v] \in {"replace", "insert"} /\ payload[v][k[1]] # {} => Covers(v, k)
                        /\ stage'[v] = "insert" /\ k \in found'[v] => Covers(v, k)
      BY <1>2 DEF AloneCovers, Replaced, Covers
    <2>1. CASE v = w
      <3>1. stage'[v] = "insert" /\ found'[v] = keys
        BY <1>1, <1>2, <2>1 DEF WritersTyped
      <3> QED BY <1>2, <1>3, <2>1, <3>1 DEF AnalyticsInv, AloneCovers
    <2>2. CASE v # w
      <3>1. stage'[v] = stage[v] /\ found'[v] = found[v]
        BY <1>1, <1>2, <2>2 DEF WritersTyped
      <3> QED BY <3>1 DEF AnalyticsInv, AloneCovers
    <2> QED BY <2>1, <2>2
  <1> QED BY <1>4, <1>5, <1>6 DEF AnalyticsInv

\* A row after the commit: the jobs of the payload, or what was there.
LEMMA RowsOf ==
  ASSUME NEW w \in Writers, NEW k \in Days \X Tools
  PROVE  Rows(w)[k] = IF Inserted(w, k[1], k[2]) # {} THEN Inserted(w, k[1], k[2])
                      ELSE IF k \in found[w] THEN {} ELSE stats[k]
  BY DEF Rows

LEMMA CommitKeepsInv ==
  ASSUME AnalyticsInv, NEW w \in Writers, Commit(w)
  PROVE  AnalyticsInv'
  <1> DEFINE touched == found[w] \cup {k \in Days \X Tools : Inserted(w, k[1], k[2]) # {}}
             after == IF w \in Aggregators THEN "wait" ELSE "off"
  <1>1. AnalyticsTypeOK /\ WritersTyped /\ JobsTyped
    BY DEF AnalyticsInv, AnalyticsTypeOK
  <1>2. /\ stats' = Rows(w)
        /\ found' = [v \in Writers |-> IF v = w THEN {} ELSE found[v] \ touched]
        /\ alone' = [v \in Writers |-> FALSE]
        /\ stage' = [stage EXCEPT ![w] = after]
        /\ days' = [days EXCEPT ![w] = {}] /\ payload' = [payload EXCEPT ![w] = NoRows]
        /\ UNCHANGED <<today, jobs, restarts>>
    BY DEF Commit, Goto
  <1>3. after \in Stages /\ NoRows \in [Days -> SUBSET Jobs] /\ \A d \in Days : NoRows[d] = {}
    BY DEF Stages, NoRows
  <1> HIDE DEF touched, after
  <1>4. ASSUME NEW k \in Days \X Tools, NEW j \in Rows(w)[k]
        PROVE  j \in Jobs /\ j \in Countable(k[1]) /\ DailyTool(j) = k[2]
    <2>1. k[1] \in Days
      OBVIOUS
    <2>2. CASE j \in Inserted(w, k[1], k[2])
      <3>1. j \in payload[w][k[1]] /\ DailyTool(j) = k[2]
        BY <2>2 DEF Inserted
      <3> QED BY <2>1, <3>1 DEF AnalyticsInv, PayloadIsCountable, Countable
    <2>3. CASE j \in stats[k]
      <3>1. j \in Jobs
        BY <1>1, <2>3 DEF AnalyticsTypeOK
      <3> QED BY <2>3, <3>1 DEF AnalyticsInv, CountedOnItsDay, Countable
    <2> QED BY <1>4, <2>2, <2>3, RowsOf
  <1>5. AnalyticsTypeOK'
    <2>1. stats' \in [Days \X Tools -> SUBSET Jobs]
      <3>1. \A k \in Days \X Tools : Rows(w)[k] \subseteq Jobs
        BY <1>4
      <3>2. Rows(w) = [k \in Days \X Tools |-> Rows(w)[k]]
        BY DEF Rows
      <3> QED BY <1>2, <3>1, <3>2
    <2>2. JobsTyped' /\ restarts' \in 0..MaxRestarts
      BY <1>1, <1>2 DEF AnalyticsTypeOK, JobsTyped
    <2>3. stage' \in [Writers -> Stages] /\ days' \in [Writers -> SUBSET Days]
      BY <1>1, <1>2, <1>3 DEF WritersTyped
    <2>4. payload' \in [Writers -> [Days -> SUBSET Jobs]]
      BY <1>1, <1>2, <1>3 DEF WritersTyped
    <2>5. found' \in [Writers -> SUBSET (Days \X Tools)]
      BY <1>1, <1>2 DEF WritersTyped
    <2>6. alone' \in [Writers -> BOOLEAN]
      BY <1>2, Zenon
    <2> QED BY <2>1, <2>2, <2>3, <2>4, <2>5, <2>6 DEF AnalyticsTypeOK, WritersTyped
  <1>6. CountedOnItsDay'
    <2> SUFFICES ASSUME NEW j \in Jobs, NEW k \in Days \X Tools, j \in Rows(w)[k]
                 PROVE  /\ jobs[j].day = k[1] /\ DailyTool(j) = k[2]
                        /\ jobs[j].state = "completed" /\ jobs[j].memory
      BY <1>2 DEF CountedOnItsDay
    <2> QED BY <1>4 DEF Countable
  <1>7. PayloadIsCountable'
    <2>1. \A v \in Writers, d \in Days : payload'[v][d] \subseteq payload[v][d]
      BY <1>1, <1>2, <1>3 DEF WritersTyped
    <2> QED BY <1>2, <2>1 DEF AnalyticsInv, PayloadIsCountable, Countable
  <1>8. AloneCovers'
    BY <1>2 DEF AloneCovers
  <1> QED BY <1>5, <1>6, <1>7, <1>8 DEF AnalyticsInv

LEMMA AnalyticsInvStep == AnalyticsInv /\ [AnalyticsNext]_analyticsVars => AnalyticsInv'
  <1> SUFFICES ASSUME AnalyticsInv, [AnalyticsNext]_analyticsVars PROVE AnalyticsInv'
    OBVIOUS
  <1>1. CASE (\E j \in Jobs : Submit(j) \/ End(j)) \/ Midnight
    BY <1>1, JobStepsAreQuiet, QuietKeepsInv
  <1>2. ASSUME NEW w \in Writers, Resting(w) PROVE AnalyticsInv'
    BY <1>2, RestingRests, RestIsQuiet, QuietKeepsInv
  <1>3. ASSUME NEW w \in Writers, ReadJobs(w) \/ Delete(w) \/ Commit(w) PROVE AnalyticsInv'
    BY <1>3, ReadKeepsInv, DeleteKeepsInv, CommitKeepsInv
  <1>4. CASE UNCHANGED analyticsVars
    <2>1. UNCHANGED <<today, jobs, stats, stage, days, payload, found, alone, restarts>>
      BY <1>4 DEF analyticsVars
    <2>2. /\ JobsTyped /\ WritersTyped /\ restarts \in 0..MaxRestarts /\ today \in 0..MaxDay
          /\ MaxDay \in Nat
      BY AnalyticsAssumption DEF AnalyticsInv, AnalyticsTypeOK, JobsTyped, Days
    <2>3. JobsTyped' /\ WritersTyped'
      BY <2>1, <2>2 DEF JobsTyped, WritersTyped
    <2>4. \A d \in Days : Countable(d)' = Countable(d)
      BY <2>1 DEF Countable
    <2>5. RowsStay
      BY <2>1, <2>2, <2>3, <2>4 DEF RowsStay
    <2> QED BY <2>5, QuietKeepsInv
  <1> QED BY <1>1, <1>2, <1>3, <1>4, Zenon DEF AnalyticsNext, RefreshStep, Resting

-----------------------------------------------------------------------------
(* The theorems.                                                            *)

\* UserAnalyticsStore.refresh_current_day_summary() and the repair scripts: what
\* a row counts was submitted on its day, belongs to its tool, is completed and
\* has its memory, whichever writers interleave and whenever midnight passes.
THEOREM RowsCountTheirDay == AnalyticsSpec => []CountedOnItsDay
  <1>1. AnalyticsInv => CountedOnItsDay
    BY DEF AnalyticsInv
  <1> QED BY <1>1, AnalyticsInvInit, AnalyticsInvStep, PTL DEF AnalyticsSpec

\* _replace_current_day_summary() and replace_target_rows(): the commit of a
\* writer that no other overtook since it read the jobs takes no counted job
\* away, even if midnight passed between the reading and the DELETE.
THEOREM CountsSurviveRefresh == AnalyticsSpec => RefreshKeepsCounts
  <1>1. ASSUME AnalyticsInv, NEW w \in Writers, Commit(w), alone[w], NEW k \in Days \X Tools
        PROVE  stats[k] \subseteq stats'[k]
    <2>1. stage[w] = "insert" /\ stats' = Rows(w)
      BY <1>1 DEF Commit
    <2>2. Covers(w, k) => stats[k] \subseteq Inserted(w, k[1], k[2])
      <3>1. \A j \in stats[k] : DailyTool(j) = k[2]
        BY <1>1 DEF AnalyticsInv, AnalyticsTypeOK, CountedOnItsDay
      <3> QED BY <3>1 DEF Covers, Inserted
    <2>3. CASE Inserted(w, k[1], k[2]) # {}
      <3>1. payload[w][k[1]] # {}
        BY <2>3 DEF Inserted
      <3>2. Covers(w, k)
        BY <1>1, <2>1, <3>1 DEF AnalyticsInv, AloneCovers
      <3> QED BY <2>1, <2>2, <2>3, <3>2, RowsOf
    <2>4. CASE Inserted(w, k[1], k[2]) = {} /\ k \in found[w]
      <3>1. Covers(w, k)
        BY <1>1, <2>1, <2>4 DEF AnalyticsInv, AloneCovers
      <3> QED BY <2>2, <2>4, <3>1
    <2>5. CASE Inserted(w, k[1], k[2]) = {} /\ k \notin found[w]
      BY <2>1, <2>5, RowsOf
    <2> QED BY <2>3, <2>4, <2>5
  <1>2. AnalyticsInv /\ [AnalyticsNext]_analyticsVars
          => [\A w \in Writers : KeepsCounts(w)]_analyticsVars
    BY <1>1 DEF KeepsCounts
  <1> QED BY <1>2, AnalyticsInvInit, AnalyticsInvStep, PTL DEF AnalyticsSpec, RefreshKeepsCounts

-----------------------------------------------------------------------------
(* The series of a history: the buckets that the agent lays out are those  *)
(* the database truncates to, and the sizes of the parts of a set add up.  *)

\* Quotient and remainder.
LEMMA Division ==
    ASSUME NEW t \in Int, NEW n \in Nat \ {0}
    PROVE  /\ t \div n \in Int /\ t % n \in Int
           /\ t = n * (t \div n) + (t % n)
           /\ 0 <= t % n /\ t % n < n
  OBVIOUS

LEMMA MultipleAbove ==
    ASSUME NEW n \in Nat \ {0}, NEW a \in Int, NEW b \in Int, n * a < n * b + n
    PROVE  a <= b
  OBVIOUS

LEMMA RemainderIsUnique ==
    ASSUME NEW n \in Nat \ {0}, NEW a \in Int, NEW s \in 0..(n - 1)
    PROVE  (n * a + s) % n = s
  <1> DEFINE t == n * a + s
  <1>1. t \in Int
    OBVIOUS
  <1>2. t = n * (t \div n) + (t % n) /\ t \div n \in Int /\ t % n \in Int /\ 0 <= t % n /\ t % n < n
    BY <1>1, Division
  <1>3. t \div n <= a
    BY <1>2, MultipleAbove
  <1>4. a <= t \div n
    BY <1>2, MultipleAbove
  <1> QED BY <1>2, <1>3, <1>4

\* A sum of products, as the one factor times the sum.
LEMMA MultipleIsMonotonic ==
    ASSUME NEW n \in Nat \ {0}, NEW a \in Int, NEW b \in Int, a <= b
    PROVE  n * a <= n * b
  OBVIOUS

\* Weeks are aligned by days of the week, and begin where a division by their length
\* says: _align_bucket() is a truncation like the one of the database.
LEMMA BucketsAreAligned ==
    ASSUME NEW t \in Int, NEW n \in {Hour, Day, Week}
    PROVE  AlignBucket(t, n) = t - (t % n)
  <1> DEFINE k == Week \div Day
             q == t \div Day
             weeks == q \div k
             r == t % Day
             b == q % k
  <1>1. CASE n # Week
    BY <1>1 DEF AlignBucket
  <1>2. CASE n = Week
    <2>1. Day \in Nat \ {0} /\ Week \in Nat \ {0} /\ Week % Day = 0
      BY TimelinesAssumption
    <2>2. k \in Int /\ Week = Day * k
      BY <2>1, Division
    <2>3. k \in Nat \ {0}
      BY <2>1, <2>2
    <2>4. q \in Int /\ r \in Int /\ t = Day * q + r /\ 0 <= r /\ r < Day
      BY <2>1, Division
    <2>5. weeks \in Int /\ b \in Int /\ q = k * weeks + b /\ 0 <= b /\ b < k
      BY <2>3, <2>4, Division
    <2>6. AlignBucket(t, n) = (t - r) - b * Day
      BY <1>2 DEF AlignBucket, Weekday
    <2> HIDE DEF k, q, r, b, weeks
    <2> DEFINE s == Day * b + r
    <2>7. s \in Int /\ 0 <= s /\ s < Week
      <3>1. Day * 0 <= Day * b /\ Day * b <= Day * (k - 1)
        BY <2>1, <2>3, <2>5, MultipleIsMonotonic
      <3>2. Day * (k - 1) = Day * k - Day
        BY <2>1, <2>3
      <3>3. Day * b \in Int /\ Day * k \in Int /\ Day * (k - 1) \in Int /\ Day * 0 = 0
        BY <2>1, <2>3, <2>5
      <3> QED BY <2>1, <2>2, <2>4, <3>1, <3>2, <3>3
    <2>8. t = Week * weeks + s
      <3>1. Day * q = Day * (k * weeks) + Day * b
        BY <2>1, <2>3, <2>5
      <3>2. Day * (k * weeks) = (Day * k) * weeks
        BY <2>1, <2>3, <2>5
      <3>3. Day * b \in Int /\ Week * weeks \in Int /\ Day * q = Week * weeks + Day * b
        BY <2>1, <2>2, <2>5, <3>1, <3>2
      <3> QED BY <2>4, <3>3
    <2>9. t % Week = s
      <3>1. s \in 0..(Week - 1)
        BY <2>1, <2>7
      <3> HIDE DEF s
      <3> QED BY <2>1, <2>5, <2>8, <3>1, RemainderIsUnique
    <2>10. b * Day = Day * b /\ Day * b \in Int
      BY <2>1, <2>5
    <2> QED BY <1>2, <2>4, <2>6, <2>9, <2>10
  <1> QED BY <1>1, <1>2

\* What the database truncates a moment of the window to is one of the buckets that
\* are laid out from the bucket of its start.
LEMMA MomentHasBucket ==
    ASSUME NEW start \in Int, NEW m \in Int, start <= m, NEW n \in Nat \ {0}
    PROVE  /\ start - (start % n) <= m - (m % n)
           /\ ((m - (m % n)) - (start - (start % n))) % n = 0
  <1> DEFINE a == start \div n
             b == m \div n
             r == start % n
             s == m % n
  <1>1. a \in Int /\ r \in Int /\ start = n * a + r /\ 0 <= r /\ r < n
    BY Division
  <1>2. b \in Int /\ s \in Int /\ m = n * b + s /\ 0 <= s /\ s < n
    BY Division
  <1> HIDE DEF a, b, r, s
  <1>3. n * a \in Int /\ n * b \in Int
    BY <1>1, <1>2
  <1>4. n * a < n * b + n
    BY <1>1, <1>2, <1>3
  <1>5. a <= b
    BY <1>1, <1>2, <1>4, MultipleAbove
  <1>6. n * a <= n * b
    BY <1>1, <1>2, <1>5, MultipleIsMonotonic
  <1>7. n * b - n * a = n * (b - a) + 0
    BY <1>1, <1>2
  <1>8. b - a \in Int /\ 0 \in 0..(n - 1)
    BY <1>1, <1>2
  <1>9. (n * b - n * a) % n = 0
    BY <1>7, <1>8, RemainderIsUnique
  <1>10. start - r = n * a /\ m - s = n * b
    BY <1>1, <1>2, <1>3
  <1> QED BY <1>6, <1>9, <1>10 DEF r, s

\* A bucket has its name and its length.
LEMMA WindowMeans ==
    ASSUME NEW start \in Int, NEW end \in Int
    PROVE  LET w == Explicit(start, end)
           IN  /\ w.start = start /\ w.end = end
               /\ w.resolution \in {Hour, Day, Week} /\ w.resolution \in Nat \ {0}
               /\ Unit[w.bucket] = w.resolution
  BY TimelinesAssumption DEF Explicit, Unit

\* The moments of the jobs are integers.
LEMMA MomentIsTime ==
    ASSUME rows \in RowSets, NEW kind, NEW row \in rows
    PROVE  Moment(kind, row) \in Int
  <1>1. row.submit \in Int /\ row.seen \in Int /\ row.end \in Int \cup {NoTime}
    BY TimelinesAssumption
  <1> QED BY <1>1 DEF Moment

\* The sum of a series is the number of the jobs in its window.
LEMMA TimelineCounts ==
    ASSUME rows \in RowSets, NEW kind, NEW start \in Int, NEW end \in Int
    PROVE  Total(Timeline(kind, Explicit(start, end)))
               = Cardinality(InWindow(kind, Explicit(start, end)))
  <1> DEFINE w == Explicit(start, end)
             first == AlignBucket(w.start, w.resolution)
             cursors == {c \in first..w.end : (c - first) % w.resolution = 0}
             within == InWindow(kind, w)
             h == [row \in within |-> Trunc(w.bucket, Moment(kind, row))]
  <1>1. /\ w.start = start /\ w.end = end
        /\ w.resolution \in {Hour, Day, Week} /\ w.resolution \in Nat \ {0}
        /\ Unit[w.bucket] = w.resolution
    BY WindowMeans
  <1> HIDE DEF w
  <1>2. first = start - (start % w.resolution)
    BY <1>1, BucketsAreAligned
  <1>3. first \in Int
    BY <1>1, <1>2
  <1>4. IsFiniteSet(cursors)
    <2>1. IsFiniteSet(first..w.end)
      BY <1>1, <1>3, FS_Interval
    <2> HIDE DEF first
    <2> QED BY <2>1, FS_Subset
  <1>5. IsFiniteSet(within)
    <2>1. IsFiniteSet(rows) /\ within \subseteq rows
      BY TimelinesAssumption DEF InWindow
    <2> HIDE DEF within
    <2> QED BY <2>1, FS_Subset
  <1>6. ASSUME NEW row \in within PROVE h[row] \in cursors
    <2> DEFINE m == Moment(kind, row)
    <2>1. row \in rows /\ m \in w.start..w.end
      BY DEF InWindow
    <2>2. m \in Int /\ start <= m /\ m <= end
      BY <1>1, <2>1, MomentIsTime
    <2> HIDE DEF m, first, within
    <2>3. h[row] = m - (m % w.resolution)
      BY <1>1 DEF Trunc, m
    <2>4. m % w.resolution \in Int /\ 0 <= m % w.resolution
      BY <1>1, <2>2, Division
    <2>5. first <= h[row] /\ (h[row] - first) % w.resolution = 0
      <3> HIDE DEF h
      <3> DEFINE n == w.resolution
      <3>1. /\ start - (start % n) <= m - (m % n)
            /\ ((m - (m % n)) - (start - (start % n))) % n = 0
        BY <1>1, <2>2, MomentHasBucket, Zenon
      <3> QED BY <1>2, <2>3, <3>1
    <2>6. h[row] \in Int /\ h[row] <= w.end
      BY <1>1, <2>2, <2>3, <2>4
    <2> HIDE DEF h
    <2> QED BY <1>1, <1>3, <2>5, <2>6
  <1>7. h \in [within -> cursors]
    <2> HIDE DEF cursors, within
    <2> QED BY <1>6
  <1>8. Timeline(kind, w) = [c \in cursors |-> Cardinality({row \in within : h[row] = c})]
    <2> HIDE DEF cursors
    <2>1. ASSUME NEW c \in cursors
          PROVE  {row \in within : Trunc(w.bucket, Moment(kind, row)) = c}
                     = {row \in within : h[row] = c}
      <3> HIDE DEF within
      <3> QED OBVIOUS
    <2>2. Timeline(kind, w) =
              [c \in cursors |->
                  Cardinality({row \in within : Trunc(w.bucket, Moment(kind, row)) = c})]
      BY DEF Timeline, cursors
    <2> HIDE DEF h, within
    <2> QED BY <2>1, <2>2
  <1> HIDE DEF cursors, within, h
  <1>9. Total([c \in cursors |-> Cardinality({row \in within : h[row] = c})])
            = Cardinality(within)
    BY <1>4, <1>5, <1>7, TotalOfParts
  <1> QED BY <1>8, <1>9 DEF within, w

-----------------------------------------------------------------------------
TimelinesInv == rows \in RowSets /\ SeriesCountEveryJob

\* SeriesCountEveryJob holds: every job of a window is in one of the buckets that the
\* agent lays out and the database counts, whatever the jobs, the groups of states, the
\* window and the lengths of the buckets, if a week is a number of days.
THEOREM SeriesCountJobs == TimelinesSpec => []SeriesCountEveryJob
  <1>1. TimelinesInit => TimelinesInv
    BY DEF TimelinesInit, TimelinesInv, SeriesCountEveryJob, NoAnswer
  <1>2. TimelinesInv /\ [TimelinesNext]_timelinesVars => TimelinesInv'
    <2> SUFFICES ASSUME TimelinesInv, [TimelinesNext]_timelinesVars
                 PROVE  TimelinesInv'
      OBVIOUS
    <2> USE DEF TimelinesInv
    <2>1. CASE Record
      BY <2>1 DEF Record, SeriesCountEveryJob, NoAnswer
    <2>2. ASSUME NEW q \in Queries, Query(q) PROVE TimelinesInv'
      <3>1. rows' = rows
        BY <2>2 DEF Query
      <3>2. CASE answer' = BadRequest
        BY <3>1, <3>2 DEF SeriesCountEveryJob, BadRequest
      <3>3. CASE answer' # BadRequest
        <4> DEFINE start == IF q.range = "none" THEN q.start ELSE q.end - RangeWindow[q.range]
                   w == Explicit(start, q.end)
                   series == [kind \in Kinds |-> Timeline(kind, w)]
        <4>1. /\ q.range \in {"none"} \cup DOMAIN RangeWindow
              /\ answer' = [status |-> 200, window |-> w, series |-> series,
                            totals |-> [kind \in Kinds |-> Total(series[kind])]]
          BY <2>2, <3>3 DEF Query
        <4>2. q.end \in Int /\ start \in Int
          <5>1. CASE q.range = "none"
            BY <5>1, TimelinesAssumption DEF Queries
          <5>2. CASE q.range # "none"
            <6>1. q.range \in {"hour", "day", "week"} /\ q.end \in QueryTimes
              BY <4>1, <5>2 DEF Queries, RangeWindow
            <6>2. q.end \in Int /\ Hour \in Int /\ Day \in Int /\ Week \in Int
              <7>1. /\ QueryTimes \subseteq Int
                    /\ Hour \in Nat \ {0} /\ Day \in Nat \ {0} /\ Week \in Nat \ {0}
                BY TimelinesAssumption, Zenon
              <7>2. q.end \in Int
                BY <6>1, <7>1, Zenon
              <7>3. Hour \in Int /\ Day \in Int /\ Week \in Int
                BY <7>1
              <7> QED BY <7>2, <7>3
            <6>3. start = q.end - RangeWindow[q.range]
              BY <5>2
            <6>4. RangeWindow[q.range] \in Int
              BY <6>1, <6>2 DEF RangeWindow
            <6> QED BY <6>2, <6>3, <6>4
          <5> QED BY <5>1, <5>2
        <4> HIDE DEF start
        <4>3. ASSUME NEW kind \in Kinds
              PROVE  Total(series[kind]) = Cardinality(InWindow(kind, w))
          BY <4>2, TimelineCounts
        <4> HIDE DEF w, series
        <4>4. answer'.window = w /\ \A kind \in Kinds : answer'.totals[kind] = Total(series[kind])
          BY <4>1
        <4>5. \A kind \in Kinds : InWindow(kind, w)' = InWindow(kind, w)
          BY <3>1 DEF InWindow
        <4> QED BY <3>1, <4>3, <4>4, <4>5 DEF SeriesCountEveryJob, InWindow
      <3> QED BY <3>2, <3>3
    <2>3. CASE UNCHANGED timelinesVars
      BY <2>3 DEF timelinesVars, SeriesCountEveryJob, InWindow
    <2> QED BY <2>1, <2>2, <2>3 DEF TimelinesNext
  <1>3. TimelinesInv => SeriesCountEveryJob
    BY DEF TimelinesInv
  <1> QED BY <1>1, <1>2, <1>3, PTL DEF TimelinesSpec

-----------------------------------------------------------------------------
(* The analysis of the cluster: the deductions of a score without a        *)
(* recommendation, and the order of the partitions.                        *)

\* A set of naturals has a least element.
LEMMA LeastOfNaturals ==
    ASSUME NEW S \in SUBSET Nat, S # {}
    PROVE  \E m \in S : \A n \in S : m <= n
  <1>1. IsWellFoundedOn(OpToRel(<, Nat), Nat)
    BY NatLessThanWellFounded, Zenon
  <1> DEFINE less == OpToRel(<, Nat)
  <1>2. PICK m \in S : \A n \in S : <<n, m>> \notin less
    <2>1. IsWellFoundedOn(less, Nat)
      BY <1>1, Zenon
    <2> HIDE DEF less
    <2> QED BY <2>1, WFMin, Zenon
  <1>3. \A n \in S : ~(n < m)
    BY <1>2, Zenon DEF OpToRel
  <1>4. \A n \in S : m <= n
    BY <1>3
  <1> QED BY <1>4

\* The wait at a place of a history is one of its waits, and so a natural.
LEMMA RankedIsWait ==
    ASSUME NEW S, IsFiniteSet(S), NEW waits \in [S -> Nat],
           NEW place \in Nat, place < Cardinality(S)
    PROVE  Ranked(waits, place) \in Nat
  <1> DEFINE values == {waits[i] : i \in DOMAIN waits}
             upTo(m) == Cardinality({i \in DOMAIN waits : waits[i] <= m})
             enough == {m \in values : upTo(m) > place}
             bounds == {m \in Nat : \A i \in S : waits[i] <= m}
  <1>1. Total(waits) \in bounds
    BY TotalIsNat, TotalIsAbove
  <1>2. PICK top \in bounds : \A m \in bounds : top <= m
    <2>1. bounds \in SUBSET Nat /\ bounds # {}
      BY <1>1
    <2> HIDE DEF bounds
    <2> QED BY <2>1, LeastOfNaturals
  <1>3. top \in values
    <2> SUFFICES ASSUME top \notin values PROVE FALSE
      OBVIOUS
    <2>1. S # {}
      BY FS_EmptySet
    <2>2. \A i \in S : waits[i] < top
      <3>1. \A i \in S : waits[i] \in values
        OBVIOUS
      <3> QED BY <3>1
    <2>3. top - 1 \in bounds
      <3>1. PICK i \in S : TRUE
        BY <2>1
      <3>2. waits[i] \in Nat /\ waits[i] < top /\ top \in Nat
        BY <2>2
      <3> QED BY <2>2, <3>2
    <2> QED BY <1>2, <2>3
  <1>4. top \in enough
    <2>1. {i \in DOMAIN waits : waits[i] <= top} = S
      OBVIOUS
    <2> QED BY <1>3, <2>1, FS_CardinalityType
  <1>5. enough \in SUBSET Nat
    OBVIOUS
  <1>6. Ranked(waits, place) = CHOOSE m \in enough : \A n \in enough : m <= n
    BY DEF Ranked
  <1> HIDE DEF enough
  <1>7. \E m \in enough : \A n \in enough : m <= n
    BY <1>4, <1>5, LeastOfNaturals
  <1>8. Ranked(waits, place) \in enough
    BY <1>6, <1>7
  <1> QED BY <1>5, <1>8

JobStates == {"PENDING", "COMPLETING", "gone"}
WaitRecords == [samples : Nat, median : Nat \cup {NoValue}]

\* What the queue is, and what the handler may have read of it.
QueueStates == [DOMAIN QueueJobs -> JobStates]
ClusterStates == [DOMAIN Nodes -> NodeStates]

AnalysisTypeOK ==
    /\ queue \in QueueStates
    /\ nodes \in ClusterStates
    /\ read \in [jobs : QueueStates \cup {NoValue}, nodes : ClusterStates \cup {NoValue},
                 waits : WaitRecords \cup {NoValue}]
    /\ read.nodes # NoValue => read.jobs # NoValue
    /\ read.waits # NoValue => read.nodes # NoValue

AnalysisInv == AnalysisTypeOK /\ PressureIsExplained /\ WaitingIsShown

\* The median of the waits of a history is a number of seconds, if there is one.
LEMMA WaitStatsAreTyped ==
    ASSUME NEW h \in Histories
    PROVE  WaitStats(h) \in WaitRecords
  <1> DEFINE started == {i \in DOMAIN h : h[i].submit # NoValue /\ h[i].start # NoValue}
             wait(r) == IF r.start >= r.submit THEN r.start - r.submit ELSE 0
             waits == [i \in started |-> wait(h[i])]
             samples == Cardinality(started)
  <1>1. IsFiniteSet(DOMAIN h) /\ \A i \in DOMAIN h :
            h[i].submit \in Int \cup {NoValue} /\ h[i].start \in Int \cup {NoValue}
    BY AnalysisAssumption, Zenon
  <1>2. IsFiniteSet(started)
    BY <1>1, FS_Subset
  <1>3. samples \in Nat
    BY <1>2, FS_CardinalityType
  <1>4. waits \in [started -> Nat]
    <2>1. ASSUME NEW i \in started PROVE wait(h[i]) \in Nat
      BY <1>1
    <2> QED BY <2>1
  <1>5. CASE started = {}
    BY <1>5 DEF WaitStats, NoWaits, WaitRecords
  <1>6. CASE started # {}
    <2>1. samples # 0
      BY <1>2, <1>6, FS_EmptySet
    <2>2. (samples - 1) \div 2 \in Nat /\ (samples - 1) \div 2 < samples
      <3> HIDE DEF samples
      <3> QED BY <1>3, <2>1
    <2>3. Ranked(waits, (samples - 1) \div 2) \in Nat
      <3> DEFINE place == (samples - 1) \div 2
      <3>1. place \in Nat /\ place < Cardinality(started)
        BY <2>2
      <3> HIDE DEF place, started, waits
      <3>2. Ranked(waits, place) \in Nat
        BY <1>2, <1>4, <3>1, RankedIsWait
      <3> QED BY <3>2 DEF place
    <2>4. WaitStats(h) = [samples |-> samples, median |-> Ranked(waits, (samples - 1) \div 2)]
      BY <1>6, Zenon DEF WaitStats
    <2> HIDE DEF samples, started, waits
    <2> QED BY <1>3, <2>3, <2>4 DEF WaitRecords
  <1> QED BY <1>5, <1>6

\* The jobs of the queue are counted.
LEMMA QueueIsFinite ==
    ASSUME NEW js \in QueueStates, NEW p
    PROVE  /\ IsFiniteSet(Pending(js)) /\ IsFiniteSet(Running(js))
           /\ Cardinality(Pending(js)) \in Nat /\ Cardinality(Running(js)) \in Nat
           /\ Pending(js) \subseteq DOMAIN QueueJobs
  <1>1. Pending(js) \subseteq DOMAIN QueueJobs /\ Running(js) \subseteq DOMAIN QueueJobs
    BY DEF Pending, Running, QueueStates
  <1>2. IsFiniteSet(DOMAIN QueueJobs)
    BY AnalysisAssumption
  <1> QED BY <1>1, <1>2, FS_Subset, FS_CardinalityType

\* A score without a recommendation is the best or nearly so: jobs may wait, but not more
\* than run.
LEMMA LittleIsDeducted ==
    ASSUME NEW js \in QueueStates, NEW ns \in ClusterStates, NEW waits \in WaitRecords,
           Recommendations(js, ns, waits) = {}
    PROVE  Label(Score(js, ns, waits)) = "efficient"
  <1> DEFINE pending == Cardinality(Pending(js))
             running == Cardinality(Running(js))
             backlog == IF pending > running THEN 18 ELSE IF pending > 0 THEN 8 ELSE 0
             wait == IF waits.median = NoValue THEN 0
                     ELSE IF waits.median >= 3600 THEN 16 ELSE IF waits.median >= 1200 THEN 8 ELSE 0
             down == IF DOMAIN ns # {} /\ 100 * Cardinality(Down(ns)) >= 15 * Cardinality(DOMAIN ns)
                     THEN 10 ELSE 0
  <1>1. pending \in Nat /\ running \in Nat
    BY QueueIsFinite
  <1>2. /\ ~(pending > running)
        /\ ~(waits.median # NoValue /\ waits.median >= 1200)
        /\ Down(ns) = {}
    BY DEF Recommendations
  <1>3. backlog \in {0, 8}
    BY <1>2
  <1>4. wait = 0
    BY <1>2 DEF WaitRecords
  <1>5. down = 0
    <2>1. CASE DOMAIN ns = {}
      BY <2>1
    <2>2. CASE DOMAIN ns # {}
      <3>1. IsFiniteSet(DOMAIN ns)
        BY AnalysisAssumption DEF ClusterStates
      <3>2. Cardinality(DOMAIN ns) \in Nat /\ Cardinality(DOMAIN ns) # 0
        BY <2>2, <3>1, FS_CardinalityType, FS_EmptySet
      <3>3. Cardinality(Down(ns)) = 0
        BY <1>2, FS_EmptySet
      <3> QED BY <3>2, <3>3
    <2> QED BY <2>1, <2>2
  <1>6. Score(js, ns, waits) = 100 - backlog - wait - down
    BY DEF Score
  <1> HIDE DEF backlog, wait, down
  <1>7. Score(js, ns, waits) \in {92, 100}
    BY <1>3, <1>4, <1>5, <1>6
  <1> QED BY <1>7 DEF Label

\* What is known of the jobs that wait in a partition.
LEMMA PressureMeans ==
    ASSUME NEW js \in QueueStates, NEW ns, NEW p
    PROVE  /\ Pressure(p, js, ns).pendingJobs \in Nat
           /\ Pressure(p, js, ns).pendingCpu \in Nat
           /\ Pressure(p, js, ns).pendingJobs = 0 => Pressure(p, js, ns).pendingCpu = 0
  <1> DEFINE waiting == {j \in Pending(js) : QueueJobs[j].partition = p}
             cpus == [j \in waiting |-> QueueJobs[j].cpus]
  <1>1. IsFiniteSet(waiting) /\ Cardinality(waiting) \in Nat
    BY QueueIsFinite, FS_Subset, FS_CardinalityType
  <1>2. cpus \in [waiting -> Nat]
    BY QueueIsFinite, AnalysisAssumption
  <1>3. Pressure(p, js, ns).pendingJobs = Cardinality(waiting)
    BY DEF Pressure
  <1>4. Pressure(p, js, ns).pendingCpu = Total(cpus)
    BY DEF Pressure, Cpus
  <1> HIDE DEF waiting, cpus
  <1>5. Total(cpus) \in Nat
    BY <1>1, <1>2, TotalIsNat
  <1>6. ASSUME Cardinality(waiting) = 0 PROVE Total(cpus) = 0
    <2>1. waiting = {}
      BY <1>1, <1>6, FS_EmptySet
    <2>2. \A j \in waiting : cpus[j] = 0
      BY <2>1
    <2> QED BY <1>2, <2>2, TotalOfNone
  <1> QED BY <1>1, <1>3, <1>4, <1>5, <1>6

\* Every partition ahead of one where jobs wait is ahead of one where none does.
LEMMA WaitingIsAhead ==
    ASSUME NEW js \in QueueStates, NEW ns,
           NEW p \in Summaries(js, ns).cut, NEW q \in Summaries(js, ns).shown,
           p.pendingJobs > 0
    PROVE  q.pendingJobs > 0
  <1> DEFINE known == {i \in DOMAIN Partitions : Known(Partitions[i], js, ns)}
             all == [i \in known |-> Pressure(Partitions[i], js, ns)]
             ahead(i) == {k \in known : Before(all[k], all[i], k, i)}
  <1>1. Summaries(js, ns) =
            [shown |-> {all[i] : i \in {i \in known : Cardinality(ahead(i)) < PressureLimit}},
             cut |-> {all[i] : i \in {i \in known : Cardinality(ahead(i)) >= PressureLimit}}]
    BY DEF Summaries
  <1>2. ASSUME NEW i \in known
        PROVE  /\ all[i].pendingJobs \in Nat /\ all[i].pendingCpu \in Nat
               /\ all[i].pendingJobs = 0 => all[i].pendingCpu = 0
    <2>1. all[i] = Pressure(Partitions[i], js, ns)
      OBVIOUS
    <2> HIDE DEF known, all
    <2> QED BY <2>1, PressureMeans
  <1>3. IsFiniteSet(known)
    BY AnalysisAssumption, FS_Subset
  <1>4. ASSUME NEW i \in known PROVE IsFiniteSet(ahead(i)) /\ Cardinality(ahead(i)) \in Nat
    <2>1. ahead(i) \subseteq known
      OBVIOUS
    <2> HIDE DEF known, ahead
    <2> QED BY <1>3, <2>1, FS_Subset, FS_CardinalityType
  <1> HIDE DEF known, all
  <1>5. PICK i \in known : p = all[i] /\ Cardinality(ahead(i)) >= PressureLimit
    <2> HIDE DEF ahead
    <2>1. p \in {all[i] : i \in {i \in known : Cardinality(ahead(i)) >= PressureLimit}}
      BY <1>1
    <2> QED BY <2>1
  <1>6. PICK k \in known : q = all[k] /\ Cardinality(ahead(k)) < PressureLimit
    <2> HIDE DEF ahead
    <2>1. q \in {all[j] : j \in {j \in known : Cardinality(ahead(j)) < PressureLimit}}
      BY <1>1
    <2> QED BY <2>1
  <1> SUFFICES ASSUME q.pendingJobs = 0 PROVE FALSE
    BY <1>2, <1>6
  <1>7. ahead(i) \subseteq ahead(k)
    <2> SUFFICES ASSUME NEW x \in known, Before(all[x], all[i], x, i)
                 PROVE  Before(all[x], all[k], x, k)
      OBVIOUS
    <2>1. /\ all[x].pendingJobs \in Nat /\ all[x].pendingCpu \in Nat
          /\ all[i].pendingJobs \in Nat /\ all[i].pendingCpu \in Nat /\ all[i].pendingJobs > 0
          /\ all[k].pendingJobs = 0 /\ all[k].pendingCpu = 0
      BY <1>2, <1>5, <1>6
    <2>2. all[x].pendingCpu > 0 \/ all[x].pendingJobs > 0
      BY <2>1 DEF Before
    <2> QED BY <2>1, <2>2 DEF Before
  <1> HIDE DEF ahead
  <1>8. Cardinality(ahead(i)) <= Cardinality(ahead(k))
    BY <1>4, <1>7, FS_Subset
  <1> QED BY <1>4, <1>5, <1>6, <1>8, AnalysisAssumption

\* What is read is what the queue and the nodes were.
LEMMA AnalysisStep ==
    ASSUME AnalysisInv, [AnalysisNext]_analysisVars
    PROVE  AnalysisInv'
  <1> USE DEF AnalysisInv
  <1>1. ASSUME NEW j \in DOMAIN QueueJobs, JobMoves(j) PROVE AnalysisInv'
    <2>1. queue' \in QueueStates
      BY <1>1 DEF JobMoves, AnalysisTypeOK, QueueStates, JobStates
    <2> QED BY <1>1, <2>1 DEF JobMoves, AnalysisTypeOK, PressureIsExplained, WaitingIsShown
  <1>2. ASSUME NEW n \in DOMAIN Nodes, NodeChanges(n) PROVE AnalysisInv'
    <2>1. nodes' \in ClusterStates
      <3>1. PICK flags \in NodeStates : nodes' = [nodes EXCEPT ![n] = flags]
        BY <1>2, Zenon DEF NodeChanges
      <3> HIDE DEF AnalysisInv
      <3>2. nodes \in [DOMAIN Nodes -> NodeStates]
        BY DEF AnalysisInv, AnalysisTypeOK, ClusterStates
      <3> QED BY <3>1, <3>2 DEF ClusterStates
    <2> QED BY <1>2, <2>1 DEF NodeChanges, AnalysisTypeOK, PressureIsExplained, WaitingIsShown
  <1>3. CASE ReadQueue
    BY <1>3 DEF ReadQueue, AnalysisTypeOK, PressureIsExplained, WaitingIsShown, NoReport
  <1>4. CASE ReadNodes
    BY <1>4 DEF ReadNodes, AnalysisTypeOK, PressureIsExplained, WaitingIsShown
  <1>5. CASE ReadHistory
    <2>1. PICK waits \in {WaitStats(h) : h \in Histories} \cup {NoWaits} :
              read' = [read EXCEPT !.waits = waits]
      BY <1>5, Zenon DEF ReadHistory
    <2>2. waits \in WaitRecords
      BY <2>1, WaitStatsAreTyped DEF NoWaits, WaitRecords
    <2> QED BY <1>5, <2>1, <2>2
            DEF ReadHistory, AnalysisTypeOK, PressureIsExplained, WaitingIsShown
  <1>6. CASE Answer
    <2> DEFINE js == read.jobs
               ns == read.nodes
               waits == read.waits
    <2>1. js \in QueueStates /\ ns \in ClusterStates /\ waits \in WaitRecords
      BY <1>6 DEF Answer, AnalysisTypeOK
    <2>2. /\ queue' = queue /\ nodes' = nodes /\ read' = Nothing
          /\ report'.label = Label(Score(js, ns, waits))
          /\ report'.partitions = Summaries(js, ns)
          /\ report'.recommendations = Recommendations(js, ns, waits)
      BY <1>6 DEF Answer
    <2>3. AnalysisTypeOK'
      BY <2>2 DEF AnalysisTypeOK, Nothing
    <2>4. PressureIsExplained'
      <3> HIDE DEF js, ns, waits
      <3> QED BY <2>1, <2>2, LittleIsDeducted DEF PressureIsExplained
    <2>5. WaitingIsShown'
      <3> HIDE DEF js, ns, waits
      <3> QED BY <2>1, <2>2, WaitingIsAhead DEF WaitingIsShown
    <2> QED BY <2>3, <2>4, <2>5
  <1>7. CASE AnalysisFails
    BY <1>7 DEF AnalysisFails, AnalysisTypeOK, PressureIsExplained, WaitingIsShown, Error, Nothing
  <1>8. CASE UNCHANGED analysisVars
    BY <1>8 DEF analysisVars, AnalysisTypeOK, PressureIsExplained, WaitingIsShown
  <1> QED BY <1>1, <1>2, <1>3, <1>4, <1>5, <1>6, <1>7, <1>8, Zenon DEF AnalysisNext

LEMMA AnalysisInvHolds == AnalysisSpec => []AnalysisInv
  <1>1. AnalysisInit => AnalysisInv
    BY DEF AnalysisInit, AnalysisInv, AnalysisTypeOK, PressureIsExplained, WaitingIsShown,
           NoReport, Nothing, QueueStates, JobStates, ClusterStates, NodeStates
  <1> QED BY <1>1, AnalysisStep, PTL DEF AnalysisSpec

\* PressureIsExplained holds: a score that is not labelled efficient comes with a
\* recommendation, whatever jobs, nodes and waits the handler has read.
THEOREM PressureExplained == AnalysisSpec => []PressureIsExplained
  <1>1. AnalysisInv => PressureIsExplained
    BY DEF AnalysisInv
  <1> QED BY <1>1, AnalysisInvHolds, PTL

\* WaitingIsShown holds: the limit of the partitions shown never hides one where jobs
\* wait behind one where none does, for any number of partitions and any limit.
THEOREM WaitingShown == AnalysisSpec => []WaitingIsShown
  <1>1. AnalysisInv => WaitingIsShown
    BY DEF AnalysisInv
  <1> QED BY <1>1, AnalysisInvHolds, PTL
=============================================================================
