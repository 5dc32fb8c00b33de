----------------------------- MODULE DataPoller -----------------------------
(***************************************************************************)
(* useClusterDataPoller (frontend/src/composables/DataPoller.ts): a mounted *)
(* view asks the gateway for the data of its target again and again, pauses *)
(* while the page is hidden or a text input has the focus, and starts over  *)
(* when the target changes.                                                 *)
(*                                                                          *)
(* An action is one task of the browser with the microtasks it leaves: an   *)
(* aborted request and the code awaiting it are over when its task is.      *)
(***************************************************************************)
EXTENDS Integers

CONSTANTS
    Targets,    \* cluster, callback and parameter of a poller, as one value
    MaxVersion, \* bound: changes of the data on the server
    MaxLost     \* bound: timers running whose handle was overwritten

ASSUME DataPollerAssumption == MaxVersion \in Nat /\ MaxLost \in Nat

VARIABLES
    view,     \* "created", "mounted" or "gone"
    hidden,   \* document.hidden
    typing,   \* isTextInputActive()
    target,   \* cluster, callback, otherParam
    stopped,  \* _stop
    request,  \* the request awaited by poll(), or NoRequest: _polling is FALSE
    timer,    \* the timer that _timeout names is running
    lost,     \* number of running timers that _timeout no longer names
    data,     \* data.value, or NoData
    loaded, initialLoading, unable,
    server,   \* version of the data on the server
    joined,   \* history: a start() or refresh() found a poll() under way
    due       \* history: version on the server at the last refresh() that asked,
              \* until the target changes or a request is aborted or fails

shown == <<data, loaded, initialLoading, unable>>
vars == <<view, hidden, typing, target, stopped, request, timer, lost, shown,
          server, joined, due>>

Versions == 0..MaxVersion
NoVersion == -1
NoRequest == [caller |-> "none"]
NoData == [version |-> NoVersion]
Callers == {"start", "refresh"}
Requests == [caller : Callers, target : Targets, version : Versions \cup {NoVersion}]
Answers == [target : Targets, version : Versions]
Polling == request # NoRequest

Init ==
    /\ view = "created"
    /\ hidden \in BOOLEAN /\ typing \in BOOLEAN
    /\ target \in Targets
    /\ stopped = FALSE
    /\ request = NoRequest
    /\ timer = FALSE /\ lost = 0
    /\ data = NoData
    /\ loaded = FALSE /\ initialLoading = TRUE /\ unable = FALSE
    /\ server = 0
    /\ joined = FALSE /\ due = 0

-----------------------------------------------------------------------------
(* The pieces the tasks are made of, which begin with what the page and the *)
(* target have become.                                                      *)

\* poll() past its first test, up to the await.
Ask(caller) ==
    /\ request' = [caller |-> caller, target |-> target', version |-> NoVersion]
    /\ initialLoading' = ~loaded'
    /\ unable' = FALSE

Quiet == UNCHANGED <<request, initialLoading, unable>>

\* window.setTimeout() into _timeout: a timer it named before runs on.
Arm(running, others) ==
    /\ timer' = TRUE
    /\ lost' = IF running THEN others + 1 ELSE others

\* Faulty variant: start() does not look at document.hidden.
StartIdleHidden(others, loading, failed) ==
    /\ stopped' = FALSE
    /\ lost' = others
    /\ timer' = typing
    /\ \/ /\ typing
          /\ request' = request /\ initialLoading' = loading /\ unable' = failed
       \/ ~typing /\ Ask("start")
    /\ UNCHANGED joined

\* start() with no poll() under way, `others` timers besides the tracked one,
\* which it clears, and what is shown at the call.
StartIdle(others, loading, failed) ==
    /\ stopped' = hidden'
    /\ lost' = others
    /\ timer' = (~hidden' /\ typing)
    /\ \/ /\ hidden' \/ typing
          /\ request' = request /\ initialLoading' = loading /\ unable' = failed
       \/ ~hidden' /\ ~typing /\ Ask("start")
    /\ UNCHANGED joined

\* start() while another call awaits its poll(): poll() returns at once.
StartPolling(others) ==
    /\ Polling
    /\ lost < MaxLost
    /\ stopped' = hidden'
    /\ timer' = ~hidden' /\ lost' = others
    /\ joined' = (joined \/ ~hidden')
    /\ Quiet

Start(others) ==
    \/ ~Polling /\ StartIdle(others, initialLoading, unable)
    \/ StartPolling(others)

-----------------------------------------------------------------------------
(* Life of the view.                                                        *)

Mount ==
    /\ view = "created"
    /\ view' = "mounted"
    /\ UNCHANGED <<hidden, typing, target, data, loaded, server, due>>
    /\ StartIdle(lost, initialLoading, unable)

\* Faulty variant: stop() does not clear the timer.
StopRequest ==
    /\ stopped' = TRUE
    /\ timer' = timer
    /\ request' = NoRequest
    /\ \/ Polling /\ initialLoading' = FALSE /\ due' = 0
       \/ ~Polling /\ UNCHANGED <<initialLoading, due>>
    /\ UNCHANGED <<lost, data, loaded, unable, joined>>

\* stop(): the request under way fails as canceled, and nothing is armed again.
StopAll ==
    /\ stopped' = TRUE
    /\ timer' = FALSE
    /\ request' = NoRequest
    /\ \/ Polling /\ initialLoading' = FALSE /\ due' = 0
       \/ ~Polling /\ UNCHANGED <<initialLoading, due>>
    /\ UNCHANGED <<lost, data, loaded, unable, joined>>

Unmount ==
    /\ view = "mounted"
    /\ view' = "gone"
    /\ StopAll
    /\ UNCHANGED <<hidden, typing, target, server>>

\* handleVisibilityChange(), for a mounted view only.
Hide ==
    /\ ~hidden
    /\ hidden' = TRUE
    /\ \/ view = "mounted" /\ StopAll
       \/ /\ view # "mounted"
          /\ UNCHANGED <<stopped, request, timer, lost, shown, joined, due>>
    /\ UNCHANGED <<view, typing, target, server>>

Show ==
    /\ hidden
    /\ hidden' = FALSE
    /\ UNCHANGED <<view, typing, target, data, loaded, server, due>>
    /\ \/ view = "mounted" /\ Start(lost)
       \/ view # "mounted" /\ Quiet /\ UNCHANGED <<stopped, timer, lost, joined>>

FocusOrBlur ==
    /\ typing' = ~typing
    /\ UNCHANGED <<view, hidden, target, stopped, request, timer, lost, shown,
                   server, joined, due>>

-----------------------------------------------------------------------------
(* Timers and answers.                                                      *)

TimerFires ==
    /\ timer
    /\ UNCHANGED <<view, hidden, typing, target, data, loaded, server, due>>
    /\ Start(lost)

LostTimerFires ==
    /\ lost > 0
    /\ UNCHANGED <<view, hidden, typing, target, data, loaded, server, due>>
    /\ Start(lost - 1)

\* The gateway reads what the request asks for.
Read ==
    /\ Polling /\ request.version = NoVersion
    /\ request' = [request EXCEPT !.version = server]
    /\ UNCHANGED <<view, hidden, typing, target, stopped, timer, lost, shown,
                   server, joined, due>>

\* Faulty variant: refresh() does not arm the timer it cleared.
ResumeStart(caller) ==
    IF caller = "start" THEN Arm(timer, lost) ELSE UNCHANGED <<timer, lost>>

\* What the call that awaited poll() does next.
Resume(caller) ==
    IF caller = "start" \/ ~hidden THEN Arm(timer, lost) ELSE UNCHANGED <<timer, lost>>

Settle ==
    /\ Polling
    /\ request' = NoRequest
    /\ initialLoading' = FALSE
    /\ UNCHANGED <<view, hidden, typing, target, server, joined>>

\* poll() gets an answer, and assignDataIfChanged() keeps it.
Answered ==
    /\ Settle
    /\ request.version # NoVersion
    /\ data' = [target |-> request.target, version |-> request.version]
    /\ loaded' = TRUE
    /\ IF stopped THEN UNCHANGED <<timer, lost>> ELSE Resume(request.caller)
    /\ UNCHANGED <<stopped, unable, due>>

\* A server error is shown; an expired session is not, and leads to signout.
Failed ==
    /\ Settle
    /\ unable' \in BOOLEAN
    /\ due' = 0
    /\ IF stopped THEN UNCHANGED <<timer, lost>> ELSE Resume(request.caller)
    /\ UNCHANGED <<stopped, data, loaded>>

\* reportPermissionError() and stop().
Refused ==
    /\ Settle
    /\ unable' = TRUE
    /\ stopped' = TRUE
    /\ timer' = FALSE
    /\ due' = 0
    /\ UNCHANGED <<lost, data, loaded>>

-----------------------------------------------------------------------------
(* Calls of the view.                                                       *)

\* Faulty variant: resetData() is left out.
ForgetLoaded ==
    /\ loaded' = FALSE
    /\ due' = 0
    /\ UNCHANGED data

Forget ==
    /\ data' = NoData
    /\ loaded' = FALSE
    /\ due' = 0

\* setCluster(), setCallback() or setParam(): stop(), then start() in the same
\* task.  Its poll() returns at once when the aborted one is not over, and both
\* calls of start() then arm a timer.
SetTarget(t) ==
    /\ view = "mounted" /\ t # target
    /\ target' = t
    /\ Forget
    /\ UNCHANGED <<view, hidden, typing, server>>
    /\ \/ ~Polling /\ StartIdle(lost, TRUE, FALSE)
       \/ /\ Polling
          /\ initialLoading' = FALSE /\ unable' = FALSE
          /\ request' = NoRequest
          /\ stopped' = hidden
          /\ \/ hidden /\ timer' = FALSE /\ UNCHANGED <<lost, joined>>
             \/ ~hidden /\ lost < MaxLost /\ Arm(TRUE, lost) /\ joined' = TRUE

\* Faulty variant: refresh() asks only when no text input has the focus.
RefreshUnlessTyping ==
    /\ view = "mounted" /\ ~Polling
    /\ UNCHANGED <<view, hidden, typing, target, data, loaded, server, lost, joined>>
    /\ stopped' = FALSE
    /\ due' = server
    /\ \/ typing /\ timer' = TRUE /\ Quiet
       \/ ~typing /\ timer' = FALSE /\ Ask("refresh")

\* refresh(): asks even while a text input has the focus, unless a poll() is
\* under way.
Refresh ==
    /\ view = "mounted"
    /\ UNCHANGED <<view, hidden, typing, target, data, loaded, server>>
    /\ stopped' = FALSE
    /\ \/ /\ ~Polling
          /\ timer' = FALSE
          /\ due' = server
          /\ Ask("refresh")
          /\ UNCHANGED <<lost, joined>>
       \/ /\ Polling /\ lost < MaxLost
          /\ timer' = ~hidden
          /\ joined' = TRUE
          /\ Quiet /\ UNCHANGED <<lost, due>>

\* A write operation of the view, or of anyone else.
Write ==
    /\ server < MaxVersion
    /\ server' = server + 1
    /\ UNCHANGED <<view, hidden, typing, target, stopped, request, timer, lost, shown,
                   joined, due>>

Next ==
    \/ Mount \/ Unmount \/ Hide \/ Show \/ FocusOrBlur
    \/ TimerFires \/ LostTimerFires
    \/ Read \/ Answered \/ Failed \/ Refused
    \/ \E t \in Targets : SetTarget(t)
    \/ Refresh \/ Write

Spec == Init /\ [][Next]_vars

\* Timers fire and requests are answered, fail or time out.
Fairness ==
    /\ WF_vars(TimerFires)
    /\ WF_vars(Read)
    /\ WF_vars(Answered \/ Failed \/ Refused)

FairSpec == Spec /\ Fairness

-----------------------------------------------------------------------------
(* Properties.                                                              *)

TypeOK ==
    /\ view \in {"created", "mounted", "gone"}
    /\ hidden \in BOOLEAN /\ typing \in BOOLEAN /\ stopped \in BOOLEAN
    /\ target \in Targets
    /\ request \in Requests \cup {NoRequest}
    /\ timer \in BOOLEAN /\ lost \in 0..MaxLost
    /\ data \in Answers \cup {NoData}
    /\ loaded \in BOOLEAN /\ initialLoading \in BOOLEAN /\ unable \in BOOLEAN
    /\ server \in Versions
    /\ joined \in BOOLEAN /\ due \in Versions

\* A view never shows the data of a target it has left: changing the target
\* resets the data and aborts the request, whose answer could come later
\* (resetData() and stop() in setCluster(), setCallback() and setParam()).
DataIsOfTarget == data # NoData => data.target = target

\* A hidden page only asks when its user code calls refresh(): the timers that
\* survive a change of target find document.hidden in start() (polling pauses
\* while the page is hidden).
HiddenPageIsQuiet ==
    view = "mounted" /\ hidden /\ Polling => request.caller = "refresh"

\* A view that is gone asks no more, unless start() or refresh() was called
\* while a poll() was under way: two timers then ran and stop() clears one.
GoneMeansQuiet == view = "gone" /\ ~joined => ~Polling

\* A mounted, visible view keeps asking while no text input has the focus,
\* whatever happened before: stopping, failing, joining or losing timers never
\* ends the polling, except when the gateway refuses the permission.
KeepsPolling ==
    <>[](view = "mounted" /\ ~hidden /\ ~typing /\ ~stopped) => []<>Polling

\* A refresh() that finds no request under way shows the writes before it, even
\* while a text input has the focus: once its request is answered, what is shown
\* is never older (refresh() after the write operations of a view).
RefreshShowsWrites == ~Polling /\ data # NoData => data.version >= due
=============================================================================
