------------------------------ MODULE TimerList ------------------------------
(***************************************************************************)
(* The timers of the Windows applications (src/mesh_client_lib/wiced_main.c): *)
(* a list sorted by expiry that the threads of the application change under *)
(* a lock, and the timer thread, which looks at the head without the lock,  *)
(* sleeps, and takes the lock to expire one timer.  Callbacks are posted to *)
(* the message queue of the user interface and run there later.             *)
(*                                                                         *)
(* Time is a count of milliseconds; GetTickCount() returns it modulo Word.  *)
(* Left out: wiced_init_timer on a timer that is still listed, which no     *)
(* caller does, and torn reads of the 64-bit target_time.                   *)
(***************************************************************************)
EXTENDS Integers, Sequences

CONSTANTS
    Timers,      \* the initialised timers
    Periodic,    \* those of a periodic type
    Timeouts,    \* the timeouts they are started with, in milliseconds
    Word,        \* 2^32, the range of the tick count
    MaxSleep,    \* the sleep with an empty list, one minute
    MaxTime,     \* bound on the time
    MaxStarts,   \* bound on the calls of wiced_start_timer
    MaxPosts     \* bound on the messages that wait in the message queue

ASSUME TimerAssumption ==
    /\ Periodic \subseteq Timers
    /\ Word \in Nat \ {0}
    /\ Timeouts \subseteq 1 .. (Word - 1)
    /\ MaxSleep \in 1 .. (Word - 1)
    /\ MaxTime \in Nat /\ MaxStarts \in Nat /\ MaxPosts \in Nat

VARIABLES
    now,         \* milliseconds since the start of the system
    absTimeHi,   \* the upper word of the time, kept by the timer thread
    list,        \* pOsTimerHead and what follows it
    target,      \* target_time of every timer
    interval,    \* interval of every timer
    event,       \* sleepHandle, an event that resets itself
    thread,      \* the timer thread: its place and its local variables
    posts,       \* the WM_TIMER_CALLBACK messages not yet handled
    due,         \* history: when the timer should expire
    inStep,      \* history: absTimeHi was up to date when it was started
    owed,        \* history: it was started and has not expired or been stopped since
    starts       \* number of calls of wiced_start_timer

timer == <<list, target, interval, event>>
hist  == <<due, inStep, owed>>
vars  == <<now, absTimeHi, list, target, interval, event, thread, posts,
           due, inStep, owed, starts>>

None == [timer |-> "none"]

\* What the thread remembers of the timer it expired: which one, and for the
\* properties how late it is, whether it was started in step and whether it was owed.
Fired(t) == [timer |-> t, late |-> now - due[t], inStep |-> inStep[t], owed |-> owed[t]]
NoFired  == [timer |-> "none", late |-> 0, inStep |-> TRUE, owed |-> TRUE]

Places == {"none", "top", "compare", "subtract", "wait", "lock", "post", "crashed"}

\* GetTickCount()
Tick32(t) == t % Word

\* The upper word absTimeHi stands for.
HighWord(t) == t - Tick32(t)

\* target_time of a timer started now.  Its second line is the check for a
\* rollover of the sum.
TargetNoRollover(hi, timeout) == hi + Tick32(Tick32(now) + timeout)

TargetTime(hi, timeout) ==
    hi + Tick32(Tick32(now) + timeout)
       + (IF Tick32(now) + timeout >= Word THEN Word ELSE 0)

-----------------------------------------------------------------------------
(* The list                                                                *)

\* The list without the timer; wiced_stop_timer unlinks the first match.
Unlinked(l, t) ==
    IF \A i \in DOMAIN l : l[i] # t THEN l
    ELSE LET at == CHOOSE i \in DOMAIN l : l[i] = t /\ \A j \in 1 .. (i - 1) : l[j] # t
         IN  [i \in 1 .. (Len(l) - 1) |-> IF i < at THEN l[i] ELSE l[i + 1]]

\* The list with the timer before the first one that expires later than x.
Linked(l, t, x) ==
    LET later == {i \in DOMAIN l : target[l[i]] > x}
        at    == IF later = {} THEN Len(l) + 1
                 ELSE CHOOSE i \in later : \A j \in later : i <= j
    IN  [i \in 1 .. (Len(l) + 1) |->
            IF i < at THEN l[i] ELSE IF i = at THEN t ELSE l[i - 1]]

\* Mutant of StartTimer: the timer is not stopped first.
StartTimerTwice(t, timeout, hi) ==
    LET x == TargetTime(hi, timeout)
    IN  /\ list'     = Linked(list, t, x)
        /\ target'   = [target EXCEPT ![t] = x]
        /\ interval' = [interval EXCEPT ![t] = timeout]
        /\ event'    = TRUE
        /\ due'      = [due EXCEPT ![t] = now + timeout]
        /\ inStep'   = [inStep EXCEPT ![t] = (hi = HighWord(now))]
        /\ owed'     = [owed EXCEPT ![t] = TRUE]

\* Mutant of StartTimer: the timer thread is not told.
StartTimerSilently(t, timeout, hi) ==
    LET x == TargetTime(hi, timeout)
    IN  /\ list'     = Linked(Unlinked(list, t), t, x)
        /\ target'   = [target EXCEPT ![t] = x]
        /\ interval' = [interval EXCEPT ![t] = timeout]
        /\ event'    = event
        /\ due'      = [due EXCEPT ![t] = now + timeout]
        /\ inStep'   = [inStep EXCEPT ![t] = (hi = HighWord(now))]
        /\ owed'     = [owed EXCEPT ![t] = TRUE]

\* wiced_start_timer, inside the lock.
StartTimer(t, timeout, hi) ==
    LET x == TargetTime(hi, timeout)
    IN  /\ list'     = Linked(Unlinked(list, t), t, x)
        /\ target'   = [target EXCEPT ![t] = x]
        /\ interval' = [interval EXCEPT ![t] = timeout]
        /\ event'    = TRUE
        /\ due'      = [due EXCEPT ![t] = now + timeout]
        /\ inStep'   = [inStep EXCEPT ![t] = (hi = HighWord(now))]
        /\ owed'     = [owed EXCEPT ![t] = TRUE]

\* wiced_stop_timer, inside the lock.
StopTimer(t) ==
    /\ list'  = Unlinked(list, t)
    /\ event' = TRUE
    /\ owed'  = [owed EXCEPT ![t] = FALSE]
    /\ UNCHANGED <<target, interval, due, inStep>>

Init ==
    /\ now = 0
    /\ absTimeHi = 0
    /\ list = <<>>
    /\ target = [t \in Timers |-> 0]
    /\ interval = [t \in Timers |-> 0]
    /\ event = FALSE
    /\ thread = [pc |-> "none", last |-> 0, seen |-> None, sleep |-> 0, wake |-> 0, fired |-> NoFired, at |-> 0]
    /\ posts = <<>>
    /\ due = [t \in Timers |-> 0]
    /\ inStep = [t \in Timers |-> TRUE]
    /\ owed = [t \in Timers |-> FALSE]
    /\ starts = 0

-----------------------------------------------------------------------------
(* The threads of the application                                          *)

\* Time is counted from the last rollover before the first timer is started.
Tick ==
    /\ now < MaxTime
    /\ thread.pc = "none" => now + 1 < Word
    /\ now' = now + 1
    /\ UNCHANGED <<absTimeHi, timer, thread, posts, hist, starts>>

\* The first call creates the timer thread.
Start(t) ==
    /\ starts < MaxStarts
    /\ \E timeout \in Timeouts : StartTimer(t, timeout, absTimeHi)
    /\ thread' = IF thread.pc = "none" THEN [thread EXCEPT !.pc = "top"] ELSE thread
    /\ starts' = starts + 1
    /\ UNCHANGED <<now, absTimeHi, posts>>

\* Before the first start there is nothing to stop.
Stop(t) ==
    /\ thread.pc # "none"
    /\ StopTimer(t)
    /\ UNCHANGED <<now, absTimeHi, thread, posts, starts>>

\* The user interface takes a message and runs the callback; what the callback
\* does with timers is a Start or Stop that follows.
OnTimerCallback ==
    /\ posts # <<>>
    /\ posts' = Tail(posts)
    /\ UNCHANGED <<now, absTimeHi, timer, thread, hist, starts>>

-----------------------------------------------------------------------------
(* The timer thread                                                        *)

\* Mutant of Look: the tick count kept with more than 32 bits.
LookWide ==
    /\ thread.pc = "top"
    /\ thread' = [thread EXCEPT
                     !.last = now, !.at = now,
                     !.seen = IF list = <<>> THEN None ELSE [timer |-> Head(list)],
                     !.pc   = IF list = <<>> THEN "wait" ELSE "compare",
                     !.sleep = IF list = <<>> THEN MaxSleep ELSE @,
                     !.wake = IF list = <<>> THEN now + MaxSleep ELSE @]
    /\ UNCHANGED <<now, absTimeHi, timer, posts, hist, starts>>

\* The tick count and the first look at the head of the list, without the lock.
Look ==
    /\ thread.pc = "top"
    /\ thread' = [thread EXCEPT
                     !.last = Tick32(now), !.at = now,
                     !.seen = IF list = <<>> THEN None ELSE [timer |-> Head(list)],
                     !.pc   = IF list = <<>> THEN "wait" ELSE "compare",
                     !.sleep = IF list = <<>> THEN MaxSleep ELSE @,
                     !.wake = IF list = <<>> THEN now + MaxSleep ELSE @]
    /\ UNCHANGED <<now, absTimeHi, timer, posts, hist, starts>>

\* The head as the compiled code has it: the value read before, or read again.
HeadNow == IF list = <<>> THEN None ELSE [timer |-> Head(list)]

\* if (pOsTimerHead->target_time < cur_absTime)
Compare ==
    /\ thread.pc = "compare"
    /\ \E h \in {thread.seen, HeadNow} :
         thread' =
           IF h = None THEN [thread EXCEPT !.pc = "crashed"]
           ELSE IF target[h.timer] < absTimeHi + thread.last
                THEN [thread EXCEPT !.pc = "lock", !.seen = None]
                ELSE [thread EXCEPT !.pc = "subtract", !.seen = h]
    /\ UNCHANGED <<now, absTimeHi, timer, posts, hist, starts>>

\* sleep_time = (UINT32)(pOsTimerHead->target_time - cur_absTime)
Subtract ==
    /\ thread.pc = "subtract"
    /\ \E h \in {thread.seen, HeadNow} :
         thread' =
           IF h = None THEN [thread EXCEPT !.pc = "crashed"]
           ELSE LET sleep == Tick32(target[h.timer] - (absTimeHi + thread.last))
                IN  [thread EXCEPT !.pc = IF sleep = 0 THEN "lock" ELSE "wait",
                                   !.seen = None, !.sleep = sleep, !.wake = now + sleep]
    /\ UNCHANGED <<now, absTimeHi, timer, posts, hist, starts>>

\* Mutant of Wake: the thread sleeps until it is told.
WakeWhenTold ==
    /\ thread.pc = "wait"
    /\ event
    /\ event' = FALSE
    /\ thread' = [thread EXCEPT !.pc = "lock", !.sleep = 0, !.wake = 0]
    /\ UNCHANGED <<now, absTimeHi, list, target, interval, posts, hist, starts>>

\* WaitForSingleObject(sleepHandle, sleep_time)
Wake ==
    /\ thread.pc = "wait"
    /\ event \/ now >= thread.wake
    /\ event' = FALSE
    /\ thread' = [thread EXCEPT !.pc = "lock", !.sleep = 0, !.wake = 0]
    /\ UNCHANGED <<now, absTimeHi, list, target, interval, posts, hist, starts>>

\* The check for a rollover of the tick count since the thread last looked.
Rollover == IF Tick32(now) < thread.last THEN Word ELSE 0

\* Mutant of Expire: a timer that expired stays in the list.
ExpireAndKeep ==
    /\ thread.pc = "lock"
    /\ absTimeHi' = absTimeHi + Rollover
    /\ IF list # <<>> /\ target[Head(list)] <= absTimeHi' + Tick32(now)
       THEN /\ thread' = [thread EXCEPT !.pc = "post", !.fired = Fired(Head(list)), !.at = now]
            /\ owed' = [owed EXCEPT ![Head(list)] = FALSE]
            /\ UNCHANGED <<list, target, interval, event, due, inStep>>
       ELSE /\ thread' = [thread EXCEPT !.pc = "top", !.at = now]
            /\ UNCHANGED <<list, target, interval, event, hist>>
    /\ UNCHANGED <<now, posts, starts>>

\* The section inside the lock.
Expire ==
    /\ thread.pc = "lock"
    /\ absTimeHi' = absTimeHi + Rollover
    /\ IF list # <<>> /\ target[Head(list)] <= absTimeHi' + Tick32(now)
       THEN LET t == Head(list)
            IN  /\ IF t \in Periodic THEN StartTimer(t, interval[t], absTimeHi') ELSE StopTimer(t)
                /\ thread' = [thread EXCEPT !.pc = "post", !.fired = Fired(t), !.at = now]
       ELSE /\ thread' = [thread EXCEPT !.pc = "top", !.at = now]
            /\ UNCHANGED <<list, target, interval, event, hist>>
    /\ UNCHANGED <<now, posts, starts>>

\* execute_timer_callback posts a message, after the lock was released.
Post ==
    /\ thread.pc = "post"
    /\ Len(posts) < MaxPosts
    /\ posts' = Append(posts, thread.fired.timer)
    /\ thread' = [thread EXCEPT !.pc = "top", !.fired = NoFired]
    /\ UNCHANGED <<now, absTimeHi, timer, hist, starts>>

ThreadStep == Look \/ Compare \/ Subtract \/ Wake \/ Expire \/ Post

Next ==
    \/ Tick
    \/ \E t \in Timers : Start(t) \/ Stop(t)
    \/ OnTimerCallback
    \/ ThreadStep

Spec == Init /\ [][Next]_vars

\* The timer thread is always scheduled, the message loop runs, time passes.
Fairness ==
    /\ WF_vars(Tick)
    /\ WF_vars(ThreadStep)
    /\ WF_vars(OnTimerCallback)

FairSpec == Spec /\ Fairness

-----------------------------------------------------------------------------
(* Properties                                                              *)

Listed(t) == \E i \in DOMAIN list : list[i] = t

\* The type invariant: every timer of the list is an initialised one, and what the
\* thread remembers of the tick count has 32 bits.
TypeOK ==
    /\ now \in 0 .. MaxTime
    /\ absTimeHi \in Nat
    /\ list \in Seq(Timers)
    /\ target \in [Timers -> Nat] /\ due \in [Timers -> Nat]
    /\ interval \in [Timers -> {0} \cup Timeouts]
    /\ event \in BOOLEAN /\ inStep \in [Timers -> BOOLEAN]
    /\ owed \in [Timers -> BOOLEAN] /\ starts \in Nat
    /\ posts \in Seq(Timers)
    /\ thread.pc \in Places /\ thread.last \in 0 .. (Word - 1)

\* The list the thread relies on when it looks at the head only: ordered by
\* expiry and, although timers are started again and again, none twice in it.
ListOK ==
    /\ \A i, j \in DOMAIN list : i < j => target[list[i]] <= target[list[j]]
    /\ \A i, j \in DOMAIN list : list[i] = list[j] => i = j

\* A callback is posted no earlier than the timer was due, also over a rollover
\* of the tick count, if absTimeHi was up to date when the timer was started.
NeverEarly == thread.fired.inStep => thread.fired.late >= 0

\* No wake-up is lost between the thread's unlocked look at the head and its
\* sleep: unless the event is set, it sleeps no longer than the first timer allows.
NoOversleep ==
    thread.pc = "wait" /\ ~ event /\ list # <<>> /\ inStep[Head(list)]
        /\ absTimeHi + thread.last = thread.at
    => thread.sleep <= due[Head(list)] - thread.at

\* A timer calls back at most once each time it is started and never when it was
\* stopped before it expired, however the threads interleave.
OncePerStart == thread.fired.owed

\* The thread is gone, or works with an upper word that is not the present one.
Astray ==
    \/ thread.pc = "crashed"
    \/ thread.pc \in {"compare", "subtract", "wait"} /\ absTimeHi + thread.last # thread.at

\* The bound on the time ends the sleep of the thread before the time does.
OutOfTime == thread.pc = "wait" /\ thread.wake > MaxTime

\* A timer that was started expires, is stopped or is started anew: none stays
\* in the list for ever when it is due.
Expires ==
    \A t \in Timers :
        []<>(~ Listed(t) \/ ~ inStep[t] \/ due[t] > MaxTime \/ Astray \/ OutOfTime)
=============================================================================
