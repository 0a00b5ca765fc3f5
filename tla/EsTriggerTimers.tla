-------------------------- MODULE EsTriggerTimers --------------------------
(***************************************************************************)
(* The two timers: es_trigger_sample_timer                                 *)
(* (lib/es_trigger_sample_timer.cc), which publishes an event every so     *)
(* many samples, ahead of the stream, and the Python block                 *)
(* es_trigger_timer (python/es_trigger_timer.py), which publishes one      *)
(* every so many seconds from a thread of its own.                         *)
(***************************************************************************)
EXTENDS EsMessages

CONSTANTS
    Period, Shift, SchedDist,   \* d_period, d_shift, d_sched_dist
    MaxSamples,      \* bound: samples the sample timer passes on
    SampleTargets,   \* the handlers that subscribe to port sample_timer_event
    CountInits,      \* the values of count_init explored, -1 for "infinite"
    TimerTargets,    \* the handlers that subscribe to port timer_event
    MaxTimerEvents   \* bound: events the timer's thread publishes

ASSUME TimersAssumption ==
    /\ Period \in Nat \ {0} /\ Shift \in Nat /\ SchedDist \in Nat
    /\ MaxSamples \in Nat /\ MaxTimerEvents \in Nat
    /\ CountInits \subseteq Nat \cup {-1}

VARIABLES
    s_time, d_evt_time,   \* samples consumed, time of the last event
    s_n,                  \* samples of the current call of work(), 0 for none
    s_started,            \* start() was called
    ticks                 \* (not state of the program) times published

sampleVars == <<s_time, d_evt_time, s_n, s_started, ticks>>

VARIABLES
    count_init, count,
    t_main,      \* where start() and stop() are
    t_thread,    \* where the thread is
    t_read,      \* the count the thread has read to decrement it
    published,   \* (not state of the program) events published
    unannounced  \* (not state of the program) ... before the registration

timerVars == <<count_init, count, t_main, t_thread, t_read, published, unannounced>>

TimersInit ==
    /\ s_time = 0 /\ d_evt_time = Shift /\ s_n = 0 /\ s_started = FALSE
    /\ ticks = <<>>
    /\ count_init \in CountInits /\ count = count_init
    /\ t_main = "new" /\ t_thread = "none" /\ t_read = 0
    /\ published = 0 /\ unannounced = 0

-----------------------------------------------------------------------------
(* es_trigger_sample_timer                                                 *)

SampleTimerStart ==
    /\ ~s_started /\ s_started' = TRUE
    /\ Publish(Registration("sample_timer_event", SampleTargets))
    /\ UNCHANGED <<s_time, d_evt_time, s_n, ticks>>

SampleTimerWork(n) ==
    /\ s_started /\ s_n = 0
    /\ s_time + n <= MaxSamples
    /\ s_n' = n
    /\ UNCHANGED <<inbox, s_time, d_evt_time, s_started, ticks>>

HorizonOfCall == s_n + SchedDist      \* d_time forgotten

\* Events are published for as long as the last one is before this time.
Horizon == s_time + s_n + SchedDist

Tick ==
    /\ s_n > 0 /\ d_evt_time < Horizon
    /\ d_evt_time' = d_evt_time + Period
    /\ Publish(Event(<<"sample", d_evt_time', 1>>, "sample_timer_event",
                     d_evt_time', 1))
    /\ ticks' = Append(ticks, d_evt_time')
    /\ UNCHANGED <<s_time, s_n, s_started>>

SampleTimerReturn ==
    /\ s_n > 0 /\ d_evt_time >= Horizon
    /\ s_time' = s_time + s_n
    /\ s_n' = 0
    /\ UNCHANGED <<inbox, d_evt_time, s_started, ticks>>

SampleTimerStep == \/ SampleTimerStart \/ Tick \/ SampleTimerReturn
                   \/ \E n \in 1 .. MaxSamples : SampleTimerWork(n)

-----------------------------------------------------------------------------
(* es_trigger_timer: start(), stop() and run(), interleaved between any    *)
(* two accesses to count.  start() lets the thread run, then registers.    *)

TimerStart ==
    /\ t_main = "new" /\ t_main' = "register"
    /\ count' = count_init
    /\ t_thread' = "test"
    /\ UNCHANGED <<inbox, count_init, t_read, published, unannounced>>

TimerRegister ==
    /\ t_main = "register" /\ t_main' = "started"
    /\ Publish(Registration("timer_event", TimerTargets))
    /\ UNCHANGED <<count_init, count, t_thread, t_read, published, unannounced>>

TimerStop ==
    /\ t_main = "started" /\ t_main' = "join"
    /\ count' = 0
    /\ UNCHANGED <<inbox, count_init, t_thread, t_read, published, unannounced>>

TimerJoined ==
    /\ t_main = "join" /\ t_thread \in {"exited", "failed"} /\ t_main' = "stopped"
    /\ UNCHANGED <<inbox, count_init, count, t_thread, t_read, published, unannounced>>

ThreadGoes(from, to) == t_thread = from /\ t_thread' = to

TimerTestOff ==    \* off by one
    /\ ThreadGoes("test", IF count = -1 \/ count > 1 THEN "publish" ELSE "exited")
    /\ UNCHANGED <<inbox, count_init, count, t_main, t_read, published, unannounced>>

TimerTest ==       \* while(self.count == -1 or self.count > 0)
    /\ ThreadGoes("test", IF count = -1 \/ count > 0 THEN "publish" ELSE "exited")
    /\ UNCHANGED <<inbox, count_init, count, t_main, t_read, published, unannounced>>

TimerPublish ==    \* after the delay
    /\ published < MaxTimerEvents
    /\ ThreadGoes("publish", "check")
    /\ published' = published + 1
    /\ unannounced' = IF t_main = "register" THEN published' ELSE unannounced
    /\ Publish(Event(<<"timer", published', 1>>, "timer_event", 0, 1))
    /\ UNCHANGED <<count_init, count, t_main, t_read>>

TimerPublishFails ==    \* except: return
    /\ ThreadGoes("publish", "failed")
    /\ UNCHANGED <<inbox, count_init, count, t_main, t_read, published, unannounced>>

TimerCheck ==      \* if(self.count > 0)
    /\ ThreadGoes("check", IF count > 0 THEN "read" ELSE "test")
    /\ UNCHANGED <<inbox, count_init, count, t_main, t_read, published, unannounced>>

TimerRead ==       \* self.count - 1
    /\ ThreadGoes("read", "write")
    /\ t_read' = count
    /\ UNCHANGED <<inbox, count_init, count, t_main, published, unannounced>>

TimerWrite ==      \* self.count =
    /\ ThreadGoes("write", "test")
    /\ count' = t_read - 1
    /\ UNCHANGED <<inbox, count_init, t_main, t_read, published, unannounced>>

TimerStep == \/ TimerStart \/ TimerRegister \/ TimerStop \/ TimerJoined
             \/ TimerTest \/ TimerPublish \/ TimerPublishFails
             \/ TimerCheck \/ TimerRead \/ TimerWrite

-----------------------------------------------------------------------------
(* Properties.                                                             *)

\* However the stream is cut into calls: the events are one period apart, the first
\* at Shift + Period (d_evt_time starts at Shift and is advanced before it is used), each
\* is published before the stream is within SchedDist of the one before it, and
\* none earlier than it takes to do so.
SampleTimerExact ==
    /\ \A k \in 1 .. Len(ticks) : ticks[k] = Shift + k * Period
    /\ s_n = 0 /\ s_time > 0 =>
          /\ Shift + Len(ticks) * Period >= s_time + SchedDist
          /\ ticks # <<>> =>
                Shift + (Len(ticks) - 1) * Period < s_time + SchedDist

\* The block's description says "iterations - number of iterations before
\* stopping, -1 for infinite": no more events than that are published.
AtMostIterations == count_init >= 0 => published <= count_init

\* A timer nobody stops publishes exactly as many events as it was given; if a
\* publication raises, it ends with those not published left in count.
RunsItsCount ==
    t_main \in {"register", "started"} =>
        /\ t_thread = "exited" => published = count_init
        /\ t_thread = "failed" /\ count_init >= 0 =>
              count > 0 /\ published + count = count_init
=============================================================================
