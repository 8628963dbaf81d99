---------------------------- MODULE WifiMonitor ----------------------------
(***************************************************************************)
(* The Wi-Fi health monitor (gateway/wifi_health): the driver of eight     *)
(* keys and eight LEDs, and the application that waits for a key, stops    *)
(* the handler thread of the mode before and starts that of the new one.   *)
(*                                                                         *)
(* Key interrupts, the kernel timer, the main thread and the handler       *)
(* threads interleave.  irq_key_mutex is only a flag here: unlocking it    *)
(* frees it, whoever locked it.                                            *)
(***************************************************************************)
EXTENDS Integers, FiniteSets

CONSTANTS
    Keys,           \* the keys that are pressed
    Threads,        \* the ids a thread can get
    Samples,        \* what a measurement can yield
    MaxPresses,     \* bound: key presses
    MaxSessions     \* bound: times the application is started

ASSUME WifiAssumption ==
    /\ Keys \subseteq 1 .. 8 /\ Samples \subseteq Nat
    /\ 0 \notin Threads
    /\ MaxPresses \in Nat /\ MaxSessions \in Nat

MODE_QUALITY_CHECK == 1
MODE_APP_SHUTDOWN == 7
Modes == MODE_QUALITY_CHECK .. 3

\* The number of LEDs for a link quality in percent, or a load in tenths of one.
get_wifi_network_level(x, mode) ==
    IF mode = MODE_QUALITY_CHECK
    THEN 1 + Cardinality({b \in {90, 94, 95, 96, 97, 98, 99} : b <= x})
    ELSE IF x = 12 THEN 8
    ELSE 1 + Cardinality({b \in {1, 4, 5, 6, 10, 12, 14} : b <= x})

VARIABLES
    keyNum,         \* the driver's key, 0 for none
    keyMutex,       \* is irq_key_mutex locked?
    isr,            \* per key: how far its interrupt handler is
    presses,        \* times a key was pressed
    led,            \* LEDs the driver was told to light
    gpio,           \* LEDs that are lit
    timer,          \* the LED timer: "armed", "running" or "gone"
    main,           \* the main thread's pc
    key,            \* key_no
    flag,           \* thread: is a handler of the mode RUNNING?
    pool,           \* wifi_thread_pool: an id per mode, 0 if it was never written
    thr,            \* per id: the handler thread that has it
    owner,          \* who locked dev_mutex and wifi_info_mutex, 0 if nobody
    sessions        \* times the application was started

driver == <<keyNum, keyMutex, isr, presses>>
lights == <<led, gpio, timer>>
app == <<main, key, flag, pool>>
vars == <<driver, lights, app, thr, owner, sessions>>

Open == main \notin {"gone"}
NoThread == [mode |-> 0, pc |-> "none", level |-> 0, cancelled |-> FALSE]
Ended == {"none", "dead", "joined"}
Live(t) == thr[t].pc \notin Ended
-----------------------------------------------------------------------------
(* The driver *)

\* keyIsr: a key whose handler finds the mutex locked is lost.
Press(k) ==
    /\ Open
    /\ isr[k] = "idle"
    /\ presses < MaxPresses
    /\ presses' = presses + 1
    /\ IF keyMutex
       THEN UNCHANGED <<isr, keyMutex>>
       ELSE isr' = [isr EXCEPT ![k] = "locked"] /\ keyMutex' = TRUE
    /\ UNCHANGED <<keyNum, lights, app, thr, owner, sessions>>

Latch(k) ==
    /\ isr[k] = "locked"
    /\ keyNum' = k
    /\ isr' = [isr EXCEPT ![k] = "latched"]
    /\ UNCHANGED <<keyMutex, presses, lights, app, thr, owner, sessions>>

Unlock(k) ==
    /\ isr[k] = "latched"
    /\ keyMutex' = FALSE
    /\ isr' = [isr EXCEPT ![k] = "idle"]
    /\ UNCHANGED <<keyNum, presses, lights, app, thr, owner, sessions>>

\* Mutant: the timer runs once.
RearmNot ==
    /\ timer = "running"
    /\ timer' = "stopped"
    /\ UNCHANGED <<driver, led, gpio, app, thr, owner, sessions>>

\* kernel_timer_func: show the level, then start again.
Fire ==
    /\ timer = "armed"
    /\ gpio' = led
    /\ timer' = "running"
    /\ UNCHANGED <<driver, led, app, thr, owner, sessions>>
Rearm ==
    /\ timer = "running"
    /\ timer' = "armed"
    /\ UNCHANGED <<driver, led, gpio, app, thr, owner, sessions>>
-----------------------------------------------------------------------------
(* The main thread *)

MainOnly == UNCHANGED <<keyMutex, isr, presses, lights, flag, pool, thr, owner, sessions>>

\* Mutant: what poll reported is not looked at.
PollUnchecked ==
    /\ main = "poll"
    /\ main' = "read"
    /\ UNCHANGED <<keyNum, key>> /\ MainOnly

Poll ==
    /\ main = "poll"
    /\ keyNum > 0
    /\ main' = "read"
    /\ UNCHANGED <<keyNum, key>> /\ MainOnly

\* irq_key_read takes the key, and forgets it if the mutex is free.
Read ==
    /\ main = "read"
    /\ keyNum # 0
    /\ key' = keyNum
    /\ main' = "reset"
    /\ UNCHANGED keyNum /\ MainOnly
Trylock ==
    /\ main = "reset"
    /\ keyMutex' = TRUE
    /\ main' = IF keyMutex THEN "unlock" ELSE "forget"
    /\ UNCHANGED <<keyNum, key, isr, presses, lights, flag, pool, thr, owner, sessions>>
Forget ==
    /\ main = "forget"
    /\ keyNum' = 0
    /\ main' = "unlock"
    /\ UNCHANGED key /\ MainOnly
ReadUnlock ==
    /\ main = "unlock"
    /\ keyMutex' = FALSE
    /\ main' = IF key \in Modes \cup {MODE_APP_SHUTDOWN} THEN "clean" ELSE "poll"
    /\ UNCHANGED <<keyNum, key, isr, presses, lights, flag, pool, thr, owner, sessions>>

\* clean_handler, which looks at the flags in the order of the modes, and cancels
\* and joins the same entry of the pool whichever is set.
Flagged == {m \in Modes : flag[m]}
First == CHOOSE m \in Flagged : \A n \in Flagged : m <= n
Cleaned == main' = IF key = MODE_APP_SHUTDOWN THEN "end" ELSE "start"

\* Mutant: only a quality check is looked for.
CleanForgets ==
    /\ main = "clean"
    /\ IF ~flag[MODE_QUALITY_CHECK] THEN Cleaned /\ UNCHANGED <<flag, thr>>
       ELSE IF pool[MODE_QUALITY_CHECK] = 0 THEN main' = "crashed" /\ UNCHANGED <<flag, thr>>
       ELSE /\ main' = "join"
            /\ thr' = [thr EXCEPT ![pool[MODE_QUALITY_CHECK]].cancelled = TRUE]
            /\ UNCHANGED flag
    /\ UNCHANGED <<driver, lights, key, pool, owner, sessions>>

\* pthread_cancel follows the pointer that an id is; an id that was joined and not
\* given out again is refused by it and by pthread_join.
Clean ==
    /\ main = "clean"
    /\ \/ Flagged = {} /\ Cleaned /\ UNCHANGED <<flag, thr>>
       \/ /\ Flagged # {}
          /\ pool[MODE_QUALITY_CHECK] = 0
          /\ main' = "crashed"
          /\ UNCHANGED <<flag, thr>>
       \/ /\ Flagged # {}
          /\ pool[MODE_QUALITY_CHECK] # 0
          /\ main' = "join"
          /\ thr' = [thr EXCEPT ![pool[MODE_QUALITY_CHECK]].cancelled = TRUE]
          /\ UNCHANGED flag
    /\ UNCHANGED <<driver, lights, key, pool, owner, sessions>>
Join ==
    /\ main = "join"
    /\ thr[pool[MODE_QUALITY_CHECK]].pc \in {"dead", "joined"}
    /\ thr' = [thr EXCEPT ![pool[MODE_QUALITY_CHECK]].pc = "joined"]
    /\ flag' = [flag EXCEPT ![First] = FALSE]
    /\ Cleaned
    /\ UNCHANGED <<driver, lights, key, pool, owner, sessions>>

\* A new thread gets the stack, and so the id, of one that was joined if there is one;
\* which does not matter, for ids differ in nothing else.
FreeIds ==
    LET joined == {t \in Threads : thr[t].pc = "joined"}
    IN  IF joined # {} THEN joined ELSE {t \in Threads : thr[t].pc = "none"}
Start ==
    /\ main = "start"
    /\ FreeIds # {}
    /\ pool' = [pool EXCEPT ![key] = CHOOSE t \in FreeIds : TRUE]
    /\ thr' = [thr EXCEPT ![pool'[key]] =
                  [mode |-> key, level |-> 0, cancelled |-> FALSE,
                   pc |-> IF key = MODE_QUALITY_CHECK THEN "lock" ELSE "lock_info"]]
    /\ flag' = [flag EXCEPT ![key] = TRUE]
    /\ main' = "poll"
    /\ UNCHANGED <<driver, lights, key, owner, sessions>>

\* A line with q ends the loop as well, without clean_handler.
Quit ==
    /\ main = "poll" /\ keyNum = 0
    /\ main' = "end"
    /\ UNCHANGED <<keyNum, key>> /\ MainOnly

\* destroy_nexusmesh_app: darken the LEDs, without dev_mutex, and close.
Destroy ==
    /\ main = "end"
    /\ led' = 0
    /\ main' = "close"
    /\ UNCHANGED <<driver, gpio, timer, key, flag, pool, thr, owner, sessions>>

\* irq_key_release, when the process ends at the latest: interrupts in progress are
\* waited for; a timer that is just running is not pending, and goes on.
Release ==
    /\ main \in {"close", "crashed", "killed"}
    /\ \A k \in Keys : isr[k] = "idle"
    /\ main' = "gone"
    /\ keyNum' = 0
    /\ timer' = IF timer = "armed" THEN "gone" ELSE timer
    /\ thr' = [t \in Threads |-> NoThread]
    /\ owner' = [x \in DOMAIN owner |-> 0]
    /\ flag' = [m \in Modes |-> FALSE]
    /\ pool' = [m \in Modes |-> 0]
    /\ key' = 0
    /\ UNCHANGED <<keyMutex, isr, presses, led, gpio, sessions>>

Kill ==
    /\ main \in {"poll", "join"}
    /\ main' = "killed"
    /\ UNCHANGED <<keyNum, key>> /\ MainOnly

\* The ioctls of run_nexusmeshx_app are not compiled in: no timer is started.
Run ==
    /\ main = "gone" /\ sessions < MaxSessions
    /\ sessions' = sessions + 1
    /\ led' = 0
    /\ main' = "poll"
    /\ UNCHANGED <<driver, gpio, timer, key, flag, pool, thr, owner>>
-----------------------------------------------------------------------------
(* A handler thread *)

ThreadOnly == UNCHANGED <<driver, gpio, timer, app, sessions>>

\* What the thread locks next; waiting for a mutex is no cancellation point.
Mutex(t) == IF thr[t].pc = "lock_info" THEN "info" ELSE "dev"
Lock(t) ==
    /\ thr[t].pc \in {"lock_info", "lock"}
    /\ owner[Mutex(t)] = 0
    /\ owner' = [owner EXCEPT ![Mutex(t)] = t]
    /\ thr' = [thr EXCEPT ![t].pc = IF @ = "lock_info" THEN "status" ELSE "write"]
    /\ UNCHANGED led /\ ThreadOnly

\* get_wifi_status, under wifi_info_mutex.
Status(t) ==
    /\ thr[t].pc = "status" /\ ~thr[t].cancelled
    /\ owner' = [owner EXCEPT !["info"] = 0]
    /\ thr' = [thr EXCEPT ![t].pc = "lock"]
    /\ UNCHANGED led /\ ThreadOnly

\* irq_led_write, under dev_mutex.
Write(t) ==
    /\ thr[t].pc = "write" /\ ~thr[t].cancelled
    /\ led' = thr[t].level
    /\ owner' = [owner EXCEPT !["dev"] = 0]
    /\ thr' = [thr EXCEPT ![t].pc = "measure"]
    /\ ThreadOnly

\* Mutants: what was measured is shown itself; a cancelled thread does not end.
MeasureRaw(t) ==
    /\ thr[t].pc = "measure" /\ ~thr[t].cancelled
    /\ \E x \in Samples : thr' = [thr EXCEPT ![t].pc = "lock", ![t].level = x]
    /\ UNCHANGED <<led, owner>> /\ ThreadOnly
NeverDies(t) == FALSE

Measure(t) ==
    /\ thr[t].pc = "measure" /\ ~thr[t].cancelled
    /\ \E x \in Samples : thr' = [thr EXCEPT ![t].pc = "lock",
                                             ![t].level = get_wifi_network_level(x, thr[t].mode)]
    /\ UNCHANGED <<led, owner>> /\ ThreadOnly

\* At a cancellation point a thread that was cancelled ends, with what it has locked,
\* and with its write done or not.
Die(t) ==
    /\ thr[t].pc \in {"status", "write", "measure"} /\ thr[t].cancelled
    /\ thr' = [thr EXCEPT ![t].pc = "dead"]
    /\ led' \in IF thr[t].pc = "write" THEN {led, thr[t].level} ELSE {led}
    /\ UNCHANGED owner /\ ThreadOnly
-----------------------------------------------------------------------------
Init ==
    /\ keyNum = 0 /\ keyMutex = FALSE
    /\ isr = [k \in Keys |-> "idle"] /\ presses = 0
    /\ led = 0 /\ gpio = 0 /\ timer = "armed"
    /\ main = "gone" /\ key = 0
    /\ flag = [m \in Modes |-> FALSE] /\ pool = [m \in Modes |-> 0]
    /\ thr = [t \in Threads |-> NoThread]
    /\ owner = [x \in {"dev", "info"} |-> 0]
    /\ sessions = 0

Interrupt(k) == Latch(k) \/ Unlock(k)
Timer == Fire \/ Rearm
Main == Poll \/ Read \/ Trylock \/ Forget \/ ReadUnlock \/ Clean \/ Join \/ Start \/ Destroy \/ Release
Handler(t) == Lock(t) \/ Status(t) \/ Write(t) \/ Measure(t) \/ Die(t)
User == (\E k \in Keys : Press(k)) \/ Quit \/ Kill \/ Run

Next == User \/ Main \/ Timer \/ (\E k \in Keys : Interrupt(k)) \/ (\E t \in Threads : Handler(t))

Spec == Init /\ [][Next]_vars

\* The kernel schedules every thread, interrupt and timer that can run; nothing makes
\* a user press a key, quit or start the application.
FairSpec ==
    /\ Spec
    /\ WF_vars(Main) /\ WF_vars(Fire) /\ WF_vars(Rearm)
    /\ \A k \in Keys : WF_vars(Interrupt(k))
    /\ \A t \in Threads : WF_vars(Handler(t))
-----------------------------------------------------------------------------
(* Properties *)

ThreadPcs == {"none", "lock_info", "status", "lock", "write", "measure", "dead", "joined"}
HandlerThread == [mode : 0 .. 3, pc : ThreadPcs, level : 0 .. 8, cancelled : BOOLEAN]

\* Every variable keeps its type; the driver is told 0 to 8 LEDs (irq_led_write).
TypeOK ==
    /\ keyNum \in Keys \cup {0} /\ keyMutex \in BOOLEAN
    /\ isr \in [Keys -> {"idle", "locked", "latched"}]
    /\ presses \in 0 .. MaxPresses
    /\ led \in 0 .. 8 /\ gpio \in 0 .. 8 /\ timer \in {"armed", "running", "gone"}
    /\ main \in {"gone", "poll", "read", "reset", "forget", "unlock", "clean", "join", "start",
                 "end", "close", "crashed", "killed"}
    /\ key \in Keys \cup {0}
    /\ flag \in [Modes -> BOOLEAN] /\ pool \in [Modes -> Threads \cup {0}]
    /\ thr \in [Threads -> HandlerThread]
    /\ owner \in [{"dev", "info"} -> Threads \cup {0}]
    /\ sessions \in 0 .. MaxSessions

\* Between poll and read nobody takes the key away, so main, which also listens to the
\* keyboard, never blocks in read (irq_key_read waits for keyNum without a timeout).
ReadNeverBlocks == main = "read" => keyNum # 0

\* When main waits for a key there is a handler thread of a mode exactly if the
\* mode's flag is set, and never are there two handler threads, although
\* clean_handler ends whatever has the id of the last quality check.
HandlerOfMode ==
    /\ main = "poll" => \A m \in Modes : flag[m] <=> \E t \in Threads : Live(t) /\ thr[t].mode = m
    /\ \A t, u \in Threads : Live(t) /\ Live(u) => t = u

\* A mutex that a cancelled thread took with it; another may have its id by now.
Holds(t) == IF thr[t].pc = "status" THEN "info" ELSE IF thr[t].pc = "write" THEN "dev" ELSE "none"
Lost(x) == owner[x] # 0 /\ Holds(owner[x]) # x

\* If main finds a key in the driver that means something, it ends the handler before and
\* can start that of the key it reads, or ends, unless another key replaces this one
\* before the read, the application is killed or crashes, or main waits in pthread_join
\* for a handler that waits for such a mutex.
Means(k) == k \in Modes \cup {MODE_APP_SHUTDOWN}
Found == main \in {"poll", "read"} /\ Means(keyNum)
Replaced == main = "unlock" /\ ~Means(key)
Deadlocked ==
    LET t == pool[MODE_QUALITY_CHECK] IN
    main = "join" /\ thr[t].pc \in {"lock_info", "lock"} /\ Lost(Mutex(t))
KeyServed ==
    Found ~> \/ main = "start" /\ FreeIds # {}
             \/ main = "end" \/ Replaced
             \/ Deadlocked \/ main \in {"crashed", "killed", "gone"}

\* What a handler wrote reaches the LEDs, unless the timer was deleted when the
\* application closed the device (irq_key_release).
LevelShown == led # gpio ~> (led = gpio \/ timer = "gone")

\* clean_handler ends the thread that ran before it: nexusmeshx_app.c says so of it.
Cleans == main \in {"clean", "join"}
AllEnded == \A t \in Threads : ~Live(t)
CleanDestroys == [][Cleans /\ ~Cleans' => (main' = "killed" \/ (main' # "crashed" /\ AllEnded'))]_vars
=============================================================================
