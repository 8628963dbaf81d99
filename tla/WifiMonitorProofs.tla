------------------------- MODULE WifiMonitorProofs -------------------------
(***************************************************************************)
(* Proofs about the Wi-Fi health monitor: types, a read that never blocks, *)
(* and one handler thread, that of the mode whose flag is set.             *)
(*                                                                         *)
(* clean_handler always ends entry MODE_QUALITY_CHECK of the pool.  The    *)
(* invariant says why that is the right thread whenever the entry was ever *)
(* written: only one id is then in use, and every new thread gets it.      *)
(***************************************************************************)
EXTENDS WifiMonitor, FiniteSetTheorems, TLAPS

Calm == {"poll", "read", "reset", "forget", "unlock", "clean"}
Active(t) == thr[t].pc \notin {"none", "joined"}

\* No two threads that were not joined; no two flags.
OneActive == \A t, u \in Threads : Active(t) /\ Active(u) => t = u
OneFlag == \A m, n \in Modes : flag[m] /\ flag[n] => m = n

\* Until it is cleaned, the thread of the mode that is RUNNING runs, and was not cancelled.
CalmInv == main \in Calm =>
    /\ \A m \in Modes : flag[m] <=> \E t \in Threads : Live(t) /\ thr[t].mode = m
    /\ \A t \in Threads : Active(t) => Live(t) /\ ~thr[t].cancelled /\ thr[t].mode \in Modes

\* Which ids are in use.
IdInv == main \in Calm \cup {"join", "start"} =>
    IF pool[MODE_QUALITY_CHECK] = 0
    THEN \A t \in Threads : thr[t].pc # "none" => Active(t)
    ELSE /\ thr[pool[MODE_QUALITY_CHECK]].pc # "none"
         /\ \A t \in Threads : thr[t].pc # "none" => t = pool[MODE_QUALITY_CHECK]

CleanInv ==
    /\ main \in {"clean", "join"} => key \in Modes \cup {MODE_APP_SHUTDOWN}
    /\ main = "join" => pool[MODE_QUALITY_CHECK] # 0 /\ Flagged # {}
    /\ main = "start" => key \in Modes /\ Flagged = {} /\ \A t \in Threads : ~Active(t)
    /\ main = "gone" => /\ \A m \in Modes : ~flag[m] /\ pool[m] = 0
                        /\ \A t \in Threads : thr[t].pc = "none"

IInv == TypeOK /\ ReadNeverBlocks /\ OneActive /\ OneFlag /\ CalmInv /\ IdInv /\ CleanInv
-----------------------------------------------------------------------------
LEMMA Seven ==
    ASSUME NEW a, NEW b, NEW c, NEW d, NEW e, NEW f, NEW g
    PROVE  /\ IsFiniteSet({a, b, c, d, e, f, g})
           /\ Cardinality({a, b, c, d, e, f, g}) \in 0 .. 7
<1> DEFINE A1 == {a}  A2 == A1 \cup {b}  A3 == A2 \cup {c}  A4 == A3 \cup {d}
           A5 == A4 \cup {e}  A6 == A5 \cup {f}  A7 == A6 \cup {g}
<1>1. IsFiniteSet(A1) /\ Cardinality(A1) \in 0 .. 1
  <2>1. IsFiniteSet({a}) /\ Cardinality({a}) = 1
    BY FS_Singleton, Zenon
  <2> QED
    BY <2>1
<1> HIDE DEF A1
<1>2. IsFiniteSet(A2) /\ Cardinality(A2) \in 0 .. 2
  BY <1>1, FS_AddElement
<1> HIDE DEF A2
<1>3. IsFiniteSet(A3) /\ Cardinality(A3) \in 0 .. 3
  BY <1>2, FS_AddElement
<1> HIDE DEF A3
<1>4. IsFiniteSet(A4) /\ Cardinality(A4) \in 0 .. 4
  BY <1>3, FS_AddElement
<1> HIDE DEF A4
<1>5. IsFiniteSet(A5) /\ Cardinality(A5) \in 0 .. 5
  BY <1>4, FS_AddElement
<1> HIDE DEF A5
<1>6. IsFiniteSet(A6) /\ Cardinality(A6) \in 0 .. 6
  BY <1>5, FS_AddElement
<1> HIDE DEF A6
<1>7. IsFiniteSet(A7) /\ Cardinality(A7) \in 0 .. 7
  BY <1>6, FS_AddElement
<1>8. A7 = {a, b, c, d, e, f, g}
  BY DEF A7, A6, A5, A4, A3, A2, A1
<1> QED
  BY <1>7, <1>8

LEMMA PartOfSeven ==
    ASSUME NEW S, IsFiniteSet(S), Cardinality(S) \in 0 .. 7, NEW P \in SUBSET S
    PROVE  Cardinality(P) \in 0 .. 7
<1>1. IsFiniteSet(P) /\ Cardinality(P) <= Cardinality(S)
  BY FS_Subset
<1>2. Cardinality(P) \in Nat
  BY <1>1, FS_CardinalityType
<1> QED
  BY <1>1, <1>2

\* Whatever was measured, between one and eight LEDs are lit.
LEMMA LevelInRange ==
    ASSUME NEW x, NEW mode
    PROVE  get_wifi_network_level(x, mode) \in 1 .. 8
<1> DEFINE Q == {90, 94, 95, 96, 97, 98, 99}  T == {1, 4, 5, 6, 10, 12, 14}
           q == {b \in Q : b <= x}  t == {b \in T : b <= x}
<1>1. IsFiniteSet(Q) /\ Cardinality(Q) \in 0 .. 7
  BY Seven, ZenonT(40)
<1>2. IsFiniteSet(T) /\ Cardinality(T) \in 0 .. 7
  BY Seven, Zenon
<1>3. q \subseteq Q /\ t \subseteq T
  OBVIOUS
<1>4. get_wifi_network_level(x, mode) \in {1 + Cardinality(q), 8, 1 + Cardinality(t)}
  BY DEF get_wifi_network_level
<1> HIDE DEF Q, T, q, t
<1>5. Cardinality(q) \in 0 .. 7 /\ Cardinality(t) \in 0 .. 7
  BY <1>1, <1>2, <1>3, PartOfSeven
<1> QED
  BY <1>4, <1>5
-----------------------------------------------------------------------------
LEMMA ModesAre == Modes = 1 .. 3 /\ MODE_QUALITY_CHECK = 1 /\ MODE_APP_SHUTDOWN = 7
BY DEF Modes, MODE_QUALITY_CHECK, MODE_APP_SHUTDOWN

\* A fresh thread gets an id that is in no use.
LEMMA FreeId ==
    ASSUME FreeIds # {}
    PROVE  LET t == CHOOSE u \in FreeIds : TRUE
           IN  /\ t \in Threads
               /\ thr[t].pc \in {"joined", "none"}
               /\ thr[t].pc = "none" => \A u \in Threads : thr[u].pc # "joined"
<1> DEFINE t == CHOOSE u \in FreeIds : TRUE
<1>1. t \in FreeIds
  OBVIOUS
<1> HIDE DEF t
<1>2. /\ t \in Threads
      /\ thr[t].pc \in {"joined", "none"}
      /\ thr[t].pc = "none" => \A u \in Threads : thr[u].pc # "joined"
  BY <1>1 DEF FreeIds
<1> QED
  BY <1>2 DEF t

LEMMA PcsAre ==
    ThreadPcs = {"none", "lock_info", "status", "lock", "write", "measure", "dead", "joined"}
BY DEF ThreadPcs

\* A record of a handler thread stays one when its fields change.
LEMMA ThreadFields ==
    ASSUME NEW r \in HandlerThread, NEW p \in ThreadPcs, NEW l \in 0 .. 8
    PROVE  /\ [r EXCEPT !.pc = p] \in HandlerThread
           /\ [r EXCEPT !.pc = p, !.level = l] \in HandlerThread
           /\ [r EXCEPT !.cancelled = TRUE] \in HandlerThread
<1>1. [r EXCEPT !.pc = p] \in HandlerThread
  BY DEF HandlerThread
<1>2. [r EXCEPT !.pc = p, !.level = l] \in HandlerThread
  BY DEF HandlerThread
<1>3. [r EXCEPT !.cancelled = TRUE] \in HandlerThread
  BY DEF HandlerThread
<1> QED
  BY <1>1, <1>2, <1>3

LEMMA NewThread ==
    ASSUME NEW m \in Modes, NEW p \in ThreadPcs
    PROVE  /\ [mode |-> m, level |-> 0, cancelled |-> FALSE, pc |-> p] \in HandlerThread
           /\ NoThread \in HandlerThread
<1>1. NoThread \in HandlerThread
  BY PcsAre DEF HandlerThread, NoThread
<1>2. [mode |-> m, level |-> 0, cancelled |-> FALSE, pc |-> p] \in HandlerThread
  BY ModesAre DEF HandlerThread
<1> QED
  BY <1>1, <1>2

LEMMA InitInv == Init => IInv
<1> SUFFICES ASSUME Init PROVE IInv
  OBVIOUS
<1> USE ModesAre, WifiAssumption
<1>1. TypeOK
  <2>1. NoThread \in HandlerThread
    BY NewThread, PcsAre
  <2>2. thr \in [Threads -> HandlerThread]
    BY <2>1 DEF Init
  <2>3. flag \in [Modes -> BOOLEAN] /\ pool \in [Modes -> Threads \cup {0}]
    BY DEF Init
  <2>4. owner \in [{"dev", "info"} -> Threads \cup {0}] /\ isr \in [Keys -> {"idle", "locked", "latched"}]
    BY DEF Init
  <2>5. keyMutex \in BOOLEAN
    BY Zenon DEF Init
  <2>6. presses \in 0 .. MaxPresses /\ sessions \in 0 .. MaxSessions /\ led \in 0 .. 8 /\ gpio \in 0 .. 8
    BY DEF Init
  <2>7. keyNum \in Keys \cup {0} /\ key \in Keys \cup {0}
    BY DEF Init
  <2> QED
    BY <2>2, <2>3, <2>4, <2>5, <2>6, <2>7 DEF Init, TypeOK
<1>2. \A t \in Threads : thr[t].pc = "none" /\ ~Active(t)
  BY DEF Init, NoThread, Active
<1>3. ReadNeverBlocks /\ OneActive /\ OneFlag /\ CalmInv /\ IdInv /\ CleanInv
  BY <1>2 DEF Init, ReadNeverBlocks, OneActive, OneFlag, CalmInv, IdInv, CleanInv, Calm, Flagged
<1> QED
  BY <1>1, <1>3 DEF IInv

LEMMA NextType == TypeOK /\ CleanInv /\ [Next]_vars => TypeOK'
<1> SUFFICES ASSUME TypeOK, CleanInv, [Next]_vars PROVE TypeOK'
  OBVIOUS
<1> USE ModesAre, WifiAssumption
<1>1. ASSUME NEW k \in Keys, Press(k) \/ Interrupt(k) PROVE TypeOK'
  <2>1. CASE Press(k)
    <3>1. isr' \in [Keys -> {"idle", "locked", "latched"}] /\ keyMutex' \in BOOLEAN
      BY <2>1 DEF TypeOK, Press
    <3>2. presses' \in 0 .. MaxPresses
      BY <2>1 DEF TypeOK, Press
    <3> QED
      BY <2>1, <3>1, <3>2 DEF TypeOK, Press, lights, app
  <2>2. CASE Latch(k)
    BY <2>2 DEF TypeOK, Latch, lights, app
  <2>3. CASE Unlock(k)
    BY <2>3 DEF TypeOK, Unlock, lights, app
  <2> QED
    BY <1>1, <2>1, <2>2, <2>3 DEF Interrupt
<1>2. ASSUME Timer PROVE TypeOK'
  BY <1>2 DEF TypeOK, Timer, Fire, Rearm, driver, app
<1>3. ASSUME Poll \/ Read \/ Trylock \/ Forget \/ ReadUnlock \/ Quit \/ Kill PROVE TypeOK'
  BY <1>3 DEF TypeOK, Poll, Read, Trylock, Forget, ReadUnlock, Quit, Kill, MainOnly, lights
<1>4. ASSUME Clean PROVE TypeOK'
  <2>1. thr' \in [Threads -> HandlerThread]
    <3>1. CASE thr' = thr
      BY <3>1 DEF TypeOK
    <3>2. CASE thr' = [thr EXCEPT ![pool[MODE_QUALITY_CHECK]].cancelled = TRUE]
      <4>1. pool[MODE_QUALITY_CHECK] \in Threads => [thr[pool[MODE_QUALITY_CHECK]] EXCEPT !.cancelled = TRUE] \in HandlerThread
        BY ThreadFields, PcsAre DEF TypeOK
      <4> QED
        BY <3>2, <4>1 DEF TypeOK
    <3> QED
      BY <1>4, <3>1, <3>2 DEF Clean
  <2> QED
    BY <1>4, <2>1 DEF TypeOK, Clean, Cleaned, driver, lights
<1>5. ASSUME Join PROVE TypeOK'
  <2>1. thr' \in [Threads -> HandlerThread]
    <3>1. pool[MODE_QUALITY_CHECK] \in Threads => [thr[pool[MODE_QUALITY_CHECK]] EXCEPT !.pc = "joined"] \in HandlerThread
      BY ThreadFields, PcsAre DEF TypeOK
    <3> QED
      BY <1>5, <3>1 DEF TypeOK, Join
  <2>2. flag' \in [Modes -> BOOLEAN]
    BY <1>5 DEF TypeOK, Join
  <2> QED
    BY <1>5, <2>1, <2>2 DEF TypeOK, Join, Cleaned, driver, lights
<1>6. ASSUME Start PROVE TypeOK'
  <2> DEFINE t == CHOOSE u \in FreeIds : TRUE
  <2>1. t \in Threads
    BY <1>6, FreeId DEF Start
  <2>2. key \in Modes
    BY <1>6 DEF Start, CleanInv
  <2>3. pool' = [pool EXCEPT ![key] = t]
    BY <1>6 DEF Start
  <2> HIDE DEF t
  <2>4. pool'[key] = t /\ pool' \in [Modes -> Threads \cup {0}]
    BY <2>1, <2>2, <2>3 DEF TypeOK
  <2>5. thr' \in [Threads -> HandlerThread]
    <3>1. PICK p \in ThreadPcs : thr' = [thr EXCEPT ![t] =
                 [mode |-> key, level |-> 0, cancelled |-> FALSE, pc |-> p]]
      BY <1>6, <2>4, PcsAre DEF Start
    <3>2. [mode |-> key, level |-> 0, cancelled |-> FALSE, pc |-> p] \in HandlerThread
      BY <2>2, NewThread
    <3> QED
      BY <3>1, <3>2, <2>1 DEF TypeOK
  <2>6. flag' \in [Modes -> BOOLEAN]
    BY <1>6 DEF TypeOK, Start
  <2> QED
    BY <1>6, <2>4, <2>5, <2>6 DEF TypeOK, Start, driver, lights
<1>7. ASSUME Destroy \/ Release \/ Run PROVE TypeOK'
  <2>1. NoThread \in HandlerThread
    BY NewThread, PcsAre
  <2>2. thr' \in [Threads -> HandlerThread]
    BY <1>7, <2>1 DEF TypeOK, Destroy, Release, Run
  <2>3. CASE Destroy
    BY <2>2, <2>3 DEF TypeOK, Destroy, driver
  <2>4. CASE Release
    <3>1. flag' \in [Modes -> BOOLEAN] /\ pool' \in [Modes -> Threads \cup {0}]
      BY <2>4 DEF Release
    <3>2. owner' \in [{"dev", "info"} -> Threads \cup {0}]
      BY <2>4 DEF TypeOK, Release
    <3> QED
      BY <2>2, <2>4, <3>1, <3>2 DEF TypeOK, Release
  <2>5. CASE Run
    BY <2>2, <2>5 DEF TypeOK, Run, driver
  <2> QED
    BY <1>7, <2>3, <2>4, <2>5
<1>8. ASSUME NEW t \in Threads, Handler(t) PROVE TypeOK'
  <2>1. ASSUME NEW p \in ThreadPcs, thr' = [thr EXCEPT ![t].pc = p] PROVE thr' \in [Threads -> HandlerThread]
    <3>1. [thr[t] EXCEPT !.pc = p] \in HandlerThread
      BY ThreadFields DEF TypeOK
    <3> QED
      BY <2>1, <3>1 DEF TypeOK
  <2>2. CASE Lock(t) \/ Status(t)
    <3>1. \E p \in ThreadPcs : thr' = [thr EXCEPT ![t].pc = p]
      BY <2>2, PcsAre DEF Lock, Status
    <3>2. owner' \in [{"dev", "info"} -> Threads \cup {0}]
      BY <2>2 DEF TypeOK, Lock, Status
    <3> QED
      BY <2>1, <2>2, <3>1, <3>2 DEF TypeOK, Lock, Status, ThreadOnly, driver, app
  <2>3. CASE Write(t) \/ Die(t)
    <3>1. \E p \in ThreadPcs : thr' = [thr EXCEPT ![t].pc = p]
      BY <2>3, PcsAre DEF Write, Die
    <3>2. thr[t].level \in 0 .. 8
      BY DEF TypeOK, HandlerThread
    <3>3. owner' \in [{"dev", "info"} -> Threads \cup {0}]
      BY <2>3 DEF TypeOK, Write, Die
    <3> QED
      BY <2>1, <2>3, <3>1, <3>2, <3>3 DEF TypeOK, Write, Die, ThreadOnly, driver, app
  <2>4. CASE Measure(t)
    <3>1. PICK x \in Samples : thr' = [thr EXCEPT ![t].pc = "lock",
                                       ![t].level = get_wifi_network_level(x, thr[t].mode)]
      BY <2>4 DEF Measure
    <3>2. get_wifi_network_level(x, thr[t].mode) \in 0 .. 8
      BY LevelInRange
    <3>3. [thr[t] EXCEPT !.pc = "lock", !.level = get_wifi_network_level(x, thr[t].mode)] \in HandlerThread
      BY <3>2, ThreadFields, PcsAre DEF TypeOK
    <3>4. thr' = [thr EXCEPT ![t] = [thr[t] EXCEPT !.pc = "lock", !.level = get_wifi_network_level(x, thr[t].mode)]]
      BY <3>1 DEF TypeOK
    <3>5. thr' \in [Threads -> HandlerThread]
      BY <3>3, <3>4 DEF TypeOK
    <3> QED
      BY <2>4, <3>5 DEF TypeOK, Measure, ThreadOnly, driver, app
  <2> QED
    BY <1>8, <2>1, <2>2, <2>3, <2>4 DEF Handler
<1>9. ASSUME UNCHANGED vars PROVE TypeOK'
  BY <1>9 DEF TypeOK, vars, driver, lights, app
<1> QED
  BY <1>1, <1>2, <1>3, <1>4, <1>5, <1>6, <1>7, <1>8, <1>9 DEF Next, User, Main

LEMMA NextRead == TypeOK /\ ReadNeverBlocks /\ [Next]_vars => ReadNeverBlocks'
<1> SUFFICES ASSUME TypeOK, ReadNeverBlocks, [Next]_vars PROVE ReadNeverBlocks'
  OBVIOUS
<1>1. CASE \E k \in Keys : Press(k) \/ Interrupt(k)
  BY <1>1, WifiAssumption DEF ReadNeverBlocks, Press, Interrupt, Latch, Unlock, app
<1>2. CASE Timer
  BY <1>2 DEF ReadNeverBlocks, Timer, Fire, Rearm, driver, app
<1>3. CASE Poll \/ Read \/ Trylock \/ Forget \/ ReadUnlock \/ Quit \/ Kill
  BY <1>3 DEF TypeOK, ReadNeverBlocks, Poll, Read, Trylock, Forget, ReadUnlock, Quit, Kill
<1>4. CASE Clean \/ Join \/ Start \/ Destroy \/ Release \/ Run
  BY <1>4 DEF ReadNeverBlocks, Clean, Join, Cleaned, Start, Destroy, Release, Run
<1>5. CASE \E t \in Threads : Handler(t)
  BY <1>5 DEF ReadNeverBlocks, Handler, Lock, Status, Write, Measure, Die, ThreadOnly, driver, app
<1>6. CASE UNCHANGED vars
  BY <1>6 DEF ReadNeverBlocks, vars, driver, app
<1> QED
  BY <1>1, <1>2, <1>3, <1>4, <1>5, <1>6 DEF Next, User, Main
-----------------------------------------------------------------------------
(* The handler threads and their ids *)

HandlerInv == OneActive /\ OneFlag /\ CalmInv /\ IdInv /\ CleanInv

\* A step that leaves the pool, the threads and the flags alone.
LEMMA Elsewhere ==
    ASSUME HandlerInv, UNCHANGED <<flag, pool, thr>>,
           \/ UNCHANGED <<main, key>>
           \/ main \in Calm /\ main' \in Calm /\ (main' = "clean" => key' \in Modes \cup {MODE_APP_SHUTDOWN})
           \/ main' \in {"end", "close", "killed", "crashed"}
           \/ main = "gone" /\ main' = "poll"
    PROVE  HandlerInv'
<1>1. OneActive' /\ OneFlag'
  BY DEF HandlerInv, OneActive, OneFlag, Active
<1>2. CalmInv'
  BY DEF HandlerInv, CalmInv, CleanInv, Calm, Active, Live, Ended
<1>3. IdInv'
  BY ModesAre DEF HandlerInv, IdInv, CleanInv, Calm, Active
<1>4. CleanInv'
  BY DEF HandlerInv, CleanInv, Calm, Active, Flagged
<1> QED
  BY <1>1, <1>2, <1>3, <1>4 DEF HandlerInv

LEMMA CleanKeeps == TypeOK /\ HandlerInv /\ Clean => HandlerInv'
<1> SUFFICES ASSUME TypeOK, HandlerInv, Clean PROVE HandlerInv'
  OBVIOUS
<1> DEFINE p == pool[MODE_QUALITY_CHECK]
<1>1. CASE Flagged = {} /\ Cleaned /\ UNCHANGED <<flag, thr>>
  <2>1. main = "clean" /\ UNCHANGED <<flag, thr, pool, key>>
    BY <1>1 DEF Clean
  <2>2. \A t \in Threads : ~Active(t)
    <3> SUFFICES ASSUME NEW t \in Threads, Active(t) PROVE FALSE
      OBVIOUS
    <3>1. Live(t) /\ thr[t].mode \in Modes /\ ~flag[thr[t].mode]
      BY <1>1, <2>1 DEF HandlerInv, CalmInv, Calm, Flagged
    <3> QED
      BY <2>1, <3>1 DEF HandlerInv, CalmInv, Calm
  <2>3. OneActive' /\ OneFlag'
    BY <2>1 DEF HandlerInv, OneActive, OneFlag, Active
  <2>4. CleanInv'
    BY <1>1, <2>1, <2>2, ModesAre DEF HandlerInv, CleanInv, Cleaned, Flagged, Active
  <2>5. CalmInv' /\ IdInv'
    BY <1>1, <2>1, ModesAre DEF HandlerInv, CalmInv, IdInv, Cleaned, Calm, Active
  <2> QED
    BY <2>3, <2>4, <2>5 DEF HandlerInv
<1>2. CASE main' = "crashed" /\ UNCHANGED <<flag, thr>>
  BY <1>2, Elsewhere DEF Clean
<1>3. CASE /\ Flagged # {} /\ p # 0 /\ main' = "join" /\ UNCHANGED flag
           /\ thr' = [thr EXCEPT ![p].cancelled = TRUE]
  <2>1. main = "clean" /\ UNCHANGED <<pool, key>>
    BY <1>3 DEF Clean
  <2>2. \A t \in Threads : thr'[t].pc = thr[t].pc
    BY <1>3 DEF TypeOK, HandlerThread
  <2>3. p \in Threads
    BY <1>3, ModesAre DEF TypeOK
  <2>4. OneActive' /\ OneFlag'
    BY <1>3, <2>2 DEF HandlerInv, OneActive, OneFlag, Active
  <2>5. CleanInv'
    BY <1>3, <2>1 DEF HandlerInv, CleanInv, Flagged
  <2>6. CalmInv' /\ IdInv'
    BY <1>3, <2>1, <2>2, <2>3 DEF HandlerInv, CalmInv, IdInv, Calm, Active
  <2> QED
    BY <2>4, <2>5, <2>6 DEF HandlerInv
<1> QED
  BY <1>1, <1>2, <1>3 DEF Clean

LEMMA JoinKeeps == TypeOK /\ HandlerInv /\ Join => HandlerInv'
<1> SUFFICES ASSUME TypeOK, HandlerInv, Join PROVE HandlerInv'
  OBVIOUS
<1> DEFINE p == pool[MODE_QUALITY_CHECK]
<1>1. main = "join" /\ UNCHANGED <<pool, key>> /\ Cleaned /\ p # 0 /\ Flagged # {}
  BY DEF Join, HandlerInv, CleanInv
<1>2. p \in Threads
  BY <1>1, ModesAre DEF TypeOK
<1>3. \A t \in Threads : thr'[t].pc = IF t = p THEN "joined" ELSE thr[t].pc
  BY <1>2 DEF Join, TypeOK, HandlerThread
<1>4. \A t \in Threads : thr[t].pc # "none" => t = p
  BY <1>1 DEF HandlerInv, IdInv, Calm
<1>5. \A t \in Threads : ~Active(t)'
  BY <1>3, <1>4 DEF Active
<1>6. First \in Flagged
  <2>1. PICK m \in Flagged : \A n \in Flagged : m = n
    BY <1>1 DEF HandlerInv, OneFlag, Flagged
  <2>2. m \in Flagged /\ \A n \in Flagged : m <= n
    BY <2>1, ModesAre DEF Flagged
  <2> QED
    BY <2>2 DEF First
<1>7. Flagged' = {}
  <2>1. flag' = [flag EXCEPT ![First] = FALSE]
    BY DEF Join
  <2>2. \A m \in Modes : flag[m] => m = First
    BY <1>6 DEF HandlerInv, OneFlag, Flagged
  <2>3. \A m \in Modes : ~flag'[m]
    BY <2>1, <2>2 DEF TypeOK
  <2> QED
    BY <2>3 DEF Flagged
<1>8. OneActive' /\ OneFlag'
  BY <1>5, <1>7 DEF OneActive, OneFlag, Flagged
<1>9. CleanInv'
  BY <1>1, <1>5, <1>7 DEF HandlerInv, CleanInv, Cleaned
<1>10. CalmInv' /\ IdInv'
  BY <1>1, <1>2, <1>3, <1>4 DEF CalmInv, IdInv, Cleaned, Calm
<1> QED
  BY <1>8, <1>9, <1>10 DEF HandlerInv

LEMMA StartKeeps == TypeOK /\ HandlerInv /\ Start => HandlerInv'
<1> SUFFICES ASSUME TypeOK, HandlerInv, Start PROVE HandlerInv'
  OBVIOUS
<1> DEFINE p == pool[MODE_QUALITY_CHECK]
<1>1. PICK t \in Threads :
          /\ thr[t].pc \in {"joined", "none"}
          /\ thr[t].pc = "none" => \A u \in Threads : thr[u].pc # "joined"
          /\ pool' = [pool EXCEPT ![key] = t]
  BY FreeId DEF Start
<1>2. pool' = [pool EXCEPT ![key] = t] /\ flag' = [flag EXCEPT ![key] = TRUE] /\ main' = "poll"
  BY <1>1 DEF Start
<1>3. key \in Modes /\ Flagged = {} /\ \A u \in Threads : ~Active(u)
  BY DEF Start, HandlerInv, CleanInv
<1>4. pool'[key] = t
  BY <1>2, <1>3 DEF TypeOK
<1>5. PICK q \in {"lock", "lock_info"} :
          thr' = [thr EXCEPT ![t] = [mode |-> key, level |-> 0, cancelled |-> FALSE, pc |-> q]]
  BY <1>4 DEF Start
<1>6. thr'[t] = [mode |-> key, level |-> 0, cancelled |-> FALSE, pc |-> q]
  BY <1>1, <1>5 DEF TypeOK
<1>7. Active(t)' /\ Live(t)' /\ thr'[t].mode = key /\ ~thr'[t].cancelled
  <2>1. thr'[t].pc = q /\ thr'[t].mode = key /\ ~thr'[t].cancelled
    BY <1>6
  <2>2. q \notin {"none", "dead", "joined"}
    BY <1>5
  <2> QED
    BY <2>1, <2>2 DEF Active, Live, Ended
<1>8. \A u \in Threads : u # t => thr'[u] = thr[u] /\ ~Active(u)' /\ ~Live(u)'
  <2> SUFFICES ASSUME NEW u \in Threads, u # t PROVE thr'[u] = thr[u] /\ ~Active(u)' /\ ~Live(u)'
    OBVIOUS
  <2>1. thr'[u] = thr[u]
    BY <1>5 DEF TypeOK
  <2> QED
    BY <2>1, <1>3 DEF Active, Live, Ended
<1>9. \A m \in Modes : flag'[m] <=> m = key
  BY <1>2, <1>3 DEF TypeOK, Flagged
<1>10. OneActive' /\ OneFlag'
  BY <1>8, <1>9 DEF OneActive, OneFlag
<1>11. CalmInv'
  <2>1. \A m \in Modes : flag'[m] <=> \E u \in Threads : Live(u)' /\ thr'[u].mode = m
    BY <1>1, <1>7, <1>8, <1>9
  <2>2. \A u \in Threads : Active(u)' => Live(u)' /\ ~thr'[u].cancelled /\ thr'[u].mode \in Modes
    BY <1>3, <1>7, <1>8
  <2> QED
    BY <2>1, <2>2 DEF CalmInv, Live, Active
<1>12. IdInv'
  <2>1. \A u \in Threads : u # t => thr[u].pc = "none"
    <3> SUFFICES ASSUME NEW u \in Threads, u # t, thr[u].pc # "none" PROVE FALSE
      OBVIOUS
    <3>1. thr[u].pc = "joined"
      BY <1>3 DEF Active
    <3>2. thr[t].pc = "joined"
      BY <1>1, <3>1
    <3>3. p # 0
      BY <1>3, <3>1 DEF Start, HandlerInv, IdInv
    <3> QED
      BY <1>1, <3>1, <3>2, <3>3 DEF Start, HandlerInv, IdInv
  <2>2. \A u \in Threads : thr'[u].pc # "none" => u = t
    BY <1>8, <2>1
  <2>3. pool'[MODE_QUALITY_CHECK] # 0 => pool'[MODE_QUALITY_CHECK] = t
    <3>1. CASE key = MODE_QUALITY_CHECK
      BY <1>4, <3>1
    <3>2. CASE key # MODE_QUALITY_CHECK
      <4>1. pool'[MODE_QUALITY_CHECK] = p
        BY <1>2, <3>2, ModesAre DEF TypeOK
      <4>2. p # 0 => p \in Threads /\ thr[p].pc # "none"
        BY ModesAre DEF TypeOK, Start, HandlerInv, IdInv
      <4> QED
        BY <4>1, <4>2, <2>1
    <3> QED
      BY <3>1, <3>2
  <2> QED
    <3>1. thr'[t].pc # "none" /\ Active(t)'
      BY <1>7 DEF Active
    <3> QED
      BY <2>2, <2>3, <3>1 DEF IdInv, Active
<1>13. CleanInv'
  BY <1>2 DEF CleanInv
<1> QED
  BY <1>10, <1>11, <1>12, <1>13 DEF HandlerInv

LEMMA HandlerKeeps ==
    ASSUME TypeOK, HandlerInv, NEW t \in Threads, Handler(t)
    PROVE  HandlerInv'
<1>1. UNCHANGED <<main, key, flag, pool>>
  BY DEF Handler, Lock, Status, Write, Measure, Die, ThreadOnly, app
<1>2. Active(t)
  BY DEF Handler, Lock, Status, Write, Measure, Die, Active
<1>3. \A u \in Threads : u # t => thr'[u] = thr[u]
  BY DEF Handler, Lock, Status, Write, Measure, Die, TypeOK
<1>4. /\ thr'[t].pc \in {"status", "write", "lock", "measure", "dead"}
      /\ thr'[t].mode = thr[t].mode /\ thr'[t].cancelled = thr[t].cancelled
      /\ thr[t].cancelled \/ thr'[t].pc # "dead"
  <2>1. CASE Lock(t)
    BY <2>1 DEF Lock, TypeOK, HandlerThread
  <2>2. CASE Status(t) \/ Write(t)
    BY <2>2 DEF Status, Write, TypeOK, HandlerThread
  <2>3. CASE Measure(t)
    BY <2>3 DEF Measure, TypeOK, HandlerThread
  <2>4. CASE Die(t)
    BY <2>4 DEF Die, TypeOK, HandlerThread
  <2> QED
    BY <2>1, <2>2, <2>3, <2>4 DEF Handler
<1>5. Active(t)' /\ (~thr[t].cancelled => Live(t)')
  BY <1>4 DEF Active, Live, Ended
<1>6. \A u \in Threads : /\ Active(u)' <=> Active(u)
                         /\ thr'[u].mode = thr[u].mode /\ thr'[u].cancelled = thr[u].cancelled
                         /\ thr'[u].pc = "none" <=> thr[u].pc = "none"
                         /\ u # t => (Live(u)' <=> Live(u))
  BY <1>2, <1>3, <1>4, <1>5 DEF Active, Live
<1>7. OneActive' /\ OneFlag'
  BY <1>1, <1>6 DEF HandlerInv, OneActive, OneFlag
<1>8. CalmInv'
  <2> SUFFICES ASSUME main \in Calm PROVE CalmInv'
    BY <1>1 DEF CalmInv
  <2>1. /\ \A m \in Modes : flag[m] <=> \E u \in Threads : Live(u) /\ thr[u].mode = m
        /\ \A u \in Threads : Active(u) => Live(u) /\ ~thr[u].cancelled /\ thr[u].mode \in Modes
    BY DEF HandlerInv, CalmInv
  <2>2. Live(t) /\ Live(t)'
    BY <1>2, <1>5, <2>1
  <2>3. \A u \in Threads : Live(u)' <=> Live(u)
    BY <1>6, <2>2
  <2>4. \A m \in Modes : flag'[m] <=> \E u \in Threads : Live(u)' /\ thr'[u].mode = m
    BY <1>1, <1>6, <2>1, <2>3
  <2>5. \A u \in Threads : Active(u)' => Live(u)' /\ ~thr'[u].cancelled /\ thr'[u].mode \in Modes
    BY <1>6, <2>1, <2>3
  <2> QED
    BY <2>4, <2>5 DEF CalmInv, Live, Active
<1>9. IdInv'
  <2> SUFFICES ASSUME main \in Calm \cup {"join", "start"} PROVE IdInv'
    BY <1>1 DEF IdInv
  <2>1. CASE pool[MODE_QUALITY_CHECK] = 0
    <3>1. \A u \in Threads : thr'[u].pc # "none" => Active(u)'
      BY <1>6, <2>1 DEF HandlerInv, IdInv
    <3> QED
      BY <1>1, <2>1, <3>1 DEF IdInv, Active
  <2>2. CASE pool[MODE_QUALITY_CHECK] # 0
    <3>1. pool[MODE_QUALITY_CHECK] \in Threads
      BY <2>2, ModesAre DEF TypeOK
    <3> QED
      BY <1>1, <1>6, <2>2, <3>1 DEF HandlerInv, IdInv
  <2> QED
    BY <2>1, <2>2
<1>10. CleanInv'
  <2>1. main \notin {"start", "gone"}
    BY <1>2 DEF HandlerInv, CleanInv, Active
  <2> QED
    BY <1>1, <2>1 DEF HandlerInv, CleanInv, Flagged
<1> QED
  BY <1>7, <1>8, <1>9, <1>10 DEF HandlerInv

LEMMA ReleaseKeeps == Release => HandlerInv'
<1> SUFFICES ASSUME Release PROVE HandlerInv'
  OBVIOUS
<1>1. main' = "gone" /\ \A m \in Modes : ~flag'[m] /\ pool'[m] = 0
  BY DEF Release
<1>2. \A t \in Threads : thr'[t].pc = "none"
  BY DEF Release, NoThread
<1> QED
  BY <1>1, <1>2 DEF HandlerInv, OneActive, OneFlag, CalmInv, IdInv, CleanInv, Calm, Active

LEMMA NextHandlers == TypeOK /\ HandlerInv /\ [Next]_vars => HandlerInv'
<1> SUFFICES ASSUME TypeOK, HandlerInv, [Next]_vars PROVE HandlerInv'
  OBVIOUS
<1>1. CASE (\E k \in Keys : Press(k) \/ Interrupt(k)) \/ Timer \/ UNCHANGED vars
  <2>1. UNCHANGED <<main, key, flag, pool, thr>>
    BY <1>1 DEF Press, Interrupt, Latch, Unlock, Timer, Fire, Rearm, app, vars
  <2> QED
    BY <2>1, Elsewhere
<1>2. CASE Poll \/ Read \/ Trylock \/ Forget \/ ReadUnlock
  <2>1. UNCHANGED <<flag, pool, thr>> /\ main \in Calm /\ main' \in Calm
    BY <1>2 DEF Poll, Read, Trylock, Forget, ReadUnlock, MainOnly, Calm
  <2>2. main' = "clean" => key' \in Modes \cup {MODE_APP_SHUTDOWN}
    BY <1>2 DEF Poll, Read, Trylock, Forget, ReadUnlock
  <2> QED
    BY <2>1, <2>2, Elsewhere
<1>3. CASE Quit \/ Kill \/ Destroy
  <2>1. UNCHANGED <<flag, pool, thr>> /\ main' \in {"end", "close", "killed"}
    BY <1>3 DEF Quit, Kill, Destroy, MainOnly
  <2> QED
    BY <2>1, Elsewhere
<1>4. CASE Run
  <2>1. UNCHANGED <<flag, pool, thr>> /\ main = "gone" /\ main' = "poll"
    BY <1>4 DEF Run
  <2> QED
    BY <2>1, Elsewhere
<1> QED
  BY <1>1, <1>2, <1>3, <1>4, CleanKeeps, JoinKeeps, StartKeeps, ReleaseKeeps, HandlerKeeps DEF Next, User, Main
-----------------------------------------------------------------------------
\* The inductive invariant: which thread ids are in use, and who has them, whatever the
\* keys, the measurements and the number of presses and sessions.
THEOREM Invariance == Spec => []IInv
<1>1. IInv /\ [Next]_vars => IInv'
  BY NextType, NextRead, NextHandlers DEF IInv, HandlerInv
<1> QED
  BY InitInv, <1>1, PTL DEF Spec

\* Every variable of driver and application keeps its type.
THEOREM TypeCorrect == Spec => []TypeOK
<1>1. IInv => TypeOK
  BY DEF IInv
<1> QED
  BY Invariance, <1>1, PTL

\* The main thread never blocks in read.
THEOREM NeverBlocks == Spec => []ReadNeverBlocks
<1>1. IInv => ReadNeverBlocks
  BY DEF IInv
<1> QED
  BY Invariance, <1>1, PTL

\* One handler thread at most, of the mode whose flag is set: what clean_handler ends
\* is the thread that runs, unless it follows an id that was never written.
THEOREM OneHandler == Spec => []HandlerOfMode
<1>1. IInv => HandlerOfMode
  <2> SUFFICES ASSUME IInv PROVE HandlerOfMode
    OBVIOUS
  <2>1. \A t \in Threads : Live(t) => Active(t)
    BY DEF Live, Active, Ended
  <2> QED
    BY <2>1 DEF IInv, OneActive, CalmInv, Calm, HandlerOfMode
<1> QED
  BY Invariance, <1>1, PTL
=============================================================================
