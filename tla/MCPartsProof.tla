---------------------------- MODULE MCPartsProof ----------------------------
(***************************************************************************)
(* The proofs about the loop of the agent and the parts that MCParts puts  *)
(* beside it. The invariant of each part is inductive in its own steps,    *)
(* and the steps of the others leave its variables alone.                  *)
(***************************************************************************)
EXTENDS MCParts, SeqInduction

-----------------------------------------------------------------------------
(***************************************************************************)
(* The timers of SrAgent are punctual: none fires before its period has    *)
(* passed, and none is late by two turns of the loop, for any timers,      *)
(* periods, lengths of a second, of the nap and of a turn. The invariant   *)
(* says, of an active timer, that its fire time as a timespec is where the *)
(* reference says it is (Clock), and how late it can be (Late): less once  *)
(* this turn has looked at it (Checked) than before.                       *)
(***************************************************************************)
Timing ==
    /\ timers \in Seq(Timers)
    /\ active \in [Timers -> BOOLEAN]
    /\ val \in [Timers -> Vals]
    /\ end \in [Timers -> Timespec]
    /\ due \in [Timers -> Int]
    /\ nsec \in 0 .. Sec - 1
    /\ pc \in {"setup", "nap", "scan", "run", "dispatch", "handle"}
    /\ k \in Nat \ {0}
    /\ pc = "run" => k <= Len(timers)
    /\ turn \in 0 .. MaxTurn
    /\ pc = "setup" => turn = 0
    /\ pc \in {"scan", "run", "dispatch", "handle"} => turn >= Nap

Millis(time) == time.sec * Sec + time.nsec

Clock == \A t \in Timers : active[t] => Millis(end[t]) = nsec + due[t]

(* Whether this turn has looked at a timer. *)
Checked(t) ==
    \/ pc \in {"dispatch", "handle"}
    \/ pc \in {"scan", "run"} /\ \A n \in DOMAIN timers : n >= k => timers[n] # t

(* Only timers of the list are active. *)
InList == \A t \in Timers : active[t] => \E n \in DOMAIN timers : timers[n] = t

Late ==
    \A t \in Timers : active[t] =>
        /\ Checked(t) => due[t] >= Nap - turn
        /\ due[t] >= Nap - MaxTurn - turn

AgentInv == Timing /\ InList /\ Clock /\ Late

-----------------------------------------------------------------------------
(* The arithmetic of SrTimer *)

LEMMA BelowZero ==
    ASSUME NEW s \in Int, s <= -1, NEW K \in Nat \ {0}
    PROVE  s * K <= -K
  OBVIOUS

LEMMA AboveZero ==
    ASSUME NEW s \in Int, s >= 1, NEW K \in Nat \ {0}
    PROVE  s * K >= K
  OBVIOUS

LEMMA Distribute ==
    ASSUME NEW s \in Int, NEW K \in Nat \ {0}
    PROVE  /\ (s - 1) * K = s * K - K
           /\ (s + 1) * K = s * K + K
           /\ s * K \in Int
           /\ s * K = K * s
  OBVIOUS

LEMMA Carry ==
    ASSUME NEW s \in Int, NEW e \in Int, NEW n \in Int, NEW d \in Int, NEW K \in Int,
           s + e = n + d, n + 1 = K
    PROVE  (s - K) + e = d - 1
  OBVIOUS

LEMMA Division ==
    ASSUME NEW v \in Nat, NEW K \in Nat \ {0}
    PROVE  /\ v \div K \in Nat /\ v % K \in 0 .. K - 1
           /\ (v \div K) * K + (v % K) = v
  OBVIOUS

(* A fire time is a timespec, as far from now as the period is long.       *)
LEMMA FireTimeRight ==
    ASSUME NEW n \in 0 .. Sec - 1, NEW v \in Nat
    PROVE  /\ FireTime([sec |-> 0, nsec |-> n], v) \in Timespec
           /\ Millis(FireTime([sec |-> 0, nsec |-> n], v)) = n + v
<1> DEFINE q == v \div Sec
           r == v % Sec
<1>1. q \in Nat /\ r \in 0 .. Sec - 1 /\ q * Sec + r = v
  BY Division, SecAssumption
<1>2. (q + 1) * Sec = q * Sec + Sec /\ q * Sec \in Int
  BY <1>1, Distribute, SecAssumption
<1>3. FireTime([sec |-> 0, nsec |-> n], v) =
        IF n + r >= Sec THEN [sec |-> (0 + q) + 1, nsec |-> (n + r) - Sec]
        ELSE [sec |-> 0 + q, nsec |-> n + r]
  BY Zenon DEF FireTime
<1> HIDE DEF q, r
<1> DEFINE f == FireTime([sec |-> 0, nsec |-> n], v)
<1>4. CASE n + r >= Sec
  <2>1. f = [sec |-> (0 + q) + 1, nsec |-> (n + r) - Sec]
    BY <1>3, <1>4, Zenon
  <2> HIDE DEF f
  <2>2. f.sec = q + 1 /\ f.nsec = n + r - Sec /\ f \in Timespec
    BY <1>1, <1>4, <2>1, SecAssumption DEF Timespec
  <2>3. f \in Timespec /\ Millis(f) = n + v
    BY <1>1, <1>2, <2>2, SecAssumption DEF Millis
  <2> QED
    BY <2>3 DEF f
<1>5. CASE ~(n + r >= Sec)
  <2>1. f = [sec |-> 0 + q, nsec |-> n + r]
    BY <1>3, <1>5, Zenon
  <2> HIDE DEF f
  <2>2. f.sec = q /\ f.nsec = n + r /\ f \in Timespec
    BY <1>1, <1>5, <2>1, SecAssumption DEF Timespec
  <2>3. f \in Timespec /\ Millis(f) = n + v
    BY <1>1, <1>2, <2>2, SecAssumption DEF Millis
  <2> QED
    BY <2>3 DEF f
<1> QED
  BY <1>4, <1>5

(* A timer that the loop finds due is due. *)
LEMMA DueRight ==
    ASSUME AgentInv, NEW t \in Timers, Due(t)
    PROVE  due[t] <= 0
<1>1. end[t] \in Timespec /\ due[t] \in Int /\ active[t]
  BY DEF AgentInv, Timing, Due
<1>2. end[t].sec * Sec + end[t].nsec = nsec + due[t]
  BY <1>1 DEF AgentInv, Clock, Millis
<1>3. nsec \in 0 .. Sec - 1
  BY DEF AgentInv, Timing
<1>4. CASE end[t].sec = 0
  <2>1. end[t].nsec <= nsec
    BY <1>4 DEF Due, AtMost, Now
  <2> QED
    BY <1>1, <1>2, <1>3, <1>4, <2>1, SecAssumption DEF Timespec
<1>5. CASE end[t].sec # 0
  <2>1. end[t].sec \in Int /\ end[t].nsec \in 0 .. Sec - 1
    BY <1>1 DEF Timespec
  <2>2. end[t].sec <= -1
    BY <1>5, <2>1 DEF Due, AtMost, Now
  <2>3. end[t].sec * Sec <= -Sec /\ end[t].sec * Sec \in Int
    BY <2>1, <2>2, BelowZero, Distribute, SecAssumption
  <2> QED
    BY <1>1, <1>2, <1>3, <2>1, <2>3, SecAssumption
<1> QED
  BY <1>4, <1>5

(* A timer that it finds not to be due is not. *)
LEMMA NotDueRight ==
    ASSUME AgentInv, NEW t \in Timers, active[t], ~Due(t)
    PROVE  due[t] >= 1
<1>1. end[t] \in Timespec /\ due[t] \in Int /\ nsec \in 0 .. Sec - 1
  BY DEF AgentInv, Timing
<1>2. end[t].sec * Sec + end[t].nsec = nsec + due[t]
  BY DEF AgentInv, Clock, Millis
<1>3. end[t].sec \in Int /\ end[t].nsec \in 0 .. Sec - 1
  BY <1>1 DEF Timespec
<1>4. CASE end[t].sec = 0
  BY <1>1, <1>2, <1>3, <1>4, SecAssumption DEF Due, AtMost, Now
<1>5. CASE end[t].sec # 0
  <2>1. end[t].sec >= 1
    BY <1>3, <1>5 DEF Due, AtMost, Now
  <2>2. end[t].sec * Sec >= Sec /\ end[t].sec * Sec \in Int
    BY <1>3, <2>1, AboveZero, Distribute, SecAssumption
  <2> QED
    BY <1>1, <1>2, <1>3, <2>2, SecAssumption
<1> QED
  BY <1>4, <1>5

-----------------------------------------------------------------------------
(* The invariant *)

LEMMA InitAgent == Init => AgentInv
<1> SUFFICES ASSUME Init PROVE AgentInv
  OBVIOUS
<1>1. Timing
  BY AgentAssumption, SecAssumption DEF Init, Timing, Zero, Timespec
<1>2. \A t \in Timers : ~active[t]
  BY DEF Init
<1> QED
  BY <1>1, <1>2 DEF AgentInv, InList, Clock, Late

(* start() sets the fire time of one timer, a period from now.             *)
LEMMA StartedRight ==
    ASSUME AgentInv, NEW t \in Timers, Started(t)
    PROVE  /\ active' \in [Timers -> BOOLEAN]
           /\ end' \in [Timers -> Timespec]
           /\ due' \in [Timers -> Int]
           /\ \A u \in Timers \ {t} :
                 active'[u] = active[u] /\ end'[u] = end[u] /\ due'[u] = due[u]
           /\ Millis(end'[t]) = nsec + due'[t]
           /\ due'[t] \in Nat
<1>1. val[t] \in Nat /\ nsec \in 0 .. Sec - 1
  BY AgentAssumption DEF AgentInv, Timing
<1>2. /\ FireTime(Now, val[t]) \in Timespec
      /\ Millis(FireTime(Now, val[t])) = nsec + val[t]
  BY <1>1, FireTimeRight DEF Now
<1> QED
  BY <1>1, <1>2 DEF AgentInv, Timing, Started

(* A second that passes takes one from the seconds of every fire time.     *)
LEMMA TickEnd ==
    ASSUME AgentInv, Tick, NEW t \in Timers, active[t]
    PROVE  /\ end'[t] \in Timespec
           /\ Millis(end'[t]) = nsec' + due'[t]
<1>1. /\ end[t] \in Timespec /\ due[t] \in Int /\ nsec \in 0 .. Sec - 1
      /\ Millis(end[t]) = nsec + due[t]
  BY DEF AgentInv, Timing, Clock
<1>2. due'[t] = due[t] - 1 /\ nsec' = (nsec + 1) % Sec
  BY DEF Tick
<1>3. CASE nsec + 1 = Sec
  <2>1. nsec' = 0
    BY <1>1, <1>2, <1>3, SecAssumption
  <2>2. end'[t] = [end[t] EXCEPT !.sec = @ - 1]
    BY <2>1 DEF Tick
  <2>3. end'[t] \in Timespec /\ end'[t].sec = end[t].sec - 1 /\ end'[t].nsec = end[t].nsec
    BY <1>1, <2>2 DEF Timespec
  <2>4. /\ end[t].sec \in Int /\ end[t].nsec \in Int
        /\ (end[t].sec - 1) * Sec = end[t].sec * Sec - Sec
        /\ end[t].sec * Sec \in Int
    BY <1>1, Distribute, SecAssumption DEF Timespec
  <2> QED
    <3>1. Millis(end'[t]) = (end[t].sec - 1) * Sec + end[t].nsec
      BY <2>3 DEF Millis
    <3>2. end[t].sec * Sec + end[t].nsec = nsec + due[t]
      BY <1>1 DEF Millis
    <3> DEFINE x == end[t].sec * Sec
    <3>3. Millis(end'[t]) = (x - Sec) + end[t].nsec /\ x + end[t].nsec = nsec + due[t] /\ x \in Int
      BY <2>4, <3>1, <3>2
    <3> HIDE DEF x
    <3>4. due'[t] = due[t] - 1
      BY <1>2
    <3>5. due[t] \in Int /\ nsec \in Int /\ Sec \in Int /\ end[t].nsec \in Int
      BY <1>1, <2>4, SecAssumption
    <3>6. x \in Int /\ x + end[t].nsec = nsec + due[t]
      BY <3>3
    <3>7. (x - Sec) + end[t].nsec = due[t] - 1
      BY ONLY <1>3, <3>5, <3>6, Carry
    <3>8. Millis(end'[t]) = due[t] - 1
      BY ONLY <3>3, <3>7
    <3>9. nsec' + due'[t] = due[t] - 1
      BY ONLY <2>1, <3>4, <3>5
    <3> QED
      BY <2>3, <3>8, <3>9
<1>4. CASE nsec + 1 # Sec
  <2>1. nsec' = nsec + 1 /\ nsec' # 0
    BY <1>1, <1>2, <1>4, SecAssumption
  <2>2. end'[t] = end[t]
    BY <2>1 DEF Tick
  <2>3. end[t].sec \in Int /\ end[t].nsec \in Int /\ end[t].sec * Sec \in Int
    BY <1>1, Distribute, SecAssumption DEF Timespec
  <2> QED
    BY <1>1, <1>2, <2>1, <2>2, <2>3 DEF Millis
<1> QED
  BY <1>3, <1>4

LEMMA StepAgent == AgentInv /\ [Next]_vars => AgentInv'
<1> SUFFICES ASSUME AgentInv, [Next]_vars
             PROVE  AgentInv'
  OBVIOUS
<1> USE AgentAssumption, SecAssumption
<1>1. CASE UNCHANGED <<timers, timerVars, nsec, pc, k, turn>>
  <2>1. Timing' /\ InList' /\ Clock'
    BY <1>1 DEF AgentInv, Timing, InList, Clock, Millis, timerVars
  <2>2. Late'
    BY <1>1 DEF AgentInv, Late, Checked, timerVars
  <2> QED
    BY <2>1, <2>2 DEF AgentInv
<1>2. ASSUME NEW t \in Timers, AddTimer(t)
      PROVE  AgentInv'
  <2>1. /\ Timing /\ InList /\ Clock /\ Late
        /\ timers' = Append(timers, t) /\ pc \in {"setup", "handle"}
        /\ UNCHANGED <<active, val, end, due, nsec, pc, k, turn>>
    BY <1>2 DEF AddTimer, AgentInv, timerVars
  <2>2. /\ timers' \in Seq(Timers) /\ Len(timers') = Len(timers) + 1
        /\ \A n \in DOMAIN timers : n \in DOMAIN timers' /\ timers'[n] = timers[n]
    BY <2>1 DEF Timing
  <2>3. Timing' /\ Clock'
    BY <2>1, <2>2 DEF Timing, Clock, Millis
  <2>4. InList'
    BY <2>1, <2>2 DEF InList
  <2>5. Late'
    BY <2>1 DEF Late, Checked
  <2> QED
    BY <2>3, <2>4, <2>5 DEF AgentInv
<1>3. ASSUME NEW t \in Timers, Start(t)
      PROVE  AgentInv'
  <2>1. Started(t) /\ UNCHANGED <<timers, val, nsec, pc, k, turn>>
    BY <1>3 DEF Start
  <2>2. Timing'
    BY <2>1, StartedRight DEF AgentInv, Timing
  <2>3. Clock'
    BY <2>1, StartedRight DEF AgentInv, Clock, Millis
  <2>4. Late'
    <3> SUFFICES ASSUME NEW u \in Timers, active'[u]
                 PROVE  /\ Checked(u)' => due'[u] >= Nap - turn
                        /\ due'[u] >= Nap - MaxTurn - turn
      BY <2>1 DEF Late
    <3>1. Checked(u)' <=> Checked(u)
      BY <2>1 DEF Checked
    <3>2. CASE u = t
      BY <2>1, <3>1, <3>2, StartedRight DEF AgentInv, Timing, Checked
    <3>3. CASE u # t
      BY <2>1, <3>1, <3>3, StartedRight DEF AgentInv, Late
    <3> QED
      BY <3>2, <3>3
  <2>5. InList'
    <3>1. \E n \in DOMAIN timers : timers[n] = t
      BY <1>3 DEF Start, Listed
    <3> QED
      BY <2>1, <3>1, StartedRight DEF AgentInv, InList
  <2> QED
    BY <2>2, <2>3, <2>4, <2>5 DEF AgentInv
<1>4. ASSUME NEW t \in Timers, Stop(t)
      PROVE  AgentInv'
  <2>1. Timing'
    BY <1>4 DEF Stop, AgentInv, Timing, Zero, Timespec
  <2>2. /\ UNCHANGED <<timers, nsec, pc, k, turn>>
        /\ \A u \in Timers : active'[u] =>
              active[u] /\ end'[u] = end[u] /\ due'[u] = due[u]
    BY <1>4 DEF Stop, AgentInv, Timing
  <2>3. InList' /\ Clock' /\ Late'
    BY <2>2 DEF AgentInv, InList, Clock, Late, Checked, Millis
  <2> QED
    BY <2>1, <2>3 DEF AgentInv
<1>5. ASSUME NEW t \in Timers, NEW v \in Vals, SetInterval(t, v)
      PROVE  AgentInv'
  BY <1>5
     DEF SetInterval, AgentInv, Timing, InList, Clock, Late, Checked, Millis
<1>6. CASE Enter
  BY <1>6
     DEF Enter, AgentInv, Timing, InList, Clock, Late, Checked, Millis,
         timerVars
<1>7. CASE Wake
  BY <1>7
     DEF Wake, AgentInv, Timing, InList, Clock, Late, Checked, Millis, timerVars
<1>8. CASE Scan
  <2>1. timers[k] \in Timers
    BY <1>8 DEF Scan, AgentInv, Timing
  <2>2. CASE Due(timers[k])
    BY <1>8, <2>2
       DEF Scan, AgentInv, Timing, InList, Clock, Late, Checked, Millis,
           timerVars
  <2>3. CASE ~Due(timers[k])
    BY <1>8, <2>1, <2>3, NotDueRight
       DEF Scan, AgentInv, Timing, InList, Clock, Late, Checked, Millis,
           timerVars
  <2> QED
    BY <2>2, <2>3
<1>9. CASE RunEnd
  <2>1. timers[k] \in Timers
    BY <1>9 DEF RunEnd, AgentInv, Timing
  <2>2. CASE active[timers[k]]
    <3>1. Started(timers[k])
      BY <1>9, <2>2 DEF RunEnd
    <3>2. Timing'
      BY <1>9, <2>1, <3>1, StartedRight DEF RunEnd, AgentInv, Timing
    <3>3. Clock'
      BY <1>9, <2>1, <3>1, StartedRight DEF RunEnd, AgentInv, Clock, Millis
    <3>4. Late'
      <4> SUFFICES ASSUME NEW u \in Timers, active'[u]
                   PROVE  /\ Checked(u)' => due'[u] >= Nap - turn
                          /\ due'[u] >= Nap - MaxTurn - turn
        BY <1>9 DEF RunEnd, Late
      <4>1. CASE u = timers[k]
        BY <1>9, <2>1, <3>1, <4>1, StartedRight DEF RunEnd, AgentInv, Timing
      <4>2. CASE u # timers[k]
        <5>1. Checked(u)' => Checked(u)
          BY <1>9, <4>2 DEF RunEnd, Checked, AgentInv, Timing
        <5> QED
          BY <2>1, <3>1, <4>2, <5>1, StartedRight DEF AgentInv, Late
      <4> QED
        BY <4>1, <4>2
    <3>5. InList'
      BY <1>9, <2>1, <2>2, <3>1, StartedRight DEF RunEnd, AgentInv, InList
    <3> QED
      BY <3>2, <3>3, <3>4, <3>5 DEF AgentInv
  <2>3. CASE ~active[timers[k]]
    BY <1>9, <2>1, <2>3
       DEF RunEnd, AgentInv, Timing, InList, Clock, Late, Checked, Millis
  <2> QED
    BY <2>2, <2>3
<1>10. CASE TakeBatch
  BY <1>10
     DEF TakeBatch, Scanned, AgentInv, Timing, InList, Clock, Late, Checked,
         Millis, timerVars
<1>11. CASE NoBatch
  <2>1. \A t \in Timers : Checked(t)
    BY <1>11 DEF NoBatch, Scanned, AgentInv, Timing, Checked
  <2>2. Timing' /\ InList' /\ Clock'
    BY <1>11
       DEF NoBatch, Again, AgentInv, Timing, InList, Clock, Millis, timerVars
  <2>3. Late'
    BY <1>11, <2>1
       DEF NoBatch, Again, AgentInv, Timing, Late, Checked, timerVars
  <2> QED
    BY <2>2, <2>3 DEF AgentInv
<1>12. CASE ReadMessage
  BY <1>12
     DEF ReadMessage, AgentInv, Timing, InList, Clock, Late, Checked, Millis,
         timerVars
<1>13. CASE HandleEnd
  BY <1>13
     DEF HandleEnd, AgentInv, Timing, InList, Clock, Late, Checked, Millis,
         timerVars
<1>14. CASE DispatchEnd
  BY <1>14
     DEF DispatchEnd, Again, AgentInv, Timing, InList, Clock, Late, Checked,
         Millis, timerVars
<1>15. CASE Tick
  <2>1. nsec' \in 0 .. Sec - 1
    BY <1>15 DEF Tick, AgentInv, Timing
  <2>2. end' \in [Timers -> Timespec]
    <3>1. \A t \in Timers : end'[t] \in Timespec
      BY <1>15, TickEnd DEF Tick, AgentInv, Timing
    <3> QED
      BY <1>15, <3>1 DEF Tick
  <2>3. Timing'
    BY <1>15, <2>1, <2>2 DEF Tick, AgentInv, Timing
  <2>4. Clock'
    BY <1>15, TickEnd DEF Tick, Clock, Millis
  <2>5. Late'
    <3> SUFFICES ASSUME NEW u \in Timers, active'[u]
                 PROVE  /\ Checked(u)' => due'[u] >= Nap - turn'
                        /\ due'[u] >= Nap - MaxTurn - turn'
      BY DEF Late
    <3>1. (Checked(u)' <=> Checked(u)) /\ active[u] /\ turn' = turn + 1
      BY <1>15 DEF Tick, Checked
    <3>2. due'[u] = due[u] - 1 /\ due[u] \in Int /\ turn \in Nat
      BY <1>15, <3>1 DEF Tick, AgentInv, Timing
    <3> QED
      BY <3>1, <3>2 DEF AgentInv, Late
  <2>6. InList'
    BY <1>15 DEF Tick, AgentInv, InList
  <2> QED
    BY <2>3, <2>4, <2>5, <2>6 DEF AgentInv
<1>16. ASSUME NEW key, AddHandler(key)
       PROVE  AgentInv'
  BY <1>1, <1>16 DEF AddHandler
<1>17. ASSUME NEW written, PutBatch(written)
       PROVE  AgentInv'
  BY <1>1, <1>17 DEF PutBatch
<1>18. CASE ReadSwitch
  BY <1>1, <1>18 DEF ReadSwitch
<1>19. CASE UNCHANGED vars
  BY <1>1, <1>19 DEF vars
<1> QED
  BY <1>2, <1>3, <1>4, <1>5, <1>6, <1>7, <1>8, <1>9, <1>10, <1>11, <1>12, <1>13,
     <1>14, <1>15, <1>16, <1>17, <1>18, <1>19 DEF Next, App, Loop

-----------------------------------------------------------------------------
(* The theorems *)

LEMMA AgentInvariance == Spec => []AgentInv
  BY InitAgent, StepAgent, PTL DEF Spec

(* No callback runs before its period has passed since the timer was last  *)
(* started, whatever carries over to the next second                       *)
(* (src/sragent.cc 168-187, include/srtimer.h 164-185).                    *)
THEOREM TimersNeverEarly == Spec => NeverEarly
<1>1. AgentInv /\ [Next]_vars =>
        [pc = "scan" /\ pc' = "run" => active[timers[k]] /\ due[timers[k]] <= 0]_vars
  <2> SUFFICES ASSUME AgentInv, Next, pc = "scan", pc' = "run"
               PROVE  active[timers[k]] /\ due[timers[k]] <= 0
    OBVIOUS
  <2>1. Scan
    BY DEF Next, App, Loop, AddTimer, Start, Stop, SetInterval, AddHandler,
       Application,
           PutBatch, Enter, Wake, RunEnd, TakeBatch, NoBatch, Again, ReadSwitch,
           ReadMessage, HandleEnd, DispatchEnd, Tick
  <2>2. timers[k] \in Timers /\ Due(timers[k])
    BY <2>1 DEF Scan, AgentInv, Timing
  <2> QED
    BY <2>2, DueRight DEF Due
<1> QED
  BY <1>1, AgentInvariance, PTL DEF Spec, NeverEarly

(* No active timer is late by two turns of the loop less a nap             *)
(* (src/sragent.cc 160-192).                                               *)
THEOREM TimersNeverLate == Spec => []NeverLate
<1>1. AgentInv => NeverLate
  BY AgentAssumption DEF AgentInv, Timing, Late, NeverLate, Listed
<1> QED
  BY <1>1, AgentInvariance, PTL

-----------------------------------------------------------------------------
(***************************************************************************)
(* What the agent reads is what the server wrote, for any batches of any   *)
(* messages. Records says what is left to be read of a batch: it reads     *)
(* Lines of what was written (LinesRight), and a line read is the first of *)
(* what was left (ReadFirst). The invariant says that the batch being read *)
(* and those in the queue are what is still to be delivered, in order.     *)
(***************************************************************************)
Pairs == Xids \X MsgIDs

(* The greatest of some of the first naturals. *)
LEMMA MaxIn ==
    ASSUME NEW n \in Nat, NEW B, B \subseteq 1 .. n, B # {}
    PROVE  Max(B) \in B /\ \A j \in B : j <= Max(B)
<1> DEFINE T == {n - j : j \in B}
<1>0. \A j \in B : n - j \in Nat
  OBVIOUS
<1>1. T \subseteq Nat /\ T # {}
  BY <1>0
<1>2. PICK m \in T : \A j \in T : m <= j
  BY <1>1, LeastNatural
<1>3. PICK b \in B : m = n - b
  BY <1>2
<1>4. ASSUME NEW j \in B PROVE b >= j
  <2>1. n - b <= n - j
    BY <1>2, <1>3
  <2> QED
    BY <2>1
<1>5. \E y \in B : \A j \in B : y >= j
  BY <1>4
<1>6. Max(B) \in B /\ \A j \in B : Max(B) >= j
  BY ONLY <1>5, Zenon DEF Max
<1>7. B \subseteq Int
  OBVIOUS
<1> QED
  BY <1>6, <1>7

-----------------------------------------------------------------------------
(* The template of what comes after the first lines *)

LEMMA TemplateIn ==
    ASSUME NEW s \in Seq(Line), NEW n \in 0 .. Len(s), NEW x \in Xids
    PROVE  Template(s, n, x) \in Xids
<1> DEFINE B == {j \in 1 .. n : s[j].id = 87}
<1>1. Template(s, n, x) = IF B = {} THEN x ELSE s[Max(B)].xid
  BY DEF Template
<1>2. n \in Nat /\ B \subseteq 1 .. n /\ \A j \in 1 .. n : s[j] \in Line
  OBVIOUS
<1> HIDE DEF B
<1>3. B # {} => Max(B) \in 1 .. n
  BY <1>2, MaxIn
<1> QED
  BY <1>1, <1>2, <1>3 DEF Line

LEMMA TemplateSame ==
    ASSUME NEW s \in Seq(Line), NEW t \in Seq(Line), NEW n \in Nat, NEW x,
           \A j \in 1 .. n : t[j] = s[j]
    PROVE  Template(t, n, x) = Template(s, n, x)
<1> DEFINE B == {j \in 1 .. n : s[j].id = 87}
           C == {j \in 1 .. n : t[j].id = 87}
<1>1. /\ Template(s, n, x) = IF B = {} THEN x ELSE s[Max(B)].xid
      /\ Template(t, n, x) = IF C = {} THEN x ELSE t[Max(C)].xid
  BY DEF Template
<1>2. C = B /\ B \subseteq 1 .. n
  OBVIOUS
<1> HIDE DEF B, C
<1>3. B # {} => Max(B) \in 1 .. n
  BY <1>2, MaxIn
<1> QED
  BY <1>1, <1>2, <1>3

LEMMA TemplateNext ==
    ASSUME NEW s \in Seq(Line), NEW n \in Nat, n < Len(s), NEW x
    PROVE  Template(s, n + 1, x) = IF s[n + 1].id = 87 THEN s[n + 1].xid ELSE Template(s, n, x)
<1> DEFINE B == {j \in 1 .. n : s[j].id = 87}
           C == {j \in 1 .. n + 1 : s[j].id = 87}
<1>1. /\ Template(s, n, x) = IF B = {} THEN x ELSE s[Max(B)].xid
      /\ Template(s, n + 1, x) = IF C = {} THEN x ELSE s[Max(C)].xid
  BY DEF Template
<1>2. C \subseteq 1 .. n + 1 /\ (s[n + 1].id = 87 => n + 1 \in C)
      /\ (s[n + 1].id # 87 => C = B)
  OBVIOUS
<1> HIDE DEF B, C
<1>3. CASE s[n + 1].id = 87
  <2>1. C # {} /\ n + 1 \in C
    BY <1>2, <1>3
  <2>2. Max(C) \in C /\ \A j \in C : j <= Max(C)
    <3>1. n + 1 \in Nat /\ C \subseteq 1 .. (n + 1)
      BY <1>2
    <3> QED
      BY ONLY <2>1, <3>1, MaxIn
  <2>3. Max(C) = n + 1
    <3>1. Max(C) \in 1 .. n + 1 /\ n + 1 <= Max(C)
      BY <1>2, <2>1, <2>2
    <3> QED
      BY <3>1
  <2> QED
    BY <1>1, <1>3, <2>1, <2>3
<1>4. CASE s[n + 1].id # 87
  BY <1>1, <1>2, <1>4
<1> QED
  BY <1>3, <1>4

LEMMA TemplateFirst == ASSUME NEW s, NEW x PROVE Template(s, 0, x) = x
  BY DEF Template

(* The template after all of them. *)
After(s, x) == Template(s, Len(s), x)

-----------------------------------------------------------------------------
(* Records, line by line *)

Piece(l, x) == IF l.id = 87 THEN <<>> ELSE <<<<x, l.id>>>>
Pieces(s, x) == [n \in DOMAIN s |-> Piece(s[n], Template(s, n - 1, x))]

LEMMA PieceIn == ASSUME NEW l \in Line, NEW x \in Xids PROVE Piece(l, x) \in Seq(Pairs)
<1>1. l.id \in MsgIDs \cup {87}
  BY DEF Line
<1>2. l.id # 87 => <<x, l.id>> \in Pairs
  BY <1>1 DEF Pairs
<1> QED
  BY <1>2 DEF Piece

LEMMA RecordsAre ==
    ASSUME NEW s \in Seq(Line), NEW x \in Xids
    PROVE  /\ Records(s, x) = FlattenSeq(Pieces(s, x))
           /\ Pieces(s, x) \in Seq(Seq(Pairs)) /\ Len(Pieces(s, x)) = Len(s)
           /\ Records(s, x) \in Seq(Pairs)
<1>1. Records(s, x) = FlattenSeq(Pieces(s, x))
  BY Zenon DEF Records, Pieces, Piece
<1>2. ASSUME NEW n \in DOMAIN s PROVE Piece(s[n], Template(s, n - 1, x)) \in Seq(Pairs)
  <2>1. s[n] \in Line /\ n - 1 \in 0 .. Len(s)
    OBVIOUS
  <2> QED
    BY <2>1, PieceIn, TemplateIn
<1>3. DOMAIN s = 1 .. Len(s) /\ Len(s) \in Nat
  OBVIOUS
<1>4. Pieces(s, x) \in [1 .. Len(s) -> Seq(Pairs)]
  BY <1>2, <1>3 DEF Pieces
<1>5. Pieces(s, x) \in Seq(Seq(Pairs)) /\ Len(Pieces(s, x)) = Len(s)
  BY <1>3, <1>4
<1> QED
  BY <1>1, <1>5, FlattenType

LEMMA RecordsEmpty == ASSUME NEW x \in Xids PROVE Records(<<>>, x) = <<>> /\ After(<<>>, x) = x
<1>1. <<>> \in Seq(Line) /\ Len(<<>>) = 0
  OBVIOUS
<1>2. Pieces(<<>>, x) = <<>>
  BY DEF Pieces
<1> QED
  BY <1>1, <1>2, RecordsAre, FlattenEmpty, TemplateFirst DEF After

LEMMA RecordsAppend ==
    ASSUME NEW s \in Seq(Line), NEW l \in Line, NEW x \in Xids
    PROVE  /\ Append(s, l) \in Seq(Line) /\ After(s, x) \in Xids
           /\ Records(Append(s, l), x) = Records(s, x) \o Piece(l, After(s, x))
           /\ After(Append(s, l), x) = IF l.id = 87 THEN l.xid ELSE After(s, x)
<1> DEFINE t == Append(s, l)
<1>1. /\ t \in Seq(Line) /\ Len(t) = Len(s) + 1 /\ Len(s) \in Nat /\ t[Len(s) + 1] = l
      /\ \A n \in 1 .. Len(s) : t[n] = s[n]
      /\ DOMAIN t = 1 .. Len(s) + 1 /\ DOMAIN s = 1 .. Len(s)
  OBVIOUS
<1> HIDE DEF t
<1>2. Template(t, Len(s), x) = After(s, x) /\ After(s, x) \in Xids
  BY <1>1, TemplateSame, TemplateIn DEF After
<1>3. After(t, x) = IF l.id = 87 THEN l.xid ELSE After(s, x)
  <2>1. Len(s) < Len(t)
    BY <1>1
  <2>2. Template(t, Len(s) + 1, x) = IF t[Len(s) + 1].id = 87 THEN t[Len(s) + 1].xid
                                     ELSE Template(t, Len(s), x)
    BY <1>1, <2>1, TemplateNext
  <2> QED
    BY <1>1, <1>2, <2>2 DEF After
<1>4. Pieces(t, x) = Append(Pieces(s, x), Piece(l, After(s, x)))
  <2> DEFINE a == Pieces(t, x)
             b == Append(Pieces(s, x), Piece(l, After(s, x)))
  <2>1. /\ Pieces(s, x) \in Seq(Seq(Pairs)) /\ Len(Pieces(s, x)) = Len(s)
        /\ a \in Seq(Seq(Pairs)) /\ Len(a) = Len(s) + 1
    BY <1>1, RecordsAre
  <2>2. Piece(l, After(s, x)) \in Seq(Pairs)
    BY <1>2, PieceIn
  <2>3. /\ b \in Seq(Seq(Pairs)) /\ Len(b) = Len(s) + 1
        /\ b[Len(s) + 1] = Piece(l, After(s, x))
        /\ \A n \in 1 .. Len(s) : b[n] = Pieces(s, x)[n]
    BY <2>1, <2>2
  <2>4. ASSUME NEW n \in 1 .. Len(s) PROVE a[n] = Pieces(s, x)[n]
    <3>1. \A j \in 1 .. n - 1 : t[j] = s[j]
      BY <1>1, <2>4
    <3>2. n - 1 \in Nat
      BY <1>1, <2>4
    <3>3. Template(t, n - 1, x) = Template(s, n - 1, x)
      BY <1>1, <3>1, <3>2, TemplateSame
    <3>4. a[n] = Piece(t[n], Template(t, n - 1, x))
      BY <1>1, <2>4 DEF Pieces
    <3>5. Pieces(s, x)[n] = Piece(s[n], Template(s, n - 1, x))
      BY <1>1, <2>4 DEF Pieces
    <3> QED
      BY <1>1, <2>4, <3>3, <3>4, <3>5
  <2>5. a[Len(s) + 1] = Piece(l, After(s, x))
    <3>1. Len(s) + 1 \in DOMAIN t /\ (Len(s) + 1) - 1 = Len(s)
      BY <1>1
    <3>2. a[Len(s) + 1] = Piece(t[Len(s) + 1], Template(t, (Len(s) + 1) - 1, x))
      BY <3>1 DEF Pieces
    <3> QED
      BY <1>1, <1>2, <3>1, <3>2
  <2> HIDE DEF a, b
  <2>6. a = b
    <3>1. ASSUME NEW n \in 1 .. Len(s) + 1 PROVE a[n] = b[n]
      <4>1. n \in 1 .. Len(s) \/ n = Len(s) + 1
        BY <1>1
      <4>2. ASSUME n \in 1 .. Len(s) PROVE a[n] = b[n]
        BY ONLY <2>3, <2>4, <4>2, Zenon
      <4> QED
        BY ONLY <2>3, <2>5, <4>1, <4>2, Zenon
    <3> QED
      BY <2>1, <2>3, <3>1, SeqEqual
  <2> QED
    BY <2>6 DEF a, b
<1>5. Records(t, x) = Records(s, x) \o Piece(l, After(s, x))
  <2>1. /\ Pieces(s, x) \in Seq(Seq(Pairs)) /\ Piece(l, After(s, x)) \in Seq(Pairs)
        /\ Records(s, x) = FlattenSeq(Pieces(s, x)) /\ Records(t, x) = FlattenSeq(Pieces(t, x))
    BY <1>1, <1>2, RecordsAre, PieceIn
  <2> QED
    BY ONLY <1>4, <2>1, FlattenAppend, Zenon
<1> QED
  BY <1>1, <1>2, <1>3, <1>5 DEF t

-----------------------------------------------------------------------------
(* The first line is read before the others. *)

Next1(h, x) == IF h.id = 87 THEN h.xid ELSE x

LEMMA RecordsFront ==
    ASSUME NEW h \in Line, NEW x \in Xids, NEW s \in Seq(Line)
    PROVE  /\ Records(<<h>> \o s, x) = Piece(h, x) \o Records(s, Next1(h, x))
           /\ After(<<h>> \o s, x) = After(s, Next1(h, x))
<1> DEFINE y == Next1(h, x)
           P(t) == /\ Records(<<h>> \o t, x) = Piece(h, x) \o Records(t, y)
                   /\ After(<<h>> \o t, x) = After(t, y)
           T == {t \in Seq(Line) : P(t)}
<1>0. y \in Xids /\ Piece(h, x) \in Seq(Pairs)
  BY PieceIn DEF Next1, Line
<1>1. <<>> \in T
  <2>1. /\ <<>> \in Seq(Line) /\ <<h>> \o <<>> = Append(<<>>, h)
    OBVIOUS
  <2>2. /\ Records(<<>>, x) = <<>> /\ After(<<>>, x) = x
        /\ Records(<<>>, y) = <<>> /\ After(<<>>, y) = y
    BY <1>0, RecordsEmpty
  <2>3. /\ Records(Append(<<>>, h), x) = <<>> \o Piece(h, x)
        /\ After(Append(<<>>, h), x) = y
    <3>1. /\ Records(Append(<<>>, h), x) = Records(<<>>, x) \o Piece(h, After(<<>>, x))
          /\ After(Append(<<>>, h), x) = IF h.id = 87 THEN h.xid ELSE After(<<>>, x)
      BY ONLY <2>1, h \in Line, x \in Xids, RecordsAppend
    <3> QED
      BY ONLY <2>2, <3>1, Zenon DEF Next1
  <2>4. <<>> \o Piece(h, x) = Piece(h, x) /\ Piece(h, x) \o <<>> = Piece(h, x)
    BY <1>0, ConcatEmptySeq
  <2> QED
    BY ONLY <2>1, <2>2, <2>3, <2>4, Zenon
<1>2. ASSUME NEW t \in Seq(Line), t \in T, NEW e \in Line
      PROVE  Append(t, e) \in T
  <2> DEFINE u == <<h>> \o t
  <2>1. u \in Seq(Line) /\ <<h>> \o Append(t, e) = Append(u, e) /\ Append(t, e) \in Seq(Line)
    OBVIOUS
  <2>2. Records(u, x) = Piece(h, x) \o Records(t, y) /\ After(u, x) = After(t, y)
    BY <1>2
  <2> HIDE DEF u, y
  <2>3. /\ Records(Append(u, e), x) = Records(u, x) \o Piece(e, After(u, x))
        /\ After(Append(u, e), x) = IF e.id = 87 THEN e.xid ELSE After(u, x)
    BY <2>1, RecordsAppend
  <2>4. /\ Records(Append(t, e), y) = Records(t, y) \o Piece(e, After(t, y))
        /\ After(Append(t, e), y) = IF e.id = 87 THEN e.xid ELSE After(t, y)
        /\ After(t, y) \in Xids
    BY <1>0, RecordsAppend
  <2>5. Records(t, y) \in Seq(Pairs) /\ Piece(e, After(t, y)) \in Seq(Pairs)
    BY <1>0, <2>4, RecordsAre, PieceIn
  <2>6. (Piece(h, x) \o Records(t, y)) \o Piece(e, After(t, y))
          = Piece(h, x) \o (Records(t, y) \o Piece(e, After(t, y)))
    BY <1>0, <2>5, ConcatAssociative
  <2>7. Records(<<h>> \o Append(t, e), x) = Piece(h, x) \o Records(Append(t, e), y)
    BY ONLY <2>1, <2>2, <2>3, <2>4, <2>6, Zenon
  <2>8. After(<<h>> \o Append(t, e), x) = After(Append(t, e), y)
    <3>1. After(<<h>> \o Append(t, e), x) = IF e.id = 87 THEN e.xid ELSE After(u, x)
      BY ONLY <2>1, <2>3, Zenon
    <3>2. CASE e.id = 87
      BY ONLY <2>4, <3>1, <3>2, Zenon
    <3>3. CASE e.id # 87
      BY ONLY <2>2, <2>4, <3>1, <3>3, Zenon
    <3> QED
      BY <3>2, <3>3
  <2> QED
    BY ONLY <2>1, <2>7, <2>8
<1> HIDE DEF T
<1>3. Seq(Line) \subseteq T
  BY <1>1, <1>2, SequenceInduction
<1>4. s \in T
  BY <1>3
<1> QED
  BY <1>4 DEF T

LEMMA ReadFirst ==
    ASSUME NEW s \in Seq(Line), s # <<>>, NEW x \in Xids
    PROVE  /\ Records(s, x) = Piece(Head(s), x) \o Records(Tail(s), Next1(Head(s), x))
           /\ Head(s) \in Line /\ Tail(s) \in Seq(Line)
<1>1. Head(s) \in Line /\ Tail(s) \in Seq(Line) /\ s = <<Head(s)>> \o Tail(s)
  OBVIOUS
<1> QED
  BY ONLY <1>1, x \in Xids, RecordsFront, Zenon

-----------------------------------------------------------------------------
(* What the server writes is what is read. *)

LastXid(r) == IF r = <<>> THEN Own ELSE r[Len(r)][1]
Text(e, x) == IF e[1] = x THEN <<Message(e[2])>> ELSE <<Switch(e[1]), Message(e[2])>>

LEMMA TextRight ==
    ASSUME NEW e \in Pairs, NEW x \in Xids, NEW s \in Seq(Line), After(s, Own) = x
    PROVE  /\ Text(e, x) \in Seq(Line)
           /\ Records(s \o Text(e, x), Own) = Append(Records(s, Own), e)
           /\ After(s \o Text(e, x), Own) = e[1]
<1>1. /\ e[1] \in Xids /\ e[2] \in MsgIDs /\ e = <<e[1], e[2]>> /\ e[2] # 87 /\ Own \in Xids
  BY AgentAssumption DEF Pairs
<1> DEFINE m == Message(e[2])
           w == Switch(e[1])
<1>2. m \in Line /\ w \in Line /\ m.id = e[2] /\ w.id = 87 /\ w.xid = e[1]
  BY <1>1 DEF Line, Message, Switch
<1>3. Records(s, Own) \in Seq(Pairs)
  BY <1>1, RecordsAre
<1> HIDE DEF m, w
<1>4. Text(e, x) = IF e[1] = x THEN <<m>> ELSE <<w, m>>
  BY DEF Text, m, w
<1>5. CASE e[1] = x
  <2>1. s \o <<m>> = Append(s, m) /\ <<m>> \in Seq(Line)
    BY <1>2
  <2>2. /\ Records(Append(s, m), Own) = Records(s, Own) \o Piece(m, x)
        /\ After(Append(s, m), Own) = x
    <3>1. /\ Records(Append(s, m), Own) = Records(s, Own) \o Piece(m, After(s, Own))
          /\ After(Append(s, m), Own) = IF m.id = 87 THEN m.xid ELSE After(s, Own)
      BY ONLY <1>1, <1>2, RecordsAppend, s \in Seq(Line)
    <3>2. m.id # 87
      BY <1>1, <1>2
    <3> QED
      BY ONLY <3>1, <3>2, After(s, Own) = x, Zenon
  <2>3. Piece(m, x) = <<e>>
    BY <1>1, <1>2, <1>5 DEF Piece
  <2>4. Records(s, Own) \o <<e>> = Append(Records(s, Own), e)
    BY <1>3
  <2>5. Text(e, x) = <<m>>
    BY <1>4, <1>5
  <2> QED
    BY ONLY <1>5, <2>1, <2>2, <2>3, <2>4, <2>5, Zenon
<1>6. CASE e[1] # x
  <2>1. s \o <<w, m>> = Append(Append(s, w), m) /\ <<w, m>> \in Seq(Line)
        /\ Append(s, w) \in Seq(Line)
    BY <1>2
  <2>2. /\ Records(Append(s, w), Own) = Records(s, Own) \o Piece(w, x)
        /\ After(Append(s, w), Own) = e[1]
    <3>1. /\ Records(Append(s, w), Own) = Records(s, Own) \o Piece(w, After(s, Own))
          /\ After(Append(s, w), Own) = IF w.id = 87 THEN w.xid ELSE After(s, Own)
      BY ONLY <1>1, <1>2, RecordsAppend, s \in Seq(Line)
    <3> QED
      BY ONLY <1>2, <3>1, After(s, Own) = x, Zenon
  <2>3. /\ Records(Append(Append(s, w), m), Own) = Records(Append(s, w), Own) \o Piece(m, e[1])
        /\ After(Append(Append(s, w), m), Own) = e[1]
    <3> DEFINE v == Append(s, w)
    <3>1. v \in Seq(Line) /\ After(v, Own) = e[1]
      BY <2>1, <2>2
    <3> HIDE DEF v
    <3>2. /\ Records(Append(v, m), Own) = Records(v, Own) \o Piece(m, After(v, Own))
          /\ After(Append(v, m), Own) = IF m.id = 87 THEN m.xid ELSE After(v, Own)
      BY ONLY <1>1, <1>2, <3>1, RecordsAppend
    <3>3. m.id # 87
      BY <1>1, <1>2
    <3> QED
      BY ONLY <3>1, <3>2, <3>3, Zenon DEF v
  <2>4. Piece(m, e[1]) = <<e>> /\ Piece(w, x) = <<>>
    BY <1>1, <1>2 DEF Piece
  <2>5. /\ Records(s, Own) \o <<>> = Records(s, Own)
        /\ Records(s, Own) \o <<e>> = Append(Records(s, Own), e)
    BY <1>3
  <2>6. Text(e, x) = <<w, m>>
    BY <1>4, <1>6
  <2> QED
    BY ONLY <2>1, <2>2, <2>3, <2>4, <2>5, <2>6, Zenon
<1> QED
  BY <1>5, <1>6

Texts(r) == [n \in DOMAIN r |-> Text(r[n], IF n = 1 THEN Own ELSE r[n - 1][1])]

LEMMA TextsAre ==
    ASSUME NEW r \in Seq(Pairs)
    PROVE  /\ Lines(r) = FlattenSeq(Texts(r)) /\ Texts(r) \in Seq(Seq(Line))
           /\ Len(Texts(r)) = Len(r) /\ Lines(r) \in Seq(Line)
<1>1. Lines(r) = FlattenSeq(Texts(r))
  BY Zenon DEF Lines, Texts, Text
<1>2. ASSUME NEW n \in DOMAIN r
      PROVE  Text(r[n], IF n = 1 THEN Own ELSE r[n - 1][1]) \in Seq(Line)
  <2>1. r[n] \in Pairs
    OBVIOUS
  <2>2. /\ r[n][1] \in Xids /\ r[n][2] \in MsgIDs /\ Own \in Xids
    BY <2>1, AgentAssumption DEF Pairs
  <2>3. Message(r[n][2]) \in Line /\ Switch(r[n][1]) \in Line
    BY <2>2 DEF Message, Switch, Line
  <2> QED
    BY <2>3 DEF Text
<1>3. DOMAIN r = 1 .. Len(r) /\ Len(r) \in Nat
  OBVIOUS
<1>4. Texts(r) \in [1 .. Len(r) -> Seq(Line)]
  BY <1>2, <1>3 DEF Texts
<1>5. Texts(r) \in Seq(Seq(Line)) /\ Len(Texts(r)) = Len(r)
  BY <1>3, <1>4
<1> QED
  BY <1>1, <1>5, FlattenType

LEMMA LinesRight ==
    ASSUME NEW r \in Seq(Pairs)
    PROVE  Lines(r) \in Seq(Line) /\ Records(Lines(r), Own) = r
<1> DEFINE P(t) == Records(Lines(t), Own) = t /\ After(Lines(t), Own) = LastXid(t)
           T == {t \in Seq(Pairs) : P(t)}
<1>0. Own \in Xids
  BY AgentAssumption
<1>1. <<>> \in T
  <2>1. <<>> \in Seq(Pairs) /\ LastXid(<<>>) = Own
    BY DEF LastXid
  <2>2. Texts(<<>>) = <<>>
    BY DEF Texts
  <2>3. Lines(<<>>) = <<>>
    BY <2>1, <2>2, TextsAre, FlattenEmpty
  <2> QED
    BY <1>0, <2>1, <2>3, RecordsEmpty
<1>2. ASSUME NEW t \in Seq(Pairs), t \in T, NEW e \in Pairs
      PROVE  Append(t, e) \in T
  <2> DEFINE u == Append(t, e)
  <2>1. /\ u \in Seq(Pairs) /\ Len(u) = Len(t) + 1 /\ Len(t) \in Nat /\ u[Len(t) + 1] = e
        /\ \A n \in 1 .. Len(t) : u[n] = t[n]
        /\ DOMAIN u = 1 .. Len(t) + 1 /\ DOMAIN t = 1 .. Len(t)
        /\ (t = <<>>) = (Len(t) = 0) /\ u # <<>>
    OBVIOUS
  <2>2. Records(Lines(t), Own) = t /\ After(Lines(t), Own) = LastXid(t)
    BY <1>2
  <2> HIDE DEF u
  <2>3. LastXid(t) \in Xids /\ LastXid(u) = e[1]
    <3>1. CASE t = <<>>
      BY <1>0, <2>1, <3>1 DEF LastXid
    <3>2. CASE t # <<>>
      <4>1. Len(t) \in DOMAIN t
        BY <2>1, <3>2
      <4>2. t[Len(t)] \in Pairs
        BY <4>1
      <4> QED
        BY <2>1, <3>2, <4>2 DEF LastXid, Pairs
    <3> QED
      BY <3>1, <3>2
  <2>4. Texts(u) = Append(Texts(t), Text(e, LastXid(t)))
    <3> DEFINE a == Texts(u)
               b == Append(Texts(t), Text(e, LastXid(t)))
    <3>0. Lines(t) \in Seq(Line)
      BY TextsAre
    <3>1. Text(e, LastXid(t)) \in Seq(Line)
      BY <2>2, <2>3, <3>0, TextRight
    <3>2. /\ Texts(t) \in Seq(Seq(Line)) /\ Len(Texts(t)) = Len(t)
          /\ a \in Seq(Seq(Line)) /\ Len(a) = Len(t) + 1
      BY <2>1, TextsAre
    <3>3. /\ b \in Seq(Seq(Line)) /\ Len(b) = Len(t) + 1
          /\ b[Len(t) + 1] = Text(e, LastXid(t))
          /\ \A n \in 1 .. Len(t) : b[n] = Texts(t)[n]
      BY <3>1, <3>2
    <3>4. ASSUME NEW n \in 1 .. Len(t) PROVE a[n] = Texts(t)[n]
      <4>1. a[n] = Text(u[n], IF n = 1 THEN Own ELSE u[n - 1][1])
        BY <2>1, <3>4 DEF Texts
      <4>2. Texts(t)[n] = Text(t[n], IF n = 1 THEN Own ELSE t[n - 1][1])
        BY <2>1, <3>4 DEF Texts
      <4>3. u[n] = t[n] /\ (n # 1 => u[n - 1] = t[n - 1])
        BY <2>1, <3>4
      <4> QED
        BY <4>1, <4>2, <4>3
    <3>5. a[Len(t) + 1] = Text(e, LastXid(t))
      <4>1. Len(t) + 1 \in DOMAIN u /\ (Len(t) + 1) - 1 = Len(t) /\ (Len(t) + 1 = 1) = (Len(t) = 0)
        BY <2>1
      <4>2. a[Len(t) + 1] = Text(u[Len(t) + 1], IF Len(t) + 1 = 1 THEN Own ELSE u[(Len(t) + 1) - 1][1])
        BY <4>1 DEF Texts
      <4>3. Len(t) # 0 => u[Len(t)] = t[Len(t)]
        BY <2>1
      <4> QED
        BY ONLY <2>1, <4>1, <4>2, <4>3, Zenon DEF LastXid
    <3> HIDE DEF a, b
    <3>6. a = b
      <4>1. ASSUME NEW n \in 1 .. Len(t) + 1 PROVE a[n] = b[n]
        <5>1. n \in 1 .. Len(t) \/ n = Len(t) + 1
          BY <2>1
        <5>2. ASSUME n \in 1 .. Len(t) PROVE a[n] = b[n]
          BY ONLY <3>3, <3>4, <5>2, Zenon
        <5> QED
          BY ONLY <3>3, <3>5, <5>1, <5>2, Zenon
      <4> QED
        BY <3>2, <3>3, <4>1, SeqEqual
    <3> QED
      BY <3>6 DEF a, b
  <2>5. Lines(t) \in Seq(Line) /\ Texts(t) \in Seq(Seq(Line))
    BY TextsAre
  <2>6. /\ Text(e, LastXid(t)) \in Seq(Line)
        /\ Records(Lines(t) \o Text(e, LastXid(t)), Own) = Append(Records(Lines(t), Own), e)
        /\ After(Lines(t) \o Text(e, LastXid(t)), Own) = e[1]
    BY ONLY <2>2, <2>3, <2>5, TextRight, e \in Pairs
  <2>7. Lines(u) = Lines(t) \o Text(e, LastXid(t))
    <3>1. Lines(u) = FlattenSeq(Texts(u)) /\ Lines(t) = FlattenSeq(Texts(t))
      BY <2>1, TextsAre
    <3> QED
      BY ONLY <2>4, <2>5, <2>6, <3>1, FlattenAppend, Zenon
  <2>8. P(u)
    BY ONLY <2>2, <2>3, <2>6, <2>7, Zenon DEF u
  <2> QED
    BY ONLY <2>1, <2>8 DEF u
<1> HIDE DEF T
<1>3. Seq(Pairs) \subseteq T
  BY <1>1, <1>2, SequenceInduction
<1>4. r \in T
  BY <1>3
<1> QED
  BY <1>4, TextsAre DEF T

-----------------------------------------------------------------------------
(* The invariant: the batches in the queue, of which nothing is read, and  *)
(* what is left of the batch that is being read.                           *)

ReadTypes ==
    /\ ingress \in Seq(Seq(Line)) /\ sr \in Seq(Line)
    /\ want \in Seq(Pairs) /\ c \in Xids

ReadInv ==
    /\ ReadTypes
    /\ pc \notin {"dispatch", "handle"} => sr = <<>>
    /\ ReadsAsWritten

Unread(q) == [b \in DOMAIN q |-> Records(q[b], Own)]

LEMMA UnreadIn ==
    ASSUME NEW q \in Seq(Seq(Line))
    PROVE  Unread(q) \in Seq(Seq(Pairs)) /\ Len(Unread(q)) = Len(q)
<1>1. ASSUME NEW b \in DOMAIN q PROVE Records(q[b], Own) \in Seq(Pairs)
  <2>1. q[b] \in Seq(Line)
    OBVIOUS
  <2> QED
    BY ONLY <2>1, RecordsAre, AgentAssumption
<1>2. DOMAIN q = 1 .. Len(q) /\ Len(q) \in Nat
  OBVIOUS
<1>3. Unread(q) \in [1 .. Len(q) -> Seq(Pairs)]
  BY <1>1, <1>2 DEF Unread
<1> QED
  BY <1>2, <1>3

LEMMA UnreadAppend ==
    ASSUME NEW q \in Seq(Seq(Line)), NEW l \in Seq(Line)
    PROVE  Unread(Append(q, l)) = Append(Unread(q), Records(l, Own))
<1> DEFINE t == Append(q, l)
           a == Unread(t)
           z == Append(Unread(q), Records(l, Own))
<1>1. /\ t \in Seq(Seq(Line)) /\ Len(t) = Len(q) + 1 /\ Len(q) \in Nat /\ t[Len(q) + 1] = l
      /\ \A n \in 1 .. Len(q) : t[n] = q[n]
      /\ DOMAIN t = 1 .. Len(q) + 1 /\ DOMAIN q = 1 .. Len(q)
  OBVIOUS
<1>2. Records(l, Own) \in Seq(Pairs)
  BY RecordsAre, AgentAssumption
<1> HIDE DEF t
<1>3. /\ Unread(q) \in Seq(Seq(Pairs)) /\ Len(Unread(q)) = Len(q)
      /\ a \in Seq(Seq(Pairs)) /\ Len(a) = Len(q) + 1
  BY <1>1, UnreadIn
<1>4. /\ z \in Seq(Seq(Pairs)) /\ Len(z) = Len(q) + 1
      /\ z[Len(q) + 1] = Records(l, Own) /\ \A n \in 1 .. Len(q) : z[n] = Unread(q)[n]
  BY <1>2, <1>3
<1>5. ASSUME NEW n \in 1 .. Len(q) + 1 PROVE a[n] = z[n]
  <2>1. a[n] = Records(t[n], Own)
    BY <1>1 DEF Unread
  <2>2. CASE n \in 1 .. Len(q)
    <3>1. Unread(q)[n] = Records(q[n], Own)
      BY <1>1, <2>2 DEF Unread
    <3> QED
      BY ONLY <1>1, <1>4, <2>1, <2>2, <3>1, Zenon
  <2>3. CASE n = Len(q) + 1
    BY ONLY <1>1, <1>4, <2>1, <2>3, Zenon
  <2>4. n \in 1 .. Len(q) \/ n = Len(q) + 1
    BY <1>1
  <2> QED
    BY ONLY <2>2, <2>3, <2>4, Zenon
<1> HIDE DEF a, z
<1>6. a = z
  BY <1>3, <1>4, <1>5, SeqEqual
<1> QED
  BY <1>6 DEF a, z, t

LEMMA PairsAssociate ==
    ASSUME NEW u \in Seq(Pairs), NEW v \in Seq(Pairs), NEW w \in Seq(Pairs)
    PROVE  (u \o v) \o w = u \o (v \o w)
  BY ConcatAssociative

LEMMA UnreadFront ==
    ASSUME NEW l \in Seq(Line), NEW q \in Seq(Seq(Line))
    PROVE  FlattenSeq(Unread(<<l>> \o q)) = Records(l, Own) \o FlattenSeq(Unread(q))
<1> DEFINE P(t) == FlattenSeq(Unread(<<l>> \o t)) = Records(l, Own) \o FlattenSeq(Unread(t))
           T == {t \in Seq(Seq(Line)) : P(t)}
<1>0. Records(l, Own) \in Seq(Pairs)
  BY RecordsAre, AgentAssumption
<1>1. <<>> \in T
  <2>1. /\ <<>> \in Seq(Seq(Line)) /\ <<l>> \o <<>> = Append(<<>>, l)
    OBVIOUS
  <2>2. Unread(<<>>) = <<>>
    BY DEF Unread
  <2>3. Unread(Append(<<>>, l)) = Append(<<>>, Records(l, Own))
    BY ONLY <2>1, <2>2, UnreadAppend, l \in Seq(Line)
  <2>4. FlattenSeq(Append(<<>>, Records(l, Own))) = FlattenSeq(<<>>) \o Records(l, Own)
    <3>1. <<>> \in Seq(Seq(Pairs))
      OBVIOUS
    <3> QED
      BY ONLY <1>0, <3>1, FlattenAppend
  <2>5. <<>> \o Records(l, Own) = Records(l, Own) /\ Records(l, Own) \o <<>> = Records(l, Own)
    BY <1>0, ConcatEmptySeq
  <2> QED
    BY ONLY <2>1, <2>2, <2>3, <2>4, <2>5, FlattenEmpty, Zenon
<1>2. ASSUME NEW t \in Seq(Seq(Line)), t \in T, NEW e \in Seq(Line)
      PROVE  Append(t, e) \in T
  <2> DEFINE u == <<l>> \o t
  <2>1. /\ u \in Seq(Seq(Line)) /\ <<l>> \o Append(t, e) = Append(u, e)
        /\ Append(t, e) \in Seq(Seq(Line))
    OBVIOUS
  <2>2. FlattenSeq(Unread(u)) = Records(l, Own) \o FlattenSeq(Unread(t))
    BY <1>2
  <2> HIDE DEF u
  <2>3. Records(e, Own) \in Seq(Pairs)
    BY RecordsAre, AgentAssumption
  <2>4. /\ Unread(u) \in Seq(Seq(Pairs)) /\ Unread(t) \in Seq(Seq(Pairs))
        /\ Unread(Append(u, e)) = Append(Unread(u), Records(e, Own))
        /\ Unread(Append(t, e)) = Append(Unread(t), Records(e, Own))
    BY <2>1, UnreadIn, UnreadAppend
  <2>5. /\ FlattenSeq(Append(Unread(u), Records(e, Own)))
             = FlattenSeq(Unread(u)) \o Records(e, Own)
        /\ FlattenSeq(Append(Unread(t), Records(e, Own)))
             = FlattenSeq(Unread(t)) \o Records(e, Own)
    BY ONLY <2>3, <2>4, FlattenAppend
  <2>6. FlattenSeq(Unread(t)) \in Seq(Pairs)
    BY <2>4, FlattenType
  <2>7. (Records(l, Own) \o FlattenSeq(Unread(t))) \o Records(e, Own)
          = Records(l, Own) \o (FlattenSeq(Unread(t)) \o Records(e, Own))
    BY ONLY <1>0, <2>3, <2>6, PairsAssociate, Zenon
  <2>8. FlattenSeq(Unread(<<l>> \o Append(t, e)))
          = Records(l, Own) \o FlattenSeq(Unread(Append(t, e)))
    BY ONLY <2>1, <2>2, <2>4, <2>5, <2>7, Zenon
  <2> QED
    BY ONLY <2>1, <2>8
<1> HIDE DEF T
<1>3. Seq(Seq(Line)) \subseteq T
  BY <1>1, <1>2, SequenceInduction
<1>4. q \in T
  BY <1>3
<1> QED
  BY <1>4 DEF T

LEMMA ReadsAre == ReadsAsWritten <=> want = Records(sr, c) \o FlattenSeq(Unread(ingress))
  BY Zenon DEF ReadsAsWritten, Unread

-----------------------------------------------------------------------------

LEMMA InitRead == Init => ReadInv
<1> SUFFICES ASSUME Init PROVE ReadInv
  OBVIOUS
<1>1. ingress = <<>> /\ sr = <<>> /\ want = <<>> /\ c \in Xids
  BY DEF Init
<1>2. ReadTypes
  BY <1>1 DEF ReadTypes
<1>3. Unread(<<>>) = <<>> /\ <<>> \o <<>> = <<>>
  BY DEF Unread
<1>4. want = Records(sr, c) \o FlattenSeq(Unread(ingress))
  BY ONLY <1>1, <1>3, RecordsEmpty, FlattenEmpty, Zenon
<1> QED
  BY <1>1, <1>2, <1>4, ReadsAre DEF ReadInv

LEMMA PutBatchReads ==
    ASSUME ReadInv, NEW written \in Batches, PutBatch(written)
    PROVE  ReadInv'
<1>1. /\ ingress' = Append(ingress, Lines(written)) /\ want' = want \o written
      /\ UNCHANGED <<sr, c, pc>>
      /\ ReadTypes /\ (pc \notin {"dispatch", "handle"} => sr = <<>>)
  BY DEF PutBatch, ReadInv
<1>2. written \in Seq(Pairs)
  <2>1. MaxRecords \in Nat
    BY AgentAssumption
  <2> QED
    BY <2>1 DEF Batches, Pairs
<1>3. Lines(written) \in Seq(Line) /\ Records(Lines(written), Own) = written
  BY <1>2, LinesRight
<1>4. ReadTypes'
  BY <1>1, <1>2, <1>3 DEF ReadTypes
<1> DEFINE r == Records(sr, c)
           f == Unread(ingress)
<1>5. r \in Seq(Pairs) /\ f \in Seq(Seq(Pairs)) /\ FlattenSeq(f) \in Seq(Pairs)
  BY <1>1, RecordsAre, UnreadIn, FlattenType DEF ReadTypes
<1>6. want = r \o FlattenSeq(f)
  BY ReadsAre DEF ReadInv
<1>7. Unread(ingress') = Append(f, written)
  BY <1>1, <1>3, UnreadAppend DEF ReadTypes
<1> HIDE DEF r, f
<1>8. FlattenSeq(Append(f, written)) = FlattenSeq(f) \o written
  BY ONLY <1>2, <1>5, FlattenAppend
<1>9. (r \o FlattenSeq(f)) \o written = r \o (FlattenSeq(f) \o written)
  BY ONLY <1>2, <1>5, PairsAssociate, Zenon
<1>10. want' = r \o FlattenSeq(Unread(ingress'))
  BY ONLY <1>1, <1>6, <1>7, <1>8, <1>9, Zenon
<1>11. ReadsAsWritten'
  BY ONLY <1>1, <1>10, Zenon DEF ReadsAsWritten, Unread, r
<1> QED
  BY <1>1, <1>4, <1>11 DEF ReadInv

LEMMA TakeBatchReads == ASSUME ReadInv, TakeBatch PROVE ReadInv'
<1>1. /\ ingress # <<>> /\ ingress' = Tail(ingress) /\ sr' = Head(ingress) /\ c' = Own
      /\ pc' = "dispatch" /\ want' = want /\ sr = <<>> /\ ReadTypes
  BY DEF TakeBatch, Scanned, ReadInv
<1>2. /\ Tail(ingress) \in Seq(Seq(Line)) /\ Head(ingress) \in Seq(Line)
      /\ ingress = <<Head(ingress)>> \o Tail(ingress) /\ Own \in Xids /\ c \in Xids
  BY <1>1, AgentAssumption DEF ReadTypes
<1>3. ReadTypes'
  BY <1>1, <1>2 DEF ReadTypes
<1>4. FlattenSeq(Unread(ingress))
        = Records(Head(ingress), Own) \o FlattenSeq(Unread(Tail(ingress)))
  BY ONLY <1>2, UnreadFront, Zenon
<1>5. want = <<>> \o FlattenSeq(Unread(ingress))
  <2>1. Records(<<>>, c) = <<>>
    BY <1>2, RecordsEmpty
  <2>2. want = Records(sr, c) \o FlattenSeq(Unread(ingress))
    BY ReadsAre DEF ReadInv
  <2> QED
    BY ONLY <1>1, <2>1, <2>2, Zenon
<1>6. <<>> \o FlattenSeq(Unread(ingress)) = FlattenSeq(Unread(ingress))
  BY <1>1, UnreadIn, FlattenType, ConcatEmptySeq DEF ReadTypes
<1>7. want' = Records(sr', c') \o FlattenSeq(Unread(ingress'))
  BY ONLY <1>1, <1>4, <1>5, <1>6, Zenon
<1>8. ReadsAsWritten'
  BY ONLY <1>7, Zenon DEF ReadsAsWritten, Unread
<1> QED
  BY <1>1, <1>3, <1>8 DEF ReadInv

LEMMA ReadSwitchReads == ASSUME ReadInv, ReadSwitch PROVE ReadInv'
<1>1. /\ sr # <<>> /\ Head(sr).id = 87 /\ sr' = Tail(sr) /\ c' = Head(sr).xid
      /\ pc' = pc /\ pc = "dispatch" /\ UNCHANGED <<want, ingress>> /\ ReadTypes
      /\ sr \in Seq(Line) /\ c \in Xids
  BY DEF ReadSwitch, ReadInv, ReadTypes
<1>2. /\ Records(sr, c) = Piece(Head(sr), c) \o Records(Tail(sr), Next1(Head(sr), c))
      /\ Head(sr) \in Line /\ Tail(sr) \in Seq(Line)
  BY ONLY <1>1, ReadFirst
<1>3. Piece(Head(sr), c) = <<>> /\ Next1(Head(sr), c) = Head(sr).xid /\ Head(sr).xid \in Xids
  BY <1>1, <1>2 DEF Piece, Next1, Line
<1>4. ReadTypes'
  BY <1>1, <1>2, <1>3 DEF ReadTypes
<1>5. <<>> \o Records(Tail(sr), Head(sr).xid) = Records(Tail(sr), Head(sr).xid)
  BY <1>2, <1>3, RecordsAre, ConcatEmptySeq
<1>6. want = Records(sr, c) \o FlattenSeq(Unread(ingress))
  BY ReadsAre DEF ReadInv
<1>7. want' = Records(sr', c') \o FlattenSeq(Unread(ingress'))
  BY ONLY <1>1, <1>2, <1>3, <1>5, <1>6, Zenon
<1>8. ReadsAsWritten'
  BY ONLY <1>7, Zenon DEF ReadsAsWritten, Unread
<1> QED
  BY <1>1, <1>4, <1>8 DEF ReadInv

LEMMA ReadMessageReads == ASSUME ReadInv, ReadMessage PROVE ReadInv'
<1>1. /\ sr # <<>> /\ Head(sr).id # 87 /\ sr' = Tail(sr) /\ want' = Tail(want)
      /\ pc' \in {"handle", "dispatch"} /\ UNCHANGED <<c, ingress>> /\ ReadTypes
      /\ sr \in Seq(Line) /\ c \in Xids /\ want \in Seq(Pairs) /\ ingress \in Seq(Seq(Line))
  BY DEF ReadMessage, ReadInv, ReadTypes
<1>2. /\ Records(sr, c) = Piece(Head(sr), c) \o Records(Tail(sr), Next1(Head(sr), c))
      /\ Head(sr) \in Line /\ Tail(sr) \in Seq(Line)
  BY ONLY <1>1, ReadFirst
<1> DEFINE e == <<c, Head(sr).id>>
           r == Records(Tail(sr), c)
           f == FlattenSeq(Unread(ingress))
<1>3. Piece(Head(sr), c) = <<e>> /\ Next1(Head(sr), c) = c
  BY <1>1 DEF Piece, Next1
<1>4. /\ r \in Seq(Pairs) /\ f \in Seq(Pairs) /\ <<e>> \in Seq(Pairs)
  <2>1. r \in Seq(Pairs) /\ f \in Seq(Pairs)
    BY <1>1, <1>2, RecordsAre, UnreadIn, FlattenType
  <2>2. Piece(Head(sr), c) \in Seq(Pairs)
    BY <1>1, <1>2, PieceIn
  <2> QED
    BY <1>3, <2>1, <2>2
<1>5. want = Records(sr, c) \o f
  BY ReadsAre DEF ReadInv
<1>e. e \in Pairs
  BY <1>1, <1>2 DEF Pairs, Line
<1>s. Records(sr, c) = <<e>> \o r
  BY ONLY <1>2, <1>3, Zenon
<1> HIDE DEF e, r, f
<1>6. Tail((<<e>> \o r) \o f) = r \o f /\ Tail(want) \in Seq(Pairs)
  <2>1. (<<e>> \o r) \o f = <<e>> \o (r \o f) /\ r \o f \in Seq(Pairs)
    BY <1>4, ConcatAssociative
  <2>2. Tail(<<e>> \o (r \o f)) = r \o f
    BY <1>e, <2>1
  <2> QED
    BY ONLY <1>5, <1>s, <2>1, <2>2
<1>7. want' = r \o f
  BY ONLY <1>1, <1>5, <1>6, <1>s, Zenon
<1>8. ReadTypes'
  BY <1>1, <1>2, <1>6 DEF ReadTypes
<1>9. ReadsAsWritten'
  BY ONLY <1>1, <1>7, Zenon DEF ReadsAsWritten, Unread, r, f
<1> QED
  BY <1>1, <1>8, <1>9 DEF ReadInv

(* Nothing is read or written in the other steps. *)
LEMMA OtherStepsRead ==
    ASSUME ReadInv, UNCHANGED <<ingress, sr, want, c>>,
           \/ pc \notin {"dispatch", "handle"} \/ sr = <<>>
           \/ pc' \in {"dispatch", "handle"}
    PROVE  ReadInv'
<1>1. ReadTypes' /\ ReadsAsWritten'
  BY DEF ReadInv, ReadTypes, ReadsAsWritten
<1> QED
  BY <1>1 DEF ReadInv

LEMMA StepRead == ReadInv /\ [Next]_vars => ReadInv'
<1> SUFFICES ASSUME ReadInv, Next \/ UNCHANGED vars PROVE ReadInv'
  BY Zenon
<1>1. CASE App
  <2>1. UNCHANGED <<ingress, sr, want, c, pc>>
    BY <1>1 DEF App, AddTimer, Start, Stop, SetInterval, AddHandler, messageVars
  <2> QED
    BY <2>1, OtherStepsRead
<1>2. CASE Enter \/ Wake \/ Scan \/ RunEnd \/ NoBatch \/ HandleEnd \/ DispatchEnd \/ Tick
  <2>1. UNCHANGED <<ingress, sr, want, c>>
    BY <1>2
       DEF Enter, Wake, Scan, RunEnd, NoBatch, HandleEnd, DispatchEnd, Tick,
           messageVars
  <2>2. \/ pc \notin {"dispatch", "handle"} \/ sr = <<>>
        \/ pc' \in {"dispatch", "handle"}
    BY <1>2
       DEF Enter, Wake, Scan, RunEnd, NoBatch, Scanned, HandleEnd, DispatchEnd,
           Tick
  <2> QED
    BY <2>1, <2>2, OtherStepsRead
<1>3. CASE UNCHANGED vars
  BY <1>3, OtherStepsRead DEF vars, messageVars
<1> QED
  BY <1>1, <1>2, <1>3, PutBatchReads, TakeBatchReads, ReadSwitchReads,
     ReadMessageReads
     DEF Next, Loop

(* The messages come to the handlers with the templates the server wrote   *)
(* them under, in order, in however many batches and under whatever        *)
(* switches of template (src/sragent.cc 98-158).                           *)
THEOREM MessagesReadAsWritten == Spec => []ReadsAsWritten
<1>1. ReadInv => ReadsAsWritten
  BY DEF ReadInv
<1> QED
  BY <1>1, InitRead, StepRead, PTL DEF Spec

-----------------------------------------------------------------------------
(***************************************************************************)
(* The progress meter of SrNetHttp, for every length of a period.          *)
(***************************************************************************)
LEMMA Times ==
    ASSUME NEW a \in Nat, NEW b \in Nat, NEW x \in Nat, a <= b
    PROVE  a * x <= b * x /\ x * a <= x * b
  OBVIOUS

LEMMA OneMore == ASSUME NEW a \in Nat, NEW x \in Nat PROVE (a + 1) * x = a * x + x
  OBVIOUS

LEMMA Nothing == ASSUME NEW a \in Nat, NEW x \in Nat PROVE a = a + 0 * x
  OBVIOUS

LEMMA Product == ASSUME NEW a \in Nat, NEW x \in Nat PROVE a * x \in Nat
  OBVIOUS

(* What the meter's division tells. *)
LEMMA Periods ==
    ASSUME NEW x \in Nat, NEW p \in Nat \ {0}, NEW d \in Nat
    PROVE  /\ x \div p > d => x >= (d + 1) * p
           /\ x \div p <= d => x < (d + 1) * p
<1> DEFINE n == x \div p
<1>1. n \in Nat /\ n * p <= x /\ x < n * p + p
  OBVIOUS
<1> HIDE DEF n
<1>2. x < (n + 1) * p
  BY <1>1, OneMore
<1>3. n > d => (d + 1) * p <= n * p
  BY <1>1, Times
<1>4. n <= d => (n + 1) * p <= (d + 1) * p
  BY <1>1, Times
<1>5. /\ n * p \in Nat /\ (d + 1) * p \in Nat /\ (n + 1) * p \in Nat
  BY <1>1, Product
<1>6. /\ n > d => x >= (d + 1) * p
      /\ n <= d => x < (d + 1) * p
  BY ONLY <1>1, <1>2, <1>3, <1>4, <1>5, x \in Nat, d \in Nat
<1> QED
  BY <1>6 DEF n

-----------------------------------------------------------------------------
(* The inductive invariant *)

Types ==
    /\ clock \in Nat /\ first \in Nat /\ last \in Nat /\ began \in Nat
    /\ dlnow \in Nat /\ silent \in Nat /\ silence \in Nat /\ cancelled \in Int
    /\ silent <= silence /\ began <= clock
    /\ first \in {0, began}

(* The bytes cut the time of a transfer into spells of silence. *)
Spells == Http!Running => clock - began <= dlnow * silence + silent

(* An untouched meter looks at the end of each period, of which there were *)
(* no more than bytes.                                                     *)
Looks ==
    Http!Running /\ cancelled = -1 /\ ~cancelling =>
       /\ first = began
       /\ \E j \in 0 .. dlnow : last = began + j * Period
       /\ last <= clock /\ clock < last + Period

Alive == transfer = "aborted" /\ first = began => Period <= silence

HttpInv == Types /\ Spells /\ Looks /\ Alive

-----------------------------------------------------------------------------
(* The initial states satisfy the invariant. *)
LEMMA InitHttp == Http!Init => HttpInv
  BY DEF Http!Init, HttpInv, Types, Spells, Looks, Alive, Http!Running

LEMMA PostKeeps == ASSUME Http!HttpAssumption, HttpInv, Http!HttpPost PROVE HttpInv'
<1>0. Period \in Nat \ {0}
  BY DEF Http!HttpAssumption
<1>1. Types'
  BY DEF Http!HttpPost, HttpInv, Types
<1>2. Spells'
  BY <1>1 DEF Http!HttpPost, Spells, Types
<1>3. Looks'
  <2>1. last' = clock /\ began' = clock /\ first' = clock /\ clock' = clock /\ dlnow' = 0
    BY DEF Http!HttpPost
  <2>2. clock \in Nat
    BY DEF HttpInv, Types
  <2>3. clock = clock + 0 * Period
    BY <1>0, <2>2, Nothing
  <2>4. 0 \in 0 .. dlnow' /\ last' = began' + 0 * Period
    BY <2>1, <2>3
  <2>5. \E j \in 0 .. dlnow' : last' = began' + j * Period
    BY <2>4
  <2>6. last' <= clock' /\ clock' < last' + Period
    BY <1>0, <2>1, <2>2
  <2> QED
    BY ONLY <2>1, <2>5, <2>6 DEF Looks
<1>4. Alive'
  BY DEF Http!HttpPost, Alive
<1> QED
  BY <1>1, <1>2, <1>3, <1>4 DEF HttpInv

LEMMA ReceiveKeeps == HttpInv /\ Http!Receive => HttpInv'
<1> SUFFICES ASSUME HttpInv, Http!Receive PROVE HttpInv'
  OBVIOUS
<1> USE DEF Http!Receive, Http!Running, HttpInv, Types
<1>1. Types'
  OBVIOUS
<1>2. Spells'
  <2>1. dlnow' * silence' = dlnow * silence + silence
    BY OneMore
  <2>2. dlnow * silence \in Nat
    BY Product
  <2> QED
    BY <2>1, <2>2 DEF Spells
<1>3. Looks'
  BY DEF Looks
<1>4. Alive'
  BY DEF Alive
<1> QED
  BY <1>1, <1>2, <1>3, <1>4

LEMMA XferinfoKeeps == ASSUME Http!HttpAssumption, HttpInv, Http!Xferinfo PROVE HttpInv'
<1> USE DEF HttpInv
<1>0. Period \in Nat \ {0}
  BY DEF Http!HttpAssumption
<1>1. Types'
  BY <1>0 DEF Http!Xferinfo, Types, Http!Running
<1>2. /\ clock' = clock + 1 /\ UNCHANGED <<first, began, dlnow, cancelling, cancelled>>
      /\ silence <= silence' /\ (Http!Running => silent' = silent + 1)
      /\ ~Http!Running => UNCHANGED <<last, silence, transfer>>
  BY DEF Http!Xferinfo, Types, Http!Running
(* Another second of silence lengthens the spell. *)
<1>3. Http!Running => clock' - began' <= dlnow' * silence' + silent'
  <2>1. dlnow * silence \in Nat /\ dlnow * silence' \in Nat /\ dlnow * silence <= dlnow * silence'
    BY <1>1, <1>2, Times, Product DEF Types
  <2> QED
    BY <1>2, <2>1 DEF Types, Spells
<1>4. Spells'
  BY <1>2, <1>3 DEF Spells, Http!Running
<1>5. CASE Http!Running /\ clock' - last >= Period
  <2>1. last' = clock' /\ transfer' = IF Http!Silent(clock') THEN "aborted" ELSE "running"
    BY <1>5 DEF Http!Xferinfo, Http!Running
  <2>2. first = began => /\ Http!Silent(clock') => clock' - began >= (dlnow + 1) * Period
                         /\ ~Http!Silent(clock') => clock' - began < (dlnow + 1) * Period
    <3>1. clock' - began \in Nat
      BY <1>2 DEF Types
    <3>2. dlnow \in Nat
      BY DEF Types
    <3>3. (clock' - began) \div Period \in Int
      BY <1>0, <3>1
    <3> QED
      BY <1>0, <3>1, <3>2, <3>3, Periods DEF Http!Silent
  <2>3. Looks'
    <3> SUFFICES ASSUME Http!Running', cancelled = -1, ~cancelling PROVE Looks'
      BY <1>2 DEF Looks
    <3>1. ~Http!Silent(clock') /\ first = began
      BY <1>5, <2>1 DEF Looks, Http!Running
    <3>2. PICK j \in 0 .. dlnow : last = began + j * Period
      BY <1>5 DEF Looks
    <3>3. clock < last + Period
      BY <1>5 DEF Looks
    <3>4. (j + 1) * Period = j * Period + Period /\ j * Period \in Nat
      BY <1>0, <3>2, OneMore, Product DEF Types
    <3>5. clock' = began + (j + 1) * Period
      BY <1>0, <1>2, <1>5, <3>2, <3>3, <3>4 DEF Types
    <3>6. j + 1 <= dlnow
      <4>1. (j + 1) * Period < (dlnow + 1) * Period
        BY <1>0, <2>2, <3>1, <3>4, <3>5, Product DEF Types
      <4>2. dlnow + 1 <= j + 1 => (dlnow + 1) * Period <= (j + 1) * Period
        BY <1>0, <3>2, Times DEF Types
      <4>3. (j + 1) * Period \in Nat /\ (dlnow + 1) * Period \in Nat
        BY <1>0, <3>2, Product DEF Types
      <4>4. ~(dlnow + 1 <= j + 1)
        BY ONLY <4>1, <4>2, <4>3
      <4> QED
        BY <3>2, <4>4 DEF Types
    <3>7. j + 1 \in 0 .. dlnow' /\ last' = began' + (j + 1) * Period
      BY <1>2, <2>1, <3>2, <3>5, <3>6 DEF Types
    <3>8. \E n \in 0 .. dlnow' : last' = began' + n * Period
      BY <3>7
    <3>9. first' = began' /\ last' <= clock' /\ clock' < last' + Period
      BY <1>0, <1>1, <1>2, <2>1, <3>1 DEF Types
    <3> QED
      BY ONLY <3>8, <3>9 DEF Looks
  <2>4. Alive'
    <3> SUFFICES ASSUME transfer' = "aborted", first = began, silence' < Period PROVE FALSE
      BY <1>0, <1>1, <1>2 DEF Alive, Types
    <3>1. clock' - began >= (dlnow + 1) * Period
      BY <2>1, <2>2
    <3>2. (dlnow + 1) * Period = dlnow * Period + Period
      BY <1>0, OneMore DEF Types
    <3>n. dlnow \in Nat /\ silence' \in Nat /\ Period \in Nat /\ silence' <= Period
      BY <1>0, <1>1 DEF HttpInv, Types
    <3>3. dlnow * silence' <= dlnow * Period
      BY ONLY <3>n, Times
    <3>4. dlnow * silence' \in Nat /\ dlnow * Period \in Nat
      BY ONLY <3>n, Product
    <3>5. clock' - began <= dlnow * silence' + silent' /\ silent' <= silence'
      BY <1>1, <1>2, <1>3, <1>5 DEF Types
    <3>6. clock' - began \in Int /\ silent' \in Nat /\ silence' \in Nat
      BY <1>1, <1>2 DEF Types
    <3> QED
      BY ONLY <1>0, <3>1, <3>2, <3>3, <3>4, <3>5, <3>6, silence' < Period
  <2> QED
    BY <1>1, <1>4, <2>3, <2>4
<1>6. CASE ~(Http!Running /\ clock' - last >= Period)
  <2>1. UNCHANGED <<last, transfer>>
    BY <1>6 DEF Http!Xferinfo
  <2>2. Looks'
    BY <1>0, <1>2, <1>6, <2>1 DEF Looks, Http!Running, Types
  <2>3. Alive'
    BY <1>0, <1>1, <1>2, <2>1 DEF Alive, Types
  <2> QED
    BY <1>1, <1>4, <2>2, <2>3
<1> QED
  BY <1>5, <1>6

-----------------------------------------------------------------------------
(* Every step keeps it. *)
LEMMA StepHttp == ASSUME Http!HttpAssumption PROVE HttpInv /\ [Http!Next]_(Http!httpVars) => HttpInv'
<1> SUFFICES ASSUME HttpInv, [Http!Next]_(Http!httpVars) PROVE HttpInv'
  OBVIOUS
<1> USE DEF HttpInv, Types, Spells, Looks, Alive, Http!Running
<1>1. ASSUME NEW result \in {"done", "failed"}, Http!HttpEnds(result) PROVE HttpInv'
  BY <1>1 DEF Http!HttpEnds
<1>2. CASE Http!ClearResponse
  BY <1>2 DEF Http!ClearResponse
<1>3. CASE Http!CancelLast
  BY <1>3 DEF Http!CancelLast
<1>4. CASE Http!CancelFirst
  BY <1>4 DEF Http!CancelFirst
<1>5. CASE UNCHANGED Http!httpVars
  BY <1>5 DEF Http!httpVars
<1> QED
  BY <1>1, <1>2, <1>3, <1>4, <1>5, PostKeeps, ReceiveKeeps, XferinfoKeeps
     DEF Http!Next

LEMMA MeterRight == ASSUME Http!HttpAssumption PROVE HttpInv => Http!SilenceEnds
<1> SUFFICES ASSUME HttpInv, Http!Untouched PROVE Http!SilenceEnds
  BY DEF Http!SilenceEnds
<1> USE DEF HttpInv
<1>0. Period \in Nat \ {0}
  BY DEF Http!HttpAssumption
<1>1. silence < Period => transfer # "aborted"
  BY <1>0 DEF Http!Untouched, Alive, Types
<1>2. ASSUME Http!Running PROVE clock - began < (dlnow + 1) * Period
  <2>1. PICK j \in 0 .. dlnow : last = began + j * Period
    BY <1>2 DEF Looks, Http!Untouched
  <2>2. clock < last + Period
    BY <1>2 DEF Looks, Http!Untouched
  <2>3. (j + 1) * Period <= (dlnow + 1) * Period /\ (j + 1) * Period = j * Period + Period
    BY <1>0, <2>1, Times, OneMore DEF Types
  <2>4. j * Period \in Nat /\ (dlnow + 1) * Period \in Nat
    BY <1>0, <2>1, Product DEF Types
  <2> QED
    BY <2>1, <2>2, <2>3, <2>4, <1>0 DEF Types
<1> QED
  BY <1>1, <1>2 DEF Http!SilenceEnds


-----------------------------------------------------------------------------
(* The invariant holds in every state. *)
THEOREM HttpInvariance == ASSUME Http!HttpAssumption PROVE Http!Spec => []HttpInv
  BY InitHttp, StepHttp, PTL DEF Http!Spec

(* A transfer with a byte in every period is not aborted unless cancelled, *)
(* and one without ends after the periods its bytes stand for              *)
(* (srnethttp.cc 26-49).                                                   *)
THEOREM MeterEndsSilence == ASSUME Http!HttpAssumption PROVE Http!Spec => []Http!SilenceEnds
<1>1. HttpInv => Http!SilenceEnds
  BY MeterRight
<1> QED
  BY <1>1, HttpInvariance, PTL

-----------------------------------------------------------------------------
(***************************************************************************)
(* The rotation of SrLogger, wherever the process is killed.               *)
(***************************************************************************)
(* A file's lines follow one another and end with number e.                *)
Run(s, e) == \A i \in 1 .. Len(s) : s[i] = e - Len(s) + i

DiskTypes == disk \in [Logger!Files -> Seq(Int)] /\ lines \in Nat

(* The lines of the file come after those of its first back-up, and these  *)
(* after those of the second.                                              *)
Following ==
    /\ Run(Logger!Lines("fn"), lines)
    /\ Run(Logger!Lines("fn.1"), lines - Len(Logger!Lines("fn")))
    /\ Run(Logger!Lines("fn.2"),
           lines - Len(Logger!Lines("fn")) - Len(Logger!Lines("fn.1")))

(* A rotation puts no file in the place of another, and what is written is *)
(* added to a file that exists.                                            *)
Places ==
    /\ logging = "second" => disk["fn.1"] = Logger!Absent
    /\ logging = "reopen" => disk["fn"] = Logger!Absent
    /\ out = "open" /\ logging # "reopen" => disk["fn"] # Logger!Absent

LoggerInv == DiskTypes /\ Following /\ Places

LEMMA LinesAre ==
    ASSUME DiskTypes, NEW f \in Logger!Files
    PROVE  /\ Logger!Lines(f) \in Seq(Int)
           /\ disk[f] # Logger!Absent => Logger!Lines(f) = disk[f]
           /\ disk[f] = Logger!Absent => Logger!Lines(f) = <<>>
           /\ Logger!Lines(f) # Logger!Absent
<1>1. <<>> \in Seq(Int) /\ <<>> # <<0>>
  OBVIOUS
<1> QED
  BY <1>1, Zenon DEF DiskTypes, Logger!Lines, Logger!Absent

LEMMA InitLogger == Logger!Init => LoggerInv
<1> SUFFICES ASSUME Logger!Init PROVE LoggerInv
  OBVIOUS
<1>1. disk = [f \in Logger!Files |-> <<0>>] /\ lines = 0 /\ out = "terminal" /\ logging = "idle"
  BY DEF Logger!Init, Logger!Absent
<1>2. DiskTypes
  <2>1. <<0>> \in Seq(Int)
    OBVIOUS
  <2> QED
    BY <1>1, <2>1 DEF DiskTypes
<1>3. \A f \in Logger!Files : Logger!Lines(f) = <<>>
  BY <1>1, <1>2, LinesAre DEF Logger!Absent
<1>4. Following
  <2>1. \A e : Run(<<>>, e)
    BY DEF Run
  <2> QED
    BY <1>3, <2>1, Zenon DEF Following, Logger!Files
<1>5. Places
  BY <1>1 DEF Places
<1> QED
  BY <1>2, <1>4, <1>5 DEF LoggerInv

(* A file gets another name; where it was another, that one is gone.       *)
LEMMA RenamedRight ==
    ASSUME DiskTypes, NEW a \in Logger!Files, NEW b \in Logger!Files, a # b,
           Logger!Renamed(a, b), lines' = lines
    PROVE  /\ DiskTypes'
           /\ disk'[a] = Logger!Absent
           /\ disk[a] # Logger!Absent => disk'[b] = disk[a]
           /\ disk[a] = Logger!Absent => disk' = disk
           /\ \A f \in Logger!Files \ {a, b} : disk'[f] = disk[f]
<1>1. Logger!Absent \in Seq(Int)
  BY DEF Logger!Absent
<1>2. CASE disk[a] = Logger!Absent
  <2>1. disk' = disk
    BY <1>2, Zenon DEF Logger!Renamed
  <2> QED
    BY <1>2, <2>1 DEF DiskTypes
<1>3. CASE disk[a] # Logger!Absent
  <2>1. disk' = [disk EXCEPT ![b] = disk[a], ![a] = Logger!Absent]
    BY <1>3, Zenon DEF Logger!Renamed
  <2> QED
    BY <1>1, <1>3, <2>1 DEF DiskTypes
<1> QED
  BY <1>2, <1>3

LEMMA RunGrows ==
    ASSUME NEW s \in Seq(Int), NEW e \in Int
    PROVE  /\ Append(s, e + 1) \in Seq(Int) /\ Append(s, e + 1)[Len(s) + 1] = e + 1
           /\ Len(s) \in Nat /\ Len(Append(s, e + 1)) = Len(s) + 1
           /\ Run(s, e) => Run(Append(s, e + 1), e + 1)
           /\ (e + 1) - Len(Append(s, e + 1)) = e - Len(s)
<1>1. /\ Append(s, e + 1) \in Seq(Int) /\ Append(s, e + 1)[Len(s) + 1] = e + 1
      /\ Len(s) \in Nat /\ Len(Append(s, e + 1)) = Len(s) + 1
      /\ \A i \in 1 .. Len(s) : Append(s, e + 1)[i] = s[i]
  OBVIOUS
<1>2. ASSUME Run(s, e) PROVE Run(Append(s, e + 1), e + 1)
  BY ONLY <1>1, <1>2, e \in Int DEF Run
<1> QED
  BY <1>1, <1>2

LEMMA LogKeeps == ASSUME LoggerInv, Logger!Log PROVE LoggerInv'
<1>1. /\ DiskTypes /\ disk["fn"] # Logger!Absent /\ logging = "idle" /\ out' = out
      /\ lines' = lines + 1 /\ disk' = [disk EXCEPT !["fn"] = Append(disk["fn"], lines + 1)]
      /\ logging' \in {"first", "idle"}
  BY DEF Logger!Log, LoggerInv, Places
<1> DEFINE s == disk["fn"]
<1>2. s \in Seq(Int) /\ lines \in Nat
  BY <1>1 DEF DiskTypes, Logger!Files
<1>r. /\ Append(s, lines + 1)[Len(s) + 1] = lines + 1
      /\ Len(s) \in Nat /\ Len(Append(s, lines + 1)) = Len(s) + 1
      /\ Run(s, lines) => Run(Append(s, lines + 1), lines + 1)
      /\ (lines + 1) - Len(Append(s, lines + 1)) = lines - Len(s)
  <2>1. lines \in Int
    BY <1>2
  <2> QED
    BY ONLY <1>2, <2>1, RunGrows, Zenon
<1>3. /\ disk'["fn"] = Append(s, lines + 1)
      /\ disk'["fn.1"] = disk["fn.1"] /\ disk'["fn.2"] = disk["fn.2"]
  BY <1>1 DEF DiskTypes, Logger!Files
<1>4. Append(s, lines + 1) \in Seq(Int) /\ lines + 1 \in Nat
  BY <1>2
<1>5. DiskTypes'
  BY <1>1, <1>4 DEF DiskTypes, Logger!Files
<1>6. disk'["fn"] # Logger!Absent
  <2>1. ASSUME Append(s, lines + 1) = << 0 >> PROVE FALSE
    <3>1. Len(<<0>>) = 1 /\ <<0>>[1] = 0
      OBVIOUS
    <3>2. Len(s) + 1 = 1 /\ <<0>>[Len(s) + 1] = lines + 1
      BY ONLY <1>r, <2>1, <3>1, Zenon
    <3> QED
      BY ONLY <1>2, <3>1, <3>2
  <2> QED
    BY <1>3, <2>1 DEF Logger!Absent
<1>7. /\ Logger!Lines("fn") = s /\ Logger!Lines("fn")' = Append(s, lines + 1)
      /\ Logger!Lines("fn.1")' = Logger!Lines("fn.1")
      /\ Logger!Lines("fn.2")' = Logger!Lines("fn.2")
  BY <1>1, <1>3, <1>6, Zenon DEF Logger!Lines, Logger!Absent
<1>8. Following'
  <2>1. Following
    BY DEF LoggerInv
  <2> HIDE DEF s
  <2> QED
    BY ONLY <1>1, <1>7, <1>r, <2>1, Zenon DEF Following
<1>9. Places'
  BY <1>1, <1>6 DEF Places
<1> QED
  BY <1>5, <1>8, <1>9 DEF LoggerInv

LEMMA StepLogger == LoggerInv /\ [Logger!Next]_(Logger!loggerVars) => LoggerInv'
<1> SUFFICES ASSUME LoggerInv, Logger!Next \/ UNCHANGED Logger!loggerVars PROVE LoggerInv'
  BY Zenon
<1>0. DiskTypes /\ Following /\ Places
  BY DEF LoggerInv
<1>n. \A f \in Logger!Files : Logger!Lines(f) \in Seq(Int)
  BY <1>0, LinesAre
<1>f. "fn" \in Logger!Files /\ "fn.1" \in Logger!Files /\ "fn.2" \in Logger!Files
  BY DEF Logger!Files
<1>e. \A e : Run(<<>>, e)
  BY DEF Run
<1>1. ASSUME NEW opens \in BOOLEAN, Logger!SetDest(opens) PROVE LoggerInv'
  <2>1. lines' = lines /\ logging = "idle" /\ logging' = logging /\ out = "terminal"
    BY <1>1 DEF Logger!SetDest
  <2>2. CASE opens
    <3>1. disk' = [disk EXCEPT !["fn"] = Logger!Lines("fn")]
      BY <1>1, <2>2 DEF Logger!SetDest
    <3>2. DiskTypes'
      BY <1>0, <1>n, <1>f, <2>1, <3>1 DEF DiskTypes
    <3>3. /\ disk'["fn"] = Logger!Lines("fn") /\ disk'["fn.1"] = disk["fn.1"]
          /\ disk'["fn.2"] = disk["fn.2"] /\ disk'["fn"] # Logger!Absent
      BY <1>0, <1>f, <3>1, LinesAre DEF DiskTypes, Logger!Files
    <3>4. /\ Logger!Lines("fn")' = Logger!Lines("fn")
          /\ Logger!Lines("fn.1")' = Logger!Lines("fn.1")
          /\ Logger!Lines("fn.2")' = Logger!Lines("fn.2")
      <4>1. Logger!Lines("fn")' = disk'["fn"]
        BY <3>3, Zenon DEF Logger!Lines, Logger!Absent
      <4> QED
        BY <3>3, <4>1, Zenon DEF Logger!Lines, Logger!Absent
    <3>5. Following'
      BY <1>0, <2>1, <3>4, Zenon DEF Following
    <3>6. Places'
      BY <2>1, <3>3 DEF Places
    <3> QED
      BY <3>2, <3>5, <3>6 DEF LoggerInv
  <2>3. CASE ~opens
    <3>1. disk' = disk /\ out' = out
      BY <1>1, <2>3 DEF Logger!SetDest
    <3> QED
      BY <1>0, <2>1, <3>1
         DEF LoggerInv, DiskTypes, Following, Places, Logger!Lines
  <2> QED
    BY <2>2, <2>3
<1>2. ASSUME NEW opens \in BOOLEAN, Logger!Reopen(opens) PROVE LoggerInv'
  <2>1. lines' = lines /\ logging = "reopen" /\ logging' = "idle"
    BY <1>2 DEF Logger!Reopen
  <2>2. CASE opens
    <3>1. disk' = [disk EXCEPT !["fn"] = <<>>]
      BY <1>2, <2>2 DEF Logger!Reopen
    <3>2. DiskTypes'
      <4>1. <<>> \in Seq(Int)
        OBVIOUS
      <4> QED
        BY <1>0, <1>f, <2>1, <3>1, <4>1 DEF DiskTypes
    <3>3. /\ disk'["fn"] = <<>> /\ disk'["fn.1"] = disk["fn.1"]
          /\ disk'["fn.2"] = disk["fn.2"] /\ disk["fn"] = Logger!Absent
      BY <1>0, <1>f, <2>1, <3>1 DEF DiskTypes, Logger!Files, Places
    <3>4. disk'["fn"] # Logger!Absent
      BY <3>3 DEF Logger!Absent
    <3>5. /\ Logger!Lines("fn")' = Logger!Lines("fn")
          /\ Logger!Lines("fn.1")' = Logger!Lines("fn.1")
          /\ Logger!Lines("fn.2")' = Logger!Lines("fn.2")
      <4>1. Logger!Lines("fn")' = disk'["fn"]
        BY <3>4, Zenon DEF Logger!Lines, Logger!Absent
      <4> QED
        BY <3>3, <4>1, Zenon DEF Logger!Lines, Logger!Absent
    <3>6. Following'
      BY <1>0, <2>1, <3>5, Zenon DEF Following
    <3>7. Places'
      BY <2>1, <3>4 DEF Places
    <3> QED
      BY <3>2, <3>6, <3>7 DEF LoggerInv
  <2>3. CASE ~opens
    <3>1. disk' = disk /\ out' = "failed"
      BY <1>2, <2>3 DEF Logger!Reopen
    <3> QED
      BY <1>0, <2>1, <3>1
         DEF LoggerInv, DiskTypes, Following, Places, Logger!Lines
  <2> QED
    BY <2>2, <2>3
<1>3. CASE Logger!RotateFirst
  <2>1. /\ Logger!Renamed("fn.1", "fn.2") /\ lines' = lines /\ out' = out
        /\ logging = "first" /\ logging' = "second"
    BY <1>3 DEF Logger!RotateFirst
  <2>2. /\ DiskTypes' /\ disk'["fn"] = disk["fn"] /\ disk'["fn.1"] = Logger!Absent
        /\ disk["fn.1"] # Logger!Absent => disk'["fn.2"] = disk["fn.1"]
        /\ disk["fn.1"] = Logger!Absent => disk'["fn.2"] = disk["fn.2"]
    BY <1>0, <1>f, <2>1, RenamedRight, "fn" # "fn.1", "fn" # "fn.2",
       "fn.1" # "fn.2"
  <2>3. Logger!Lines("fn")' = Logger!Lines("fn") /\ Logger!Lines("fn.1")' = <<>>
    BY <2>2, Zenon DEF Logger!Lines, Logger!Absent
  <2>4. Run(Logger!Lines("fn.2")', lines - Len(Logger!Lines("fn")) - 0)
    <3>1. CASE disk["fn.1"] = Logger!Absent
      <4>1. Logger!Lines("fn.2")' = Logger!Lines("fn.2") /\ Logger!Lines("fn.1") = <<>>
        BY <2>2, <3>1, Zenon DEF Logger!Lines, Logger!Absent
      <4>2. Len(<<>>) = 0
        OBVIOUS
      <4> QED
        BY ONLY <1>0, <4>1, <4>2, Zenon DEF Following
    <3>2. CASE disk["fn.1"] # Logger!Absent
      <4>1. Logger!Lines("fn.2")' = Logger!Lines("fn.1")
        BY <2>2, <3>2, Zenon DEF Logger!Lines, Logger!Absent
      <4>2. lines - Len(Logger!Lines("fn")) - 0 = lines - Len(Logger!Lines("fn"))
        BY <1>0, <1>n, <1>f DEF DiskTypes
      <4> QED
        BY ONLY <1>0, <4>1, <4>2, Zenon DEF Following
    <3> QED
      BY <3>1, <3>2
  <2>5. Following'
    <3>1. Len(<<>>) = 0
      OBVIOUS
    <3> QED
      BY ONLY <1>0, <1>e, <2>1, <2>3, <2>4, <3>1, Zenon DEF Following
  <2>6. Places'
    BY <1>0, <2>1, <2>2 DEF Places
  <2> QED
    BY <2>2, <2>5, <2>6 DEF LoggerInv
<1>4. CASE Logger!RotateSecond
  <2>1. /\ Logger!Renamed("fn", "fn.1") /\ lines' = lines /\ out' = out
        /\ logging = "second" /\ logging' = "reopen" /\ disk["fn.1"] = Logger!Absent
    BY <1>0, <1>4 DEF Logger!RotateSecond, Places
  <2>2. /\ DiskTypes' /\ disk'["fn.2"] = disk["fn.2"] /\ disk'["fn"] = Logger!Absent
        /\ disk["fn"] # Logger!Absent => disk'["fn.1"] = disk["fn"]
        /\ disk["fn"] = Logger!Absent => disk'["fn.1"] = disk["fn.1"]
    BY <1>0, <1>f, <2>1, RenamedRight, "fn" # "fn.1", "fn" # "fn.2",
       "fn.1" # "fn.2"
  <2>3. /\ Logger!Lines("fn.2")' = Logger!Lines("fn.2") /\ Logger!Lines("fn")' = <<>>
        /\ Logger!Lines("fn.1") = <<>>
    BY <2>1, <2>2, Zenon DEF Logger!Lines, Logger!Absent
  <2>4. Logger!Lines("fn.1")' = Logger!Lines("fn")
    BY <2>1, <2>2, Zenon DEF Logger!Lines, Logger!Absent
  <2>5. /\ Len(<<>>) = 0 /\ lines - 0 = lines
        /\ lines - Len(Logger!Lines("fn")) - 0 = lines - 0 - Len(Logger!Lines("fn"))
    BY <1>0, <1>n, <1>f DEF DiskTypes
  <2>6. Following'
    <3>1. Run(Logger!Lines("fn.1")', lines - 0)
      BY ONLY <1>0, <2>4, <2>5, Zenon DEF Following
    <3>2. Run(Logger!Lines("fn.2")', lines - 0 - Len(Logger!Lines("fn.1")'))
      BY ONLY <1>0, <2>3, <2>4, <2>5, Zenon DEF Following
    <3> QED
      BY ONLY <1>e, <2>1, <2>3, <2>5, <3>1, <3>2, Zenon DEF Following
  <2>7. Places'
    BY <2>1, <2>2 DEF Places
  <2> QED
    BY <2>2, <2>6, <2>7 DEF LoggerInv
<1>5. ASSUME UNCHANGED <<disk, lines>>, Logger!Kill \/ UNCHANGED <<out, logging>>
      PROVE  LoggerInv'
  BY <1>0, <1>5
     DEF LoggerInv, DiskTypes, Following, Places, Logger!Lines, Logger!Kill
<1>6. ASSUME NEW q \in Quotas, Logger!SetQuota(q) PROVE LoggerInv'
  BY <1>5, <1>6 DEF Logger!SetQuota
<1>7. ASSUME NEW l \in {1, 2}, Logger!SetLevel(l) PROVE LoggerInv'
  BY <1>5, <1>7 DEF Logger!SetLevel
<1>8. CASE Logger!Kill
  BY <1>5, <1>8 DEF Logger!Kill
<1>9. CASE UNCHANGED Logger!loggerVars
  BY <1>5, <1>9 DEF Logger!loggerVars
<1> QED
  BY <1>1, <1>2, <1>3, <1>4, <1>6, <1>7, <1>8, <1>9, LogKeeps, Zenon
     DEF Logger!Next

(* Two runs of which one follows the other are one.                        *)
LEMMA RunsJoin ==
    ASSUME NEW s \in Seq(Int), NEW t \in Seq(Int), NEW e \in Int,
           Run(t, e), Run(s, e - Len(t))
    PROVE  Run(s \o t, e)
  BY DEF Run

LEMMA KeptRight == LoggerInv => Logger!LastLinesKept
<1> SUFFICES ASSUME LoggerInv PROVE Logger!LastLinesKept
  OBVIOUS
<1> DEFINE s == Logger!Lines("fn.2")
           t == Logger!Lines("fn.1")
           u == Logger!Lines("fn")
           kept == s \o t \o u
<1>1. s \in Seq(Int) /\ t \in Seq(Int) /\ u \in Seq(Int) /\ lines \in Int
  BY LinesAre DEF LoggerInv, DiskTypes, Logger!Files
<1>2. Run(u, lines) /\ Run(t, lines - Len(u)) /\ Run(s, lines - Len(u) - Len(t))
  BY DEF LoggerInv, Following
<1>3. lines - Len(u) \in Int /\ s \o t \in Seq(Int) /\ kept \in Seq(Int)
  BY <1>1
<1>d. kept = (s \o t) \o u
  OBVIOUS
<1>l. Logger!LastLinesKept <=> kept = [n \in 1 .. Len(kept) |-> lines - Len(kept) + n]
  BY Zenon DEF Logger!LastLinesKept
<1> HIDE DEF s, t, u, kept
<1>4. Run(s \o t, lines - Len(u))
  BY ONLY <1>1, <1>2, <1>3, RunsJoin
<1>5. Run(kept, lines)
  BY ONLY <1>1, <1>2, <1>3, <1>4, <1>d, RunsJoin
<1>6. kept = [n \in 1 .. Len(kept) |-> lines - Len(kept) + n]
  BY ONLY <1>3, <1>5 DEF Run
<1> QED
  BY <1>l, <1>6

-----------------------------------------------------------------------------
(***************************************************************************)
(* The transfers of SrNetBinHttp.                                          *)
(***************************************************************************)
(* The handle during a transfer: its options are those that Begin gave it, *)
(* and the buffer outlives every transfer, of which none is its name.      *)
BinInv ==
    /\ transfers \in Nat /\ BinHttp!Buffer \in live
    /\ op # "none" =>
        /\ op \in BinHttp!Uploads \cup {"get", "getf"}
        /\ transfers # BinHttp!Buffer
        /\ op # "get" => transfers \in live
        /\ options.method = BinHttp!MethodOf(op)
        /\ options.sink = IF op = "getf" THEN transfers ELSE BinHttp!Buffer
        /\ op \in BinHttp!Uploads => options.form = transfers

LEMMA InitBin == BinHttp!Init => BinInv
  BY DEF BinHttp!Init, BinInv, BinHttp!Buffer

LEMMA StepBin == BinInv /\ [BinHttp!Next]_(BinHttp!binVars) => BinInv'
<1> SUFFICES ASSUME BinInv, BinHttp!Next \/ UNCHANGED BinHttp!binVars PROVE BinInv'
  BY Zenon
<1>1. ASSUME NEW o \in BinHttp!Uploads \cup {"get", "getf"}, BinHttp!Begin(o) PROVE BinInv'
  <2>1. /\ op' = o /\ transfers' = transfers + 1 /\ transfers \in Nat
        /\ BinHttp!Buffer \in live
        /\ live' = IF o = "get" THEN live ELSE live \cup {transfers'}
    BY <1>1 DEF BinHttp!Begin, BinInv
  <2>2. /\ options'.method = BinHttp!MethodOf(o)
        /\ options'.sink = IF o = "getf" THEN transfers' ELSE BinHttp!Buffer
        /\ o \in BinHttp!Uploads => options'.form = transfers'
    BY <1>1 DEF BinHttp!Begin, BinHttp!SinkOf
  <2>3. transfers' \in Nat /\ transfers' # BinHttp!Buffer
    BY <2>1 DEF BinHttp!Buffer
  <2>4. BinHttp!Buffer \in live' /\ (o # "get" => transfers' \in live')
    BY ONLY <2>1
  <2> QED
    BY ONLY <2>1, <2>2, <2>3, <2>4, o \in BinHttp!Uploads \cup {"get", "getf"},
            Zenon
       DEF BinInv, BinHttp!MethodOf, BinHttp!Buffer, BinHttp!Uploads
<1>2. ASSUME NEW succeeds \in BOOLEAN, BinHttp!End(succeeds) PROVE BinInv'
  BY <1>2 DEF BinHttp!End, BinInv, BinHttp!Buffer
<1>3. CASE BinHttp!Receive
  BY <1>3 DEF BinHttp!Receive, BinInv, BinHttp!Buffer, BinHttp!MethodOf
<1>4. CASE BinHttp!Clear
  BY <1>4 DEF BinHttp!Clear, BinInv, BinHttp!Buffer
<1>5. CASE UNCHANGED BinHttp!binVars
  BY <1>5 DEF BinHttp!binVars, BinInv, BinHttp!Buffer, BinHttp!MethodOf
<1> QED
  BY <1>1, <1>2, <1>3, <1>4, <1>5, Zenon DEF BinHttp!Next

LEMMA OptionsRight == BinInv => BinHttp!OptionsAreTheTransfers
<1> SUFFICES ASSUME BinInv, op # "none" PROVE BinHttp!OptionsAreTheTransfers
  BY DEF BinHttp!OptionsAreTheTransfers
<1> QED
  BY DEF BinInv, BinHttp!OptionsAreTheTransfers, BinHttp!MethodOf,
     BinHttp!Uploads

-----------------------------------------------------------------------------
(***************************************************************************)
(* What publish() of the blocking clients reports as sent has reached the  *)
(* server. Packets are lost with their connection, and acknowledgements    *)
(* come late: the invariant says of every packet on its way, in either     *)
(* direction, what it can still cause. A message the server will take      *)
(* (Taken) and an acknowledgement on its way (Ack) are those of the        *)
(* command that waits (Owed), there is one of them at most (OwedOnce), and *)
(* nothing of an earlier session is left once a connection is accepted     *)
(* (Fresh).                                                                *)
(***************************************************************************)
(* The packets, either way. *)
Packets == [type : {"CONNECT", "PUBLISH", "SUBSCRIBE", "UNSUBSCRIBE", "PINGREQ", "DISCONNECT",
                    "CONNACK", "PUBACK", "SUBACK", "UNSUBACK", "PINGRESP"},
            id : Nat, what : Nat \cup Topics]

(* A PUBLISH that the server acknowledges. *)
Owing(p) == p.type = "PUBLISH" /\ p.id # 0

(* The server takes packet n on its way before it breaks the connection:   *)
(* no second CONNECT comes before it.                                      *)
Taken(n) == known /\ Owing(up[n]) /\ \A j \in 1 .. n - 1 : up[j].type # "CONNECT"
Ack(n) == down[n].type = "PUBACK"
Accept(n) == down[n].type = "CONNACK" /\ down[n].what = 0

PahoTypes ==
    /\ up \in Seq(Packets) /\ down \in Seq(Packets)
    /\ packetid \in Nat /\ commands \in Nat /\ incoming \in Nat /\ topicsOf \subseteq Nat \cup Topics

Calls ==
    /\ command.name = "publish" => command.want = "PUBACK" /\ isconnected
    /\ command.name = "connect" => command.want = "CONNACK" /\ ~isconnected

(* What came after a CONNECT that was accepted. *)
Accepted ==
    /\ \A n \in DOMAIN down : Ack(n) \/ Accept(n) => known
    /\ \A j, n \in DOMAIN up : j < n /\ up[j].type = "CONNECT" /\ Owing(up[n]) => known
    /\ \A n \in DOMAIN up : isconnected /\ up[n].type = "CONNECT" => known

(* A connection is accepted once, and then nothing is left of an earlier   *)
(* session.                                                                *)
Fresh ==
    \A n \in DOMAIN down : Accept(n) =>
        /\ ~isconnected
        /\ \A j \in DOMAIN down : ~Ack(j) /\ (Accept(j) => j = n)
        /\ \A j \in DOMAIN up : ~Taken(j)

(* While the session lasts, an acknowledgement is of the message publish() *)
(* waits for, and there is but one on its way or to come.                  *)
Owed ==
    isconnected =>
        /\ \A n \in DOMAIN up : Taken(n) =>
              command.name = "publish" /\ up[n].what = command.what
        /\ \A n \in DOMAIN down : Ack(n) =>
              command.name = "publish" /\ command.what \in arrived

OwedOnce ==
    isconnected =>
        /\ \A j, n \in DOMAIN up : Taken(j) /\ Taken(n) => j = n
        /\ \A j, n \in DOMAIN down : Ack(j) /\ Ack(n) => j = n
        /\ \A j \in DOMAIN up, n \in DOMAIN down : ~(Taken(j) /\ Ack(n))

OnTheWay == Accepted /\ Fresh /\ Owed /\ OwedOnce

PahoInv == PahoTypes /\ Calls /\ OnTheWay /\ reported \subseteq arrived

-----------------------------------------------------------------------------
(* Sequences that lose d packets at their head and get some of S.          *)
Moved(u, v, d, S) ==
    /\ d \in {0, 1} /\ d <= Len(u) /\ Len(u) <= Len(v) + d
    /\ \A n \in 1 .. Len(u) - d : v[n] = u[n + d]
    /\ \A n \in Len(u) - d + 1 .. Len(v) : v[n] \in S

LEMMA CameFrom ==
    ASSUME NEW S, NEW u \in Seq(Packets), NEW v \in Seq(Packets), NEW d, Moved(u, v, d, S),
           NEW n \in DOMAIN v
    PROVE  /\ v[n] \in S \/ (n + d \in DOMAIN u /\ v[n] = u[n + d])
           /\ n <= Len(u) - d => v[n] = u[n + d] /\ n + d \in DOMAIN u
<1>1. /\ DOMAIN u = 1 .. Len(u) /\ Len(u) \in Nat /\ DOMAIN v = 1 .. Len(v) /\ Len(v) \in Nat
  OBVIOUS
<1>2. /\ d \in {0, 1} /\ d <= Len(u) /\ Len(u) <= Len(v) + d
      /\ \A i \in 1 .. Len(u) - d : v[i] = u[i + d]
      /\ \A i \in Len(u) - d + 1 .. Len(v) : v[i] \in S
  BY DEF Moved
<1>3. CASE n <= Len(u) - d
  <2>1. n \in 1 .. Len(u) - d /\ n + d \in 1 .. Len(u)
    BY ONLY <1>1, <1>2, <1>3, n \in DOMAIN v
  <2> QED
    BY ONLY <1>1, <1>2, <2>1
<1>4. CASE ~(n <= Len(u) - d)
  <2>1. n \in Len(u) - d + 1 .. Len(v)
    BY ONLY <1>1, <1>2, <1>4, n \in DOMAIN v
  <2> QED
    BY ONLY <1>2, <1>4, <2>1
<1> QED
  BY <1>3, <1>4

LEMMA Stays ==
    ASSUME NEW S, NEW u \in Seq(Packets)
    PROVE  Moved(u, u, 0, S)
  BY DEF Moved

LEMMA OneComes ==
    ASSUME NEW S, S \subseteq Packets, NEW u \in Seq(Packets), NEW p \in S
    PROVE  Append(u, p) \in Seq(Packets) /\ Moved(u, Append(u, p), 0, S)
<1> DEFINE v == Append(u, p)
<1>1. /\ v \in Seq(Packets) /\ Len(v) = Len(u) + 1 /\ Len(u) \in Nat
      /\ v[Len(u) + 1] = p /\ \A n \in 1 .. Len(u) : v[n] = u[n]
  OBVIOUS
<1> HIDE DEF v
<1>2. Moved(u, v, 0, S)
  BY ONLY <1>1, p \in S DEF Moved
<1> QED
  BY <1>1, <1>2 DEF v

LEMMA SomeCome ==
    ASSUME NEW S, S \subseteq Packets, NEW u \in Seq(Packets), NEW w \in Seq(S)
    PROVE  u \o w \in Seq(Packets) /\ Moved(u, u \o w, 0, S)
<1> DEFINE v == u \o w
<1>0. w \in Seq(Packets)
  OBVIOUS
<1>1. /\ v \in Seq(Packets) /\ Len(v) = Len(u) + Len(w) /\ Len(u) \in Nat /\ Len(w) \in Nat
      /\ \A n \in 1 .. Len(u) : v[n] = u[n]
      /\ \A n \in Len(u) + 1 .. Len(v) : v[n] = w[n - Len(u)] /\ n - Len(u) \in 1 .. Len(w)
  BY <1>0
<1>2. \A n \in 1 .. Len(w) : w[n] \in S
  OBVIOUS
<1> HIDE DEF v
<1>3. Moved(u, v, 0, S)
  BY ONLY <1>1, <1>2 DEF Moved
<1> QED
  BY <1>1, <1>3 DEF v

LEMMA OneGoes ==
    ASSUME NEW S, NEW u \in Seq(Packets), u # <<>>
    PROVE  /\ Tail(u) \in Seq(Packets) /\ Moved(u, Tail(u), 1, S)
           /\ Head(u) = u[1] /\ u[1] \in Packets /\ 1 \in DOMAIN u
<1> DEFINE v == Tail(u)
<1>1. /\ v \in Seq(Packets) /\ Len(v) = Len(u) - 1 /\ Len(u) \in Nat /\ Len(u) >= 1
      /\ \A n \in 1 .. Len(v) : v[n] = u[n + 1]
      /\ Head(u) = u[1] /\ u[1] \in Packets /\ 1 \in DOMAIN u
  OBVIOUS
<1> HIDE DEF v
<1>2. Moved(u, v, 1, S)
  BY ONLY <1>1 DEF Moved
<1> QED
  BY <1>1, <1>2 DEF v

(* Packets that owe nothing: to the server, and from it.                   *)
MuteOrFirst == {p \in Packets : ~Owing(p) /\ (p.type = "CONNECT" => ~isconnected')}
MuteDown == {p \in Packets : p.type # "PUBACK" /\ ~(p.type = "CONNACK" /\ p.what = 0)}

LEMMA Quiet ==
    ASSUME PahoInv, PahoTypes', NEW d, NEW e,
           known' = known, arrived \subseteq arrived', isconnected' => isconnected,
           isconnected' /\ command.name = "publish" => command' = command,
           Moved(up, up', d, MuteOrFirst), d = 1 => up[1].type # "CONNECT",
           Moved(down, down', e, MuteDown)
    PROVE  OnTheWay'
<1>0. /\ up \in Seq(Packets) /\ down \in Seq(Packets) /\ d \in {0, 1} /\ e \in {0, 1}
      /\ up' \in Seq(Packets) /\ down' \in Seq(Packets)
  BY DEF PahoInv, PahoTypes, Moved
<1>n. /\ DOMAIN up = 1 .. Len(up) /\ Len(up) \in Nat
      /\ DOMAIN up' = 1 .. Len(up') /\ Len(up') \in Nat
      /\ DOMAIN down = 1 .. Len(down) /\ Len(down) \in Nat
      /\ DOMAIN down' = 1 .. Len(down') /\ Len(down') \in Nat
  BY <1>0
<1>1. ASSUME NEW n \in DOMAIN up'
      PROVE  \/ up'[n] \in MuteOrFirst
             \/ n + d \in DOMAIN up /\ up'[n] = up[n + d]
  BY <1>0, CameFrom
<1>2. ASSUME NEW n \in DOMAIN down'
      PROVE  \/ down'[n] \in MuteDown
             \/ n + e \in DOMAIN down /\ down'[n] = down[n + e]
  BY <1>0, CameFrom
<1>3. ASSUME NEW n \in DOMAIN up', Owing(up'[n])
      PROVE  n + d \in DOMAIN up /\ up'[n] = up[n + d]
  BY <1>1, <1>3 DEF MuteOrFirst
<1>4. ASSUME NEW n \in DOMAIN up', Taken(n)'
      PROVE  n + d \in DOMAIN up /\ up'[n] = up[n + d] /\ Taken(n + d)
  <2>1. Owing(up'[n]) /\ known /\ \A j \in 1 .. n - 1 : up'[j].type # "CONNECT"
    BY <1>4 DEF Taken, Owing
  <2>2. n + d \in DOMAIN up /\ up'[n] = up[n + d]
    BY <1>3, <2>1
  <2>3. ASSUME NEW j \in 1 .. (n + d) - 1 PROVE up[j].type # "CONNECT"
    <3>1. CASE j <= d
      BY <1>0, <2>3, <3>1
    <3>2. CASE j > d
      <4>1. j - d \in 1 .. n - 1 /\ j - d \in 1 .. Len(up) - d /\ (j - d) + d = j
        BY <1>0, <1>n, <2>2, <2>3, <3>2
      <4>2. up'[j - d] = up[(j - d) + d]
        BY <4>1 DEF Moved
      <4> QED
        BY <2>1, <4>1, <4>2
    <3> QED
      BY <1>0, <1>n, <2>3, <3>1, <3>2
  <2>4. Taken(n + d)
    BY <2>1, <2>2, <2>3 DEF Taken
  <2> QED
    BY <2>2, <2>4
<1>5. ASSUME NEW n \in DOMAIN down'
      PROVE  /\ Ack(n)' => n + e \in DOMAIN down /\ Ack(n + e)
             /\ Accept(n)' => n + e \in DOMAIN down /\ Accept(n + e)
  <2>1. Ack(n)' \/ Accept(n)' => down'[n] \notin MuteDown
    BY DEF Ack, Accept, MuteDown
  <2> QED
    BY <1>2, <2>1 DEF Ack, Accept
<1>i. Accepted /\ Fresh /\ Owed /\ OwedOnce
  BY DEF PahoInv, OnTheWay
<1>6. Accepted'
  <2>1. \A n \in DOMAIN down' : Ack(n)' \/ Accept(n)' => known'
    BY <1>5, <1>i DEF Accepted
  <2>2. ASSUME NEW j \in DOMAIN up', NEW n \in DOMAIN up', j < n, up'[j].type = "CONNECT",
               Owing(up'[n])
        PROVE  known'
    <3>1. n + d \in DOMAIN up /\ up'[n] = up[n + d]
      BY <1>3, <2>2
    <3>2. j \in 1 .. Len(up) - d
      BY <1>0, <1>n, <2>2, <3>1
    <3>3. up[j + d] = up'[j] /\ j + d \in DOMAIN up /\ j + d < n + d
      <4>1. j <= Len(up) - d /\ j + d < n + d
        BY <1>0, <1>n, <2>2, <3>2
      <4>2. up'[j] = up[j + d] /\ j + d \in DOMAIN up
        BY <1>0, <4>1, CameFrom, j \in DOMAIN up'
      <4> QED
        BY <4>1, <4>2
    <3> QED
      BY <1>i, <2>2, <3>1, <3>3 DEF Accepted
  <2>3. ASSUME NEW n \in DOMAIN up', isconnected', up'[n].type = "CONNECT" PROVE known'
    <3>1. up'[n] \notin MuteOrFirst
      BY <2>3 DEF MuteOrFirst
    <3> QED
      BY <1>1, <1>i, <2>3, <3>1 DEF Accepted
  <2> QED
    BY <2>1, <2>2, <2>3 DEF Accepted, Owing
<1>7. Fresh'
  <2> SUFFICES ASSUME NEW n \in DOMAIN down', Accept(n)'
               PROVE  /\ ~isconnected'
                      /\ \A j \in DOMAIN down' : ~Ack(j)' /\ (Accept(j)' => j = n)
                      /\ \A j \in DOMAIN up' : ~Taken(j)'
    BY DEF Fresh
  <2>1. n + e \in DOMAIN down /\ Accept(n + e)
    BY <1>5
  <2>2. ~isconnected /\ (\A j \in DOMAIN down : ~Ack(j) /\ (Accept(j) => j = n + e))
        /\ \A j \in DOMAIN up : ~Taken(j)
    BY <1>i, <2>1 DEF Fresh
  <2>3. \A j \in DOMAIN down' : Accept(j)' => j = n
    <3> SUFFICES ASSUME NEW j \in DOMAIN down', Accept(j)' PROVE j = n
      OBVIOUS
    <3>1. j + e = n + e
      BY <1>5, <2>2
    <3> QED
      BY <1>0, <1>n, <3>1
  <2> QED
    BY <1>4, <1>5, <2>2, <2>3
<1>8. Owed'
  <2> SUFFICES ASSUME isconnected'
               PROVE  /\ \A n \in DOMAIN up' : Taken(n)' =>
                            command'.name = "publish" /\ up'[n].what = command'.what
                      /\ \A n \in DOMAIN down' : Ack(n)' =>
                            command'.name = "publish" /\ command'.what \in arrived'
    BY DEF Owed
  <2> QED
    BY <1>4, <1>5, <1>i DEF Owed
<1>9. OwedOnce'
  <2> SUFFICES ASSUME isconnected'
               PROVE  /\ \A j, n \in DOMAIN up' : Taken(j)' /\ Taken(n)' => j = n
                      /\ \A j, n \in DOMAIN down' : Ack(j)' /\ Ack(n)' => j = n
                      /\ \A j \in DOMAIN up', n \in DOMAIN down' : ~(Taken(j)' /\ Ack(n)')
    BY DEF OwedOnce
  <2>1. ASSUME NEW j \in DOMAIN up', NEW n \in DOMAIN up', Taken(j)', Taken(n)' PROVE j = n
    <3>1. j + d = n + d
      BY <1>4, <1>i, <2>1 DEF OwedOnce
    <3> QED
      BY <1>0, <1>n, <3>1
  <2>2. ASSUME NEW j \in DOMAIN down', NEW n \in DOMAIN down', Ack(j)', Ack(n)' PROVE j = n
    <3>1. j + e = n + e
      BY <1>5, <1>i, <2>2 DEF OwedOnce
    <3> QED
      BY <1>0, <1>n, <3>1
  <2>3. ASSUME NEW j \in DOMAIN up', NEW n \in DOMAIN down', Taken(j)', Ack(n)' PROVE FALSE
    BY <1>4, <1>5, <1>i, <2>3 DEF OwedOnce
  <2> QED
    BY <2>1, <2>2, <2>3
<1> QED
  BY <1>6, <1>7, <1>8, <1>9 DEF OnTheWay

(* Steps after which nothing more is owed than before. *)
LEMMA QuietStep ==
    ASSUME PahoInv, Calls', UNCHANGED <<known, reported>>, arrived \subseteq arrived',
           packetid' \in Nat, commands' \in Nat, incoming' \in Nat, topicsOf' \subseteq Nat \cup Topics,
           isconnected' => isconnected,
           isconnected' /\ command.name = "publish" => command' = command,
           NEW d, NEW e, up' \in Seq(Packets), down' \in Seq(Packets),
           Moved(up, up', d, MuteOrFirst), d = 1 => up[1].type # "CONNECT",
           Moved(down, down', e, MuteDown)
    PROVE  PahoInv'
<1>1. PahoTypes'
  BY DEF PahoTypes
<1>2. OnTheWay'
  BY ONLY <1>1, Quiet, PahoInv, UNCHANGED <<known, reported>>,
          arrived \subseteq arrived',
          isconnected' => isconnected,
          isconnected' /\ command.name = "publish" => command' = command,
          Moved(up, up', d, MuteOrFirst), d = 1 => up[1].type # "CONNECT",
          Moved(down, down', e, MuteDown)
<1> QED
  BY <1>1, <1>2 DEF PahoInv

LEMMA PacketsAre ==
    ASSUME NEW n \in Nat, NEW w \in Nat \cup Topics
    PROVE  /\ \A y \in {"SUBSCRIBE", "UNSUBSCRIBE", "PINGREQ", "PUBACK", "DISCONNECT"} :
                 Paho!Packet(y, n, w) \in MuteOrFirst
           /\ ~isconnected' => Paho!Packet("CONNECT", n, w) \in MuteOrFirst
           /\ n = 0 => Paho!Packet("PUBLISH", n, w) \in MuteOrFirst
           /\ \A y \in {"PUBLISH", "PUBACK", "CONNACK"} : Paho!Packet(y, n, w) \in Packets
           /\ \A y \in {"SUBACK", "UNSUBACK", "PINGRESP", "PUBLISH"} :
                 Paho!Packet(y, n, w) \in MuteDown
           /\ Paho!Packet("CONNACK", n, 5) \in MuteDown
           /\ MuteDown \subseteq Packets /\ MuteOrFirst \subseteq Packets
  BY DEF MuteOrFirst, MuteDown, Packets, Owing, Paho!Packet

LEMMA PingSent ==
    ASSUME PahoTypes, NEW sent \in Seq(MuteOrFirst), Paho!keepalive(sent)
    PROVE  up' \in Seq(Packets) /\ Moved(up, up', 0, MuteOrFirst)
<1>1. /\ Paho!Packet("PINGREQ", 0, 0) \in MuteOrFirst /\ MuteOrFirst \subseteq Packets
  BY PacketsAre
<1>2. Append(sent, Paho!Packet("PINGREQ", 0, 0)) \in Seq(MuteOrFirst)
  BY <1>1
<1>3. up' = up \o sent \/ up' = up \o Append(sent, Paho!Packet("PINGREQ", 0, 0))
  BY DEF Paho!keepalive
<1>4. up \in Seq(Packets)
  BY DEF PahoTypes
<1> QED
  BY ONLY <1>1, <1>2, <1>3, <1>4, SomeCome, sent \in Seq(MuteOrFirst)

(* When nothing is owed and no CONNACK is left, the rest follows.          *)
LEMMA NothingOwed ==
    ASSUME \A n \in DOMAIN down' : ~Ack(n)' /\ ~Accept(n)',
           \A n \in DOMAIN up' : ~Taken(n)',
           known' \/ \A n \in DOMAIN up' : up'[n].type # "CONNECT"
    PROVE  OnTheWay'
  BY DEF OnTheWay, Accepted, Fresh, Owed, OwedOnce

-----------------------------------------------------------------------------
(* The calls *)

LEMMA ConnectKeeps == ASSUME PahoInv, Paho!Connect PROVE PahoInv'
<1>1. /\ command = Paho!Idle /\ ~isconnected /\ commands' = commands + 1 /\ packetid' = packetid
      /\ UNCHANGED <<known, arrived, topicsOf, down, incoming, reported>>
      /\ PahoTypes /\ isconnected' = isconnected
  BY DEF Paho!Connect, Paho!Ready, Paho!Counted, Paho!Send, Paho!NotSent,
     Paho!Failed,
         Paho!broker, PahoInv
<1>2. \/ /\ up' = Append(up, Paho!Packet("CONNECT", 0, 0))
         /\ command' = [name |-> "connect", want |-> "CONNACK", what |-> 0]
      \/ up' = up /\ command' = command
  BY DEF Paho!Connect, Paho!Send, Paho!NotSent
<1>3. /\ packetid' \in Nat /\ commands' \in Nat /\ incoming' \in Nat /\ topicsOf' \subseteq Nat \cup Topics
      /\ up \in Seq(Packets) /\ down \in Seq(Packets)
  BY <1>1 DEF PahoTypes
<1>4. Calls'
  BY <1>1, <1>2 DEF Calls, Paho!Idle
<1>5. Moved(down, down', 0, MuteDown) /\ down' \in Seq(Packets)
  BY <1>1, <1>3, Stays
<1>6. Moved(up, up', 0, MuteOrFirst) /\ up' \in Seq(Packets)
  <2>1. Paho!Packet("CONNECT", 0, 0) \in MuteOrFirst /\ MuteOrFirst \subseteq Packets
    BY <1>1, PacketsAre
  <2> QED
    BY ONLY <1>2, <1>3, <2>1, Stays, OneComes
<1>7. command.name # "publish"
  BY <1>1 DEF Paho!Idle
<1> QED
  BY <1>1, <1>3, <1>4, <1>5, <1>6, <1>7, QuietStep

LEMMA PublishKeeps == ASSUME PahoInv, NEW qos \in {0, 1}, Paho!Publish(qos) PROVE PahoInv'
<1>1. /\ command = Paho!Idle /\ isconnected /\ commands' = commands + 1
      /\ packetid' = IF qos = 1 THEN packetid + 1 ELSE packetid
      /\ UNCHANGED <<known, arrived, topicsOf, down, incoming, reported>> /\ PahoTypes
  BY DEF Paho!Publish, Paho!Ready, Paho!Counted, Paho!Send, Paho!NotSent,
     Paho!TooLong,
         Paho!broker, Paho!NextId, PahoInv
<1>2. \/ /\ up' = Append(up, Paho!Packet("PUBLISH", IF qos = 1 THEN packetid + 1 ELSE 0, commands'))
         /\ command' = IF qos = 1
                       THEN [name |-> "publish", want |-> "PUBACK", what |-> commands']
                       ELSE Paho!Idle
         /\ isconnected' = isconnected
      \/ up' = up /\ command' = command
  BY DEF Paho!Publish, Paho!Send, Paho!NotSent, Paho!TooLong, Paho!NextId
<1>3. /\ packetid' \in Nat /\ commands' \in Nat /\ incoming' \in Nat /\ topicsOf' \subseteq Nat \cup Topics
      /\ packetid + 1 \in Nat /\ packetid + 1 # 0
      /\ up \in Seq(Packets) /\ down \in Seq(Packets)
  BY <1>1 DEF PahoTypes
<1>c. command.name = "none"
  BY <1>1 DEF Paho!Idle
<1>4. CASE up' = up /\ command' = command
  <2>1. Calls'
    BY <1>4, <1>c DEF Calls
  <2>2. Moved(down, down', 0, MuteDown) /\ Moved(up, up', 0, MuteOrFirst)
    BY <1>1, <1>3, <1>4, Stays
  <2> QED
    BY <1>1, <1>3, <1>4, <1>c, <2>1, <2>2, QuietStep
<1>5. CASE /\ up' = Append(up, Paho!Packet("PUBLISH", IF qos = 1 THEN packetid + 1 ELSE 0, commands'))
           /\ command' = IF qos = 1
                         THEN [name |-> "publish", want |-> "PUBACK", what |-> commands']
                         ELSE Paho!Idle
           /\ isconnected' = isconnected
  <2>1. CASE qos = 0
    <3>1. up' = Append(up, Paho!Packet("PUBLISH", 0, commands')) /\ command' = Paho!Idle
      BY <1>5, <2>1
    <3>2. Calls'
      BY <3>1 DEF Calls, Paho!Idle
    <3>3. Paho!Packet("PUBLISH", 0, commands') \in MuteOrFirst /\ MuteOrFirst \subseteq Packets
      BY <1>3, PacketsAre
    <3>4. Moved(up, up', 0, MuteOrFirst) /\ up' \in Seq(Packets)
      BY ONLY <1>3, <3>1, <3>3, OneComes
    <3>5. Moved(down, down', 0, MuteDown)
      BY <1>1, <1>3, Stays
    <3> QED
      BY <1>1, <1>3, <1>5, <1>c, <3>2, <3>4, <3>5, QuietStep
  <2>2. CASE qos = 1
    <3> DEFINE p == Paho!Packet("PUBLISH", packetid + 1, commands')
    <3>1. /\ up' = Append(up, p) /\ isconnected'
          /\ command' = [name |-> "publish", want |-> "PUBACK", what |-> commands']
      BY <1>1, <1>5, <2>2
    <3>2. p \in Packets /\ p.type = "PUBLISH" /\ p.what = commands' /\ Owing(p)
      BY <1>3, PacketsAre DEF Paho!Packet, Owing
    <3> HIDE DEF p
    <3>3. /\ up' \in Seq(Packets) /\ DOMAIN up' = 1 .. Len(up) + 1 /\ DOMAIN up = 1 .. Len(up)
          /\ Len(up) \in Nat /\ up'[Len(up) + 1] = p /\ \A n \in 1 .. Len(up) : up'[n] = up[n]
      BY <1>3, <3>1, <3>2
    <3>4. PahoTypes'
      BY <1>1, <1>3, <3>3 DEF PahoTypes
    <3>5. Calls'
      BY <3>1 DEF Calls
    <3>6. /\ \A n \in DOMAIN up : ~Taken(n)
          /\ \A n \in DOMAIN down : ~Ack(n) /\ ~Accept(n)
      BY <1>1, <1>c DEF PahoInv, OnTheWay, Owed, Fresh
    <3>7. ASSUME NEW n \in 1 .. Len(up) PROVE ~Taken(n)'
      <4>1. Taken(n)' => Taken(n)
        BY <1>1, <3>3 DEF Taken, Owing
      <4> QED
        BY <3>3, <3>6, <4>1
    <3>8. \A n \in DOMAIN up' : Taken(n)' => n = Len(up) + 1
      BY <3>3, <3>7
    <3>9. \A n \in DOMAIN down' : ~Ack(n)' /\ ~Accept(n)'
      BY <1>1, <3>6 DEF Ack, Accept
    <3>10. Accepted'
      <4>1. ASSUME NEW j \in DOMAIN up', up'[j].type = "CONNECT" PROVE known'
        <5>1. j \in DOMAIN up /\ up[j].type = "CONNECT"
          BY <3>2, <3>3, <4>1
        <5> QED
          BY <1>1, <5>1 DEF PahoInv, OnTheWay, Accepted
      <4> QED
        BY <3>9, <4>1 DEF Accepted
    <3>11. Owed' /\ OwedOnce' /\ Fresh'
      BY <3>1, <3>2, <3>3, <3>8, <3>9 DEF Owed, OwedOnce, Fresh
    <3> QED
      BY <1>1, <3>4, <3>5, <3>10, <3>11 DEF PahoInv, OnTheWay
  <2> QED
    BY <2>1, <2>2
<1> QED
  BY <1>2, <1>4, <1>5

LEMMA AskKeeps ==
    ASSUME PahoInv, NEW y \in {"SUBSCRIBE", "UNSUBSCRIBE"}, NEW z \in {"subscribe", "unsubscribe"},
           NEW a \in {"SUBACK", "UNSUBACK"}, NEW t \in Topics, Paho!Ask(z, y, a, t)
    PROVE  PahoInv'
<1>1. /\ command = Paho!Idle /\ isconnected /\ commands' = commands + 1
      /\ packetid' = packetid + 1 /\ UNCHANGED <<known, arrived, topicsOf, down, incoming, reported>>
      /\ PahoTypes
  BY DEF Paho!Ask, Paho!Ready, Paho!Counted, Paho!Send, Paho!NotSent,
     Paho!broker,
         Paho!NextId, PahoInv
<1>2. \/ /\ up' = Append(up, Paho!Packet(y, packetid + 1, t)) /\ isconnected' = isconnected
         /\ command' = [name |-> z, want |-> a, what |-> t]
      \/ up' = up /\ command' = command
  BY DEF Paho!Ask, Paho!Send, Paho!NotSent, Paho!NextId
<1>3. /\ packetid' \in Nat /\ commands' \in Nat /\ incoming' \in Nat /\ topicsOf' \subseteq Nat \cup Topics
      /\ packetid + 1 \in Nat /\ up \in Seq(Packets) /\ down \in Seq(Packets)
  BY <1>1 DEF PahoTypes
<1>c. command.name = "none"
  BY <1>1 DEF Paho!Idle
<1>4. Calls'
  BY <1>2, <1>c DEF Calls
<1>5. Moved(down, down', 0, MuteDown) /\ down' \in Seq(Packets)
  BY <1>1, <1>3, Stays
<1>6. Moved(up, up', 0, MuteOrFirst) /\ up' \in Seq(Packets)
  <2>1. Paho!Packet(y, packetid + 1, t) \in MuteOrFirst /\ MuteOrFirst \subseteq Packets
    BY <1>3, PacketsAre
  <2> QED
    BY ONLY <1>2, <1>3, <2>1, Stays, OneComes
<1> QED
  BY <1>1, <1>3, <1>4, <1>5, <1>6, <1>c, QuietStep

(* Calls that wait for nothing. *)
LEMMA OtherCallsKeep ==
    ASSUME PahoInv, Paho!Unconnected \/ Paho!Yield \/ Paho!Disconnect
    PROVE  PahoInv'
<1>1. /\ command = Paho!Idle /\ commands' = commands + 1 /\ (isconnected' => isconnected)
      /\ UNCHANGED <<packetid, known, arrived, topicsOf, down, incoming, reported>>
      /\ PahoTypes
  BY DEF Paho!Unconnected, Paho!Yield, Paho!Disconnect, Paho!Ready,
     Paho!Counted, Paho!cleanSession,
         Paho!broker, Paho!session, PahoInv
<1>2. command' \in {command, [name |-> "yield", want |-> "none", what |-> 0]}
  BY DEF Paho!Unconnected, Paho!Yield, Paho!Disconnect
<1>3. up' = up \/ up' = Append(up, Paho!Packet("DISCONNECT", 0, 0))
  BY DEF Paho!Unconnected, Paho!Yield, Paho!Disconnect
<1>4. /\ packetid' \in Nat /\ commands' \in Nat /\ incoming' \in Nat /\ topicsOf' \subseteq Nat \cup Topics
      /\ up \in Seq(Packets) /\ down \in Seq(Packets)
  BY <1>1 DEF PahoTypes
<1>c. command.name = "none"
  BY <1>1 DEF Paho!Idle
<1>5. Calls'
  BY <1>2, <1>c DEF Calls
<1>6. Moved(down, down', 0, MuteDown) /\ down' \in Seq(Packets)
  BY <1>1, <1>4, Stays
<1>7. Moved(up, up', 0, MuteOrFirst) /\ up' \in Seq(Packets)
  <2>1. Paho!Packet("DISCONNECT", 0, 0) \in MuteOrFirst /\ MuteOrFirst \subseteq Packets
    BY PacketsAre
  <2> QED
    BY ONLY <1>3, <1>4, <2>1, Stays, OneComes
<1> QED
  BY <1>1, <1>4, <1>5, <1>6, <1>7, <1>c, QuietStep

LEMMA ExpiredKeeps == ASSUME PahoInv, Paho!Expired PROVE PahoInv'
<1>1. /\ command' = Paho!Idle
      /\ UNCHANGED <<packetid, commands, up, known, arrived, topicsOf, down, incoming, reported>>
      /\ isconnected' = isconnected \/ isconnected' = FALSE
      /\ command.name = "publish" => isconnected' = FALSE
  BY DEF Paho!Expired, Paho!Failed, Paho!cleanSession, Paho!broker
<1>2. /\ PahoTypes /\ packetid' \in Nat /\ commands' \in Nat /\ incoming' \in Nat
      /\ topicsOf' \subseteq Nat \cup Topics /\ up \in Seq(Packets) /\ down \in Seq(Packets)
  BY <1>1 DEF PahoInv, PahoTypes
<1>3. Calls'
  BY <1>1 DEF Calls, Paho!Idle
<1>4. Moved(down, down', 0, MuteDown) /\ Moved(up, up', 0, MuteOrFirst)
  BY <1>1, <1>2, Stays
<1> QED
  BY <1>1, <1>2, <1>3, <1>4, QuietStep

-----------------------------------------------------------------------------
(* The client reads a packet. *)

LEMMA EmptyMute == <<>> \in Seq(MuteOrFirst)
  OBVIOUS

LEMMA CycleKeeps == ASSUME PahoInv, Paho!Cycle PROVE PahoInv'
<1>1. /\ UNCHANGED <<isconnected, packetid, command, known, arrived, topicsOf, commands,
                     incoming, reported>>
      /\ down # <<>> /\ down' = Tail(down)
  BY DEF Paho!Cycle, Paho!broker
<1>2. /\ PahoTypes /\ Calls /\ packetid' \in Nat /\ commands' \in Nat /\ incoming' \in Nat
      /\ topicsOf' \subseteq Nat \cup Topics /\ up \in Seq(Packets) /\ down \in Seq(Packets)
  BY <1>1 DEF PahoInv, PahoTypes
<1>3. Calls'
  BY <1>1, <1>2 DEF Calls
<1>4. Moved(down, down', 1, MuteDown) /\ down' \in Seq(Packets) /\ Head(down) \in Packets
  BY <1>1, <1>2, OneGoes
<1>5. Moved(up, up', 0, MuteOrFirst) /\ up' \in Seq(Packets)
  <2>1. CASE up' = up
    BY <1>2, <2>1, Stays
  <2>2. CASE Paho!keepalive(<<Paho!Packet("PUBACK", Head(down).id, 0)>>)
    <3>1. Head(down).id \in Nat
      BY <1>4 DEF Packets
    <3>2. Paho!Packet("PUBACK", Head(down).id, 0) \in MuteOrFirst
      BY <3>1, PacketsAre
    <3>3. <<Paho!Packet("PUBACK", Head(down).id, 0)>> \in Seq(MuteOrFirst)
      BY <3>2
    <3> QED
      BY ONLY <1>2, <2>2, <3>3, PingSent
  <2>3. CASE Paho!keepalive(<<>>)
    BY ONLY <1>2, <2>3, EmptyMute, PingSent
  <2> QED
    BY <2>1, <2>2, <2>3, Zenon DEF Paho!Cycle
<1> QED
  BY <1>1, <1>2, <1>3, <1>4, <1>5, QuietStep

LEMMA CycleOfNothingKeeps == ASSUME PahoInv, Paho!CycleOfNothing PROVE PahoInv'
<1>1. /\ UNCHANGED <<isconnected, packetid, command, known, arrived, topicsOf, commands,
                     incoming, reported, down>>
      /\ up' = Append(up, Paho!Packet("PINGREQ", 0, 0))
  BY DEF Paho!CycleOfNothing, Paho!broker
<1>2. /\ PahoTypes /\ Calls /\ packetid' \in Nat /\ commands' \in Nat /\ incoming' \in Nat
      /\ topicsOf' \subseteq Nat \cup Topics /\ up \in Seq(Packets) /\ down \in Seq(Packets)
  BY <1>1 DEF PahoInv, PahoTypes
<1>3. Calls'
  BY <1>1, <1>2 DEF Calls
<1>4. Moved(down, down', 0, MuteDown)
  BY <1>1, <1>2, Stays
<1>5. Paho!Packet("PINGREQ", 0, 0) \in MuteOrFirst /\ MuteOrFirst \subseteq Packets
  BY PacketsAre
<1>6. Moved(up, up', 0, MuteOrFirst) /\ up' \in Seq(Packets)
  BY ONLY <1>1, <1>2, <1>5, OneComes
<1> QED
  BY <1>1, <1>2, <1>3, <1>4, <1>6, QuietStep

(* What the answers have in common. *)
LEMMA AnswerRight ==
    ASSUME PahoInv, Paho!Answered
    PROVE  /\ UNCHANGED <<packetid, known, arrived, topicsOf, commands, incoming>>
           /\ down # <<>> /\ down' = Tail(down) /\ command' = Paho!Idle
           /\ PahoTypes /\ packetid' \in Nat /\ commands' \in Nat /\ incoming' \in Nat
           /\ topicsOf' \subseteq Nat \cup Topics /\ up \in Seq(Packets) /\ down \in Seq(Packets)
           /\ Calls' /\ Moved(down, down', 1, MuteDown) /\ down' \in Seq(Packets)
           /\ Head(down) = down[1] /\ down[1] \in Packets /\ 1 \in DOMAIN down
           /\ Head(down).type = command.want
<1>1. /\ UNCHANGED <<packetid, known, arrived, topicsOf, commands, incoming>>
      /\ down # <<>> /\ down' = Tail(down) /\ command' = Paho!Idle
      /\ Head(down).type = command.want
  BY DEF Paho!Answered, Paho!broker
<1>2. /\ PahoTypes /\ packetid' \in Nat /\ commands' \in Nat /\ incoming' \in Nat
      /\ topicsOf' \subseteq Nat \cup Topics /\ up \in Seq(Packets) /\ down \in Seq(Packets)
  BY <1>1 DEF PahoInv, PahoTypes
<1>3. Calls'
  BY <1>1 DEF Calls, Paho!Idle
<1>4. /\ Moved(down, down', 1, MuteDown) /\ down' \in Seq(Packets)
      /\ Head(down) = down[1] /\ down[1] \in Packets /\ 1 \in DOMAIN down
  BY <1>1, <1>2, OneGoes
<1> QED
  BY <1>1, <1>2, <1>3, <1>4

(* An answer that is owed to no message of publish(). *)
LEMMA OtherAnswersKeep ==
    ASSUME PahoInv, Paho!Answered, isconnected' => isconnected, command.name # "publish",
           reported' = reported, up' \in Seq(Packets), Moved(up, up', 0, MuteOrFirst)
    PROVE  PahoInv'
  BY AnswerRight, QuietStep

(* A packet that will be taken is one of those that would have been.       *)
LEMMA TakenBefore ==
    ASSUME up \in Seq(Packets), up' \in Seq(Packets), Moved(up, up', 0, MuteOrFirst),
           known' = known, NEW n \in DOMAIN up', Taken(n)'
    PROVE  n \in DOMAIN up /\ Taken(n)
<1>1. up'[n] \notin MuteOrFirst
  BY DEF Taken, MuteOrFirst, Owing
<1>2. n + 0 \in DOMAIN up /\ up'[n] = up[n + 0]
  BY <1>1, CameFrom
<1>3. /\ DOMAIN up = 1 .. Len(up) /\ Len(up) \in Nat
      /\ DOMAIN up' = 1 .. Len(up') /\ Len(up') \in Nat
  OBVIOUS
<1>4. n \in DOMAIN up /\ up'[n] = up[n]
  BY <1>2, <1>3
<1>5. ASSUME NEW j \in 1 .. n - 1 PROVE up[j].type # "CONNECT"
  <2>1. j \in DOMAIN up' /\ j <= Len(up) - 0 /\ j + 0 = j
    BY <1>3, <1>4, <1>5
  <2>2. up'[j] = up[j + 0]
    BY <2>1, <1>3 DEF Moved
  <2>3. up'[j].type # "CONNECT"
    BY <1>5 DEF Taken
  <2> QED
    BY <2>1, <2>2, <2>3
<1>6. Taken(n)
  BY <1>4, <1>5 DEF Taken, Owing
<1> QED
  BY <1>4, <1>6

LEMMA ConnectAnsweredKeeps == ASSUME PahoInv, Paho!ConnectAnswered PROVE PahoInv'
<1>1. /\ Paho!Answered /\ command.name = "connect" /\ isconnected' = (Head(down).what = 0)
      /\ Paho!keepalive(<<>>) /\ reported' = reported /\ PahoTypes
  BY DEF Paho!ConnectAnswered, PahoInv
<1>2. up' \in Seq(Packets) /\ Moved(up, up', 0, MuteOrFirst)
  BY ONLY <1>1, EmptyMute, PingSent
<1>3. CASE Head(down).what # 0
  <2>1. ~isconnected' /\ command.name # "publish"
    BY <1>1, <1>3
  <2> QED
    BY ONLY <1>1, <1>2, <2>1, OtherAnswersKeep, PahoInv
<1>4. CASE Head(down).what = 0
  <2>1. /\ UNCHANGED <<packetid, known, arrived, topicsOf, commands, incoming>>
        /\ down' = Tail(down) /\ packetid' \in Nat /\ commands' \in Nat /\ incoming' \in Nat
        /\ topicsOf' \subseteq Nat \cup Topics /\ up \in Seq(Packets) /\ down \in Seq(Packets)
        /\ Calls' /\ Moved(down, down', 1, MuteDown) /\ down' \in Seq(Packets)
        /\ Head(down) = down[1] /\ down[1] \in Packets /\ 1 \in DOMAIN down
        /\ Head(down).type = command.want
    BY <1>1, AnswerRight
  <2>2. Accept(1)
    BY <1>1, <1>4, <2>1 DEF Accept, PahoInv, Calls
  <2>3. /\ known /\ \A j \in DOMAIN down : ~Ack(j) /\ (Accept(j) => j = 1)
        /\ \A j \in DOMAIN up : ~Taken(j)
    BY <2>1, <2>2 DEF PahoInv, OnTheWay, Accepted, Fresh
  <2>4. PahoTypes'
    BY <1>2, <2>1 DEF PahoTypes
  <2>5. \A n \in DOMAIN down' : ~Ack(n)' /\ ~Accept(n)'
    <3> SUFFICES ASSUME NEW n \in DOMAIN down' PROVE ~Ack(n)' /\ ~Accept(n)'
      OBVIOUS
    <3>1. down'[n] \in MuteDown \/ (n + 1 \in DOMAIN down /\ down'[n] = down[n + 1])
      BY <2>1, CameFrom
    <3>2. CASE down'[n] \in MuteDown
      BY <3>2 DEF MuteDown, Ack, Accept
    <3>3. CASE n + 1 \in DOMAIN down /\ down'[n] = down[n + 1]
      <4>1. n + 1 # 1
        BY <2>1
      <4>2. ~Ack(n + 1) /\ ~Accept(n + 1)
        BY <2>3, <3>3, <4>1
      <4> QED
        BY <3>3, <4>2 DEF Ack, Accept
    <3> QED
      BY <3>1, <3>2, <3>3
  <2>6. \A n \in DOMAIN up' : ~Taken(n)'
    BY <1>2, <2>1, <2>3, TakenBefore
  <2>7. known'
    BY <2>1, <2>3
  <2>8. OnTheWay'
    BY ONLY <2>5, <2>6, <2>7, NothingOwed
  <2> QED
    BY <1>1, <2>1, <2>4, <2>8 DEF PahoInv
<1> QED
  BY <1>3, <1>4

LEMMA PublishAnsweredKeeps == ASSUME PahoInv, Paho!PublishAnswered PROVE PahoInv'
<1>1. /\ Paho!Answered /\ command.name = "publish" /\ isconnected' = isconnected
      /\ Paho!keepalive(<<>>) /\ reported' = reported \cup {command.what} /\ PahoTypes
  BY DEF Paho!PublishAnswered, PahoInv
<1>2. up' \in Seq(Packets) /\ Moved(up, up', 0, MuteOrFirst)
  BY ONLY <1>1, EmptyMute, PingSent
<1>3. /\ UNCHANGED <<packetid, known, arrived, topicsOf, commands, incoming>>
      /\ down' = Tail(down) /\ packetid' \in Nat /\ commands' \in Nat /\ incoming' \in Nat
      /\ topicsOf' \subseteq Nat \cup Topics /\ up \in Seq(Packets) /\ down \in Seq(Packets)
      /\ Calls' /\ Moved(down, down', 1, MuteDown) /\ down' \in Seq(Packets)
      /\ Head(down) = down[1] /\ down[1] \in Packets /\ 1 \in DOMAIN down
      /\ Head(down).type = command.want
  BY <1>1, AnswerRight
<1>4. Ack(1) /\ isconnected
  BY <1>1, <1>3 DEF Ack, PahoInv, Calls
<1>5. /\ command.what \in arrived /\ \A j \in DOMAIN down : Ack(j) => j = 1
      /\ \A j \in DOMAIN up : ~Taken(j)
      /\ \A j \in DOMAIN down : ~Accept(j)
      /\ known
  BY <1>1, <1>3, <1>4 DEF PahoInv, OnTheWay, Accepted, Owed, OwedOnce, Fresh
<1>6. PahoTypes'
  BY <1>2, <1>3 DEF PahoTypes
<1>7. \A n \in DOMAIN down' : ~Ack(n)' /\ ~Accept(n)'
  <2> SUFFICES ASSUME NEW n \in DOMAIN down' PROVE ~Ack(n)' /\ ~Accept(n)'
    OBVIOUS
  <2>1. down'[n] \in MuteDown \/ (n + 1 \in DOMAIN down /\ down'[n] = down[n + 1])
    BY <1>3, CameFrom
  <2>2. CASE down'[n] \in MuteDown
    BY <2>2 DEF MuteDown, Ack, Accept
  <2>3. CASE n + 1 \in DOMAIN down /\ down'[n] = down[n + 1]
    <3>1. n + 1 # 1
      BY <1>3
    <3>2. ~Ack(n + 1) /\ ~Accept(n + 1)
      BY <1>5, <2>3, <3>1
    <3> QED
      BY <2>3, <3>2 DEF Ack, Accept
  <2> QED
    BY <2>1, <2>2, <2>3
<1>8. \A n \in DOMAIN up' : ~Taken(n)'
  BY <1>2, <1>3, <1>5, TakenBefore
<1>9. OnTheWay'
  <2>1. known'
    BY <1>3, <1>5
  <2> QED
    BY ONLY <1>7, <1>8, <2>1, NothingOwed
<1>10. reported' \subseteq arrived'
  BY <1>1, <1>3, <1>5 DEF PahoInv
<1> QED
  BY <1>3, <1>6, <1>9, <1>10 DEF PahoInv

LEMMA SubscribeAnsweredKeeps == ASSUME PahoInv, Paho!SubscribeAnswered PROVE PahoInv'
<1>1. /\ Paho!Answered /\ command.name = "subscribe" /\ reported' = reported /\ PahoTypes
      /\ up \in Seq(Packets)
  BY DEF Paho!SubscribeAnswered, PahoInv, PahoTypes
<1>2. isconnected' = isconnected \/ isconnected' = FALSE
  BY DEF Paho!SubscribeAnswered
<1>3. \/ Paho!keepalive(<<>>)
      \/ \E sent \in {<<>>, <<Paho!Packet("PINGREQ", 0, 0)>>} : up' = up \o sent
  BY Zenon DEF Paho!SubscribeAnswered
<1>4. up' \in Seq(Packets) /\ Moved(up, up', 0, MuteOrFirst)
  <2>1. CASE Paho!keepalive(<<>>)
    BY ONLY <1>1, <2>1, EmptyMute, PingSent
  <2>2. ASSUME NEW sent \in {<<>>, <<Paho!Packet("PINGREQ", 0, 0)>>}, up' = up \o sent
        PROVE  up' \in Seq(Packets) /\ Moved(up, up', 0, MuteOrFirst)
    <3>1. Paho!Packet("PINGREQ", 0, 0) \in MuteOrFirst /\ MuteOrFirst \subseteq Packets
      BY PacketsAre
    <3>2. sent \in Seq(MuteOrFirst)
      <4>1. <<Paho!Packet("PINGREQ", 0, 0)>> \in Seq(MuteOrFirst)
        BY <3>1
      <4> QED
        BY <4>1, EmptyMute
    <3> QED
      BY ONLY <1>1, <2>2, <3>1, <3>2, SomeCome
  <2> QED
    BY <1>3, <2>1, <2>2
<1> QED
  BY <1>1, <1>2, <1>4, OtherAnswersKeep

LEMMA UnsubscribeAnsweredKeeps == ASSUME PahoInv, Paho!UnsubscribeAnswered PROVE PahoInv'
<1>1. /\ Paho!Answered /\ command.name = "unsubscribe" /\ reported' = reported /\ PahoTypes
      /\ isconnected' = isconnected /\ Paho!keepalive(<<>>)
  BY Zenon DEF Paho!UnsubscribeAnswered, PahoInv
<1>2. up' \in Seq(Packets) /\ Moved(up, up', 0, MuteOrFirst)
  BY ONLY <1>1, EmptyMute, PingSent
<1> QED
  BY <1>1, <1>2, OtherAnswersKeep

-----------------------------------------------------------------------------
(* The server and the network *)

LEMMA Calm ==
    ASSUME PahoInv, UNCHANGED <<Paho!session, command, commands, incoming, reported>>
    PROVE  /\ Calls' /\ packetid' \in Nat /\ commands' \in Nat /\ incoming' \in Nat
           /\ isconnected' = isconnected /\ command' = command /\ reported' = reported
           /\ up \in Seq(Packets) /\ down \in Seq(Packets) /\ topicsOf \subseteq Nat \cup Topics
           /\ reported \subseteq arrived
  BY DEF Paho!session, PahoInv, PahoTypes, Calls

(* The server answers what owes no acknowledgement. *)
LEMMA ServeQuiet ==
    ASSUME PahoInv, UNCHANGED <<Paho!session, command, commands, incoming, reported>>,
           up # <<>>, up' = Tail(up), Head(up).type # "CONNECT", known' = known,
           arrived \subseteq arrived', topicsOf' \subseteq Nat \cup Topics,
           NEW y \in {"SUBACK", "UNSUBACK", "PINGRESP"}, NEW w \in Nat,
           down' = down \/ down' = Append(down, Paho!Packet(y, Head(up).id, w))
    PROVE  PahoInv'
<1>1. /\ Calls' /\ packetid' \in Nat /\ commands' \in Nat /\ incoming' \in Nat
      /\ isconnected' = isconnected /\ command' = command /\ reported' = reported
      /\ up \in Seq(Packets) /\ down \in Seq(Packets)
  BY Calm
<1>2. /\ up' \in Seq(Packets) /\ Moved(up, up', 1, MuteOrFirst) /\ Head(up) = up[1]
      /\ Head(up) \in Packets
  BY <1>1, OneGoes
<1>3. Paho!Packet(y, Head(up).id, w) \in MuteDown /\ MuteDown \subseteq Packets
  <2>1. Head(up).id \in Nat
    BY <1>2 DEF Packets
  <2> QED
    BY <2>1, PacketsAre
<1>4. down' \in Seq(Packets) /\ Moved(down, down', 0, MuteDown)
  BY ONLY <1>1, <1>3, Stays, OneComes,
          down' = down \/ down' = Append(down, Paho!Packet(y, Head(up).id, w))
<1> QED
  BY <1>1, <1>2, <1>4, QuietStep

(* It accepts a connection or refuses it. *)
LEMMA ServeConnect ==
    ASSUME PahoInv, UNCHANGED <<Paho!session, command, commands, incoming, reported, topicsOf, arrived>>,
           up # <<>>, up' = Tail(up), Head(up).type = "CONNECT", ~known,
           NEW refused \in {0, 5}, known' = (refused = 0),
           down' = Append(down, Paho!Packet("CONNACK", Head(up).id, refused))
    PROVE  PahoInv'
<1>1. /\ Calls' /\ packetid' \in Nat /\ commands' \in Nat /\ incoming' \in Nat
      /\ isconnected' = isconnected /\ command' = command /\ reported' = reported
      /\ up \in Seq(Packets) /\ down \in Seq(Packets) /\ topicsOf \subseteq Nat \cup Topics
      /\ reported \subseteq arrived
  BY Calm
<1>2. /\ up' \in Seq(Packets) /\ Moved(up, up', 1, {}) /\ Head(up) = up[1]
      /\ Head(up) \in Packets /\ 1 \in DOMAIN up
  BY <1>1, OneGoes
<1> DEFINE p == Paho!Packet("CONNACK", Head(up).id, refused)
<1>3. p \in Packets /\ p.type = "CONNACK" /\ p.what = refused
  <2>1. Head(up).id \in Nat
    BY <1>2 DEF Packets
  <2>2. refused \in Nat
    OBVIOUS
  <2> QED
    BY <2>1, <2>2, PacketsAre DEF Paho!Packet
<1> HIDE DEF p
<1>4. /\ down' \in Seq(Packets) /\ DOMAIN down' = 1 .. Len(down) + 1 /\ Len(down) \in Nat
      /\ DOMAIN down = 1 .. Len(down) /\ down'[Len(down) + 1] = p
      /\ \A n \in 1 .. Len(down) : down'[n] = down[n]
  <2>1. down' = Append(down, p)
    BY DEF p
  <2> QED
    BY <1>1, <1>3, <2>1
<1>5. PahoTypes'
  BY <1>1, <1>2, <1>4 DEF PahoTypes
<1>6. /\ ~isconnected /\ \A n \in DOMAIN down : ~Ack(n) /\ ~Accept(n)
      /\ \A n \in DOMAIN up : n > 1 => ~Owing(up[n])
  BY <1>2 DEF PahoInv, OnTheWay, Accepted
<1>7. ASSUME NEW n \in DOMAIN up' PROVE ~Owing(up'[n])
  <2>1. n + 1 \in DOMAIN up /\ up'[n] = up[n + 1]
    BY <1>1, <1>2, CameFrom
  <2>2. n + 1 > 1
    BY <1>2, <2>1
  <2> QED
    BY <1>6, <2>1, <2>2
<1>8. ASSUME NEW n \in DOMAIN down'
      PROVE  /\ ~Ack(n)'
             /\ Accept(n)' => n = Len(down) + 1 /\ known'
  <2>1. CASE n \in 1 .. Len(down)
    BY <1>4, <1>6, <2>1 DEF Ack, Accept
  <2>2. CASE n = Len(down) + 1
    BY <1>3, <1>4, <2>2 DEF Ack, Accept
  <2> QED
    BY <1>4, <2>1, <2>2
<1>9. Accepted'
  BY <1>1, <1>6, <1>7, <1>8 DEF Accepted, Owing
<1>10. \A n \in DOMAIN up' : ~Taken(n)'
  BY <1>7 DEF Taken, Owing
<1>11. Fresh' /\ Owed' /\ OwedOnce'
  BY <1>1, <1>6, <1>8, <1>10 DEF Fresh, Owed, OwedOnce
<1> QED
  BY <1>1, <1>5, <1>9, <1>11 DEF PahoInv, OnTheWay

(* It takes a message and acknowledges it. *)
LEMMA ServePublish ==
    ASSUME PahoInv, UNCHANGED <<Paho!session, command, commands, incoming, reported, topicsOf, known>>,
           up # <<>>, up' = Tail(up), Owing(Head(up)), known,
           arrived' = arrived \cup {Head(up).what},
           down' = Append(down, Paho!Packet("PUBACK", Head(up).id, 0))
    PROVE  PahoInv'
<1>1. /\ Calls' /\ packetid' \in Nat /\ commands' \in Nat /\ incoming' \in Nat
      /\ isconnected' = isconnected /\ command' = command /\ reported' = reported
      /\ up \in Seq(Packets) /\ down \in Seq(Packets) /\ topicsOf \subseteq Nat \cup Topics
      /\ reported \subseteq arrived
  BY Calm
<1>2. /\ up' \in Seq(Packets) /\ Moved(up, up', 1, {}) /\ Head(up) = up[1]
      /\ Head(up) \in Packets /\ 1 \in DOMAIN up
  BY <1>1, OneGoes
<1> DEFINE p == Paho!Packet("PUBACK", Head(up).id, 0)
<1>3. p \in Packets /\ p.type = "PUBACK"
  <2>1. Head(up).id \in Nat
    BY <1>2 DEF Packets
  <2> QED
    BY <2>1, PacketsAre DEF Paho!Packet
<1> HIDE DEF p
<1>4. /\ down' \in Seq(Packets) /\ DOMAIN down' = 1 .. Len(down) + 1 /\ Len(down) \in Nat
      /\ DOMAIN down = 1 .. Len(down) /\ down'[Len(down) + 1] = p
      /\ \A n \in 1 .. Len(down) : down'[n] = down[n]
  <2>1. down' = Append(down, p)
    BY DEF p
  <2> QED
    BY <1>1, <1>3, <2>1
<1>5. PahoTypes'
  BY <1>1, <1>2, <1>4 DEF PahoTypes
<1>6. Taken(1)
  BY <1>2 DEF Taken
<1>7. ASSUME NEW n \in DOMAIN up', Taken(n)' PROVE n + 1 \in DOMAIN up /\ Taken(n + 1)
  <2>1. n + 1 \in DOMAIN up /\ up'[n] = up[n + 1]
    BY <1>1, <1>2, CameFrom
  <2>n. /\ DOMAIN up = 1 .. Len(up) /\ Len(up) \in Nat
        /\ DOMAIN up' = 1 .. Len(up') /\ Len(up') \in Nat
    BY <1>1, <1>2
  <2>2. ASSUME NEW j \in 1 .. (n + 1) - 1 PROVE up[j].type # "CONNECT"
    <3>1. CASE j = 1
      BY <1>2, <3>1 DEF Owing
    <3>2. CASE j # 1
      <4>1. j - 1 \in DOMAIN up' /\ j - 1 <= Len(up) - 1 /\ (j - 1) + 1 = j /\ j - 1 \in 1 .. n - 1
        BY <2>1, <2>2, <2>n, <3>2
      <4>2. up'[j - 1] = up[(j - 1) + 1]
        BY <1>2, <2>n, <4>1 DEF Moved
      <4>3. up'[j - 1].type # "CONNECT"
        BY <1>7, <4>1 DEF Taken
      <4> QED
        BY <4>1, <4>2, <4>3
    <3> QED
      BY <3>1, <3>2
  <2>3. Taken(n + 1)
    BY <1>7, <2>1, <2>2 DEF Taken, Owing
  <2> QED
    BY <2>1, <2>3
<1>8. ASSUME isconnected
      PROVE  /\ command.name = "publish" /\ Head(up).what = command.what
             /\ \A n \in DOMAIN up' : ~Taken(n)'
             /\ \A n \in DOMAIN down : ~Ack(n)
  <2>1. command.name = "publish" /\ Head(up).what = command.what
    BY <1>2, <1>6, <1>8 DEF PahoInv, OnTheWay, Owed
  <2>2. \A n \in DOMAIN down : ~Ack(n)
    BY <1>2, <1>6, <1>8 DEF PahoInv, OnTheWay, OwedOnce
  <2>3. ASSUME NEW n \in DOMAIN up', Taken(n)' PROVE FALSE
    <3>1. n + 1 = 1
      BY <1>2, <1>6, <1>7, <1>8, <2>3 DEF PahoInv, OnTheWay, OwedOnce
    <3> QED
      BY <1>2, <3>1
  <2> QED
    BY <2>1, <2>2, <2>3
<1>9. ASSUME NEW n \in DOMAIN down'
      PROVE  /\ ~Accept(n)'
             /\ Ack(n)' => n = Len(down) + 1 \/ (n \in DOMAIN down /\ Ack(n))
  <2>1. \A j \in DOMAIN down : ~Accept(j)
    BY <1>2, <1>6 DEF PahoInv, OnTheWay, Fresh
  <2>2. CASE n \in 1 .. Len(down)
    BY <1>4, <2>1, <2>2 DEF Ack, Accept
  <2>3. CASE n = Len(down) + 1
    BY <1>3, <1>4, <2>3 DEF Ack, Accept
  <2> QED
    BY <1>4, <2>2, <2>3
<1>10. Accepted' /\ Fresh'
  BY <1>9 DEF Accepted, Fresh
<1>11. Owed' /\ OwedOnce'
  BY <1>1, <1>8, <1>9 DEF Owed, OwedOnce
<1>12. reported' \subseteq arrived'
  BY <1>1
<1> QED
  BY <1>1, <1>5, <1>10, <1>11, <1>12 DEF PahoInv, OnTheWay

LEMMA ServeKeeps == ASSUME PahoInv, Paho!Serve PROVE PahoInv'
<1>1. /\ up # <<>> /\ up' = Tail(up) /\ (Head(up).type = "CONNECT") = ~known
      /\ UNCHANGED <<Paho!session, command, commands, incoming, reported>>
  BY Zenon DEF Paho!Serve
<1>2. /\ up \in Seq(Packets) /\ topicsOf \subseteq Nat \cup Topics
  BY DEF PahoInv, PahoTypes
<1>3. Head(up) \in Packets
  BY <1>1, <1>2, OneGoes
<1> DEFINE p == Head(up)
           answer(type, w) == down' = Append(down, Paho!Packet(type, p.id, w))
<1>4. CASE p.type = "CONNECT"
  <2>1. /\ \E refused \in {0, 5} : answer("CONNACK", refused) /\ known' = (refused = 0)
        /\ UNCHANGED <<topicsOf, arrived>>
    BY <1>4 DEF Paho!Serve
  <2> QED
    BY <1>1, <1>4, <2>1, ServeConnect
<1>5. CASE p.type = "PUBLISH"
  <2>1. /\ arrived' = arrived \cup {p.what} /\ UNCHANGED <<known, topicsOf>>
        /\ IF p.id = 0 THEN UNCHANGED down ELSE answer("PUBACK", 0)
    BY <1>5 DEF Paho!Serve
  <2>2. CASE p.id = 0
    <3>1. /\ p.type # "CONNECT" /\ known' = known /\ arrived \subseteq arrived'
          /\ topicsOf' \subseteq Nat \cup Topics /\ down' = down
      BY <1>2, <1>5, <2>1, <2>2
    <3> QED
      BY ONLY <1>1, <3>1, ServeQuiet, PahoInv, "SUBACK" \in {"SUBACK",
              "UNSUBACK", "PINGRESP"},
              0 \in Nat
  <2>3. CASE p.id # 0
    <3>1. Owing(p) /\ known /\ answer("PUBACK", 0)
      BY <1>1, <1>5, <2>1, <2>3 DEF Owing
    <3> QED
      BY <1>1, <2>1, <3>1, ServePublish
  <2> QED
    BY <2>2, <2>3
<1>6. CASE p.type = "SUBSCRIBE"
  <2>1. PICK granted \in {0, 1, 128} :
            /\ answer("SUBACK", granted)
            /\ topicsOf' = IF granted = 128 THEN topicsOf ELSE topicsOf \cup {p.what}
    BY <1>6 DEF Paho!Serve
  <2>2. UNCHANGED <<known, arrived>> /\ p.type # "CONNECT"
    BY <1>6 DEF Paho!Serve
  <2>3. topicsOf' \subseteq Nat \cup Topics
    <3>1. p.what \in Nat \cup Topics
      BY <1>3 DEF Packets
    <3> QED
      BY <1>2, <2>1, <3>1
  <2> QED
    BY <1>1, <2>1, <2>2, <2>3, ServeQuiet
<1>7. CASE p.type = "UNSUBSCRIBE"
  <2>1. /\ topicsOf' \subseteq Nat \cup Topics /\ answer("UNSUBACK", 0) /\ UNCHANGED <<known, arrived>>
        /\ p.type # "CONNECT"
    BY <1>2, <1>7 DEF Paho!Serve
  <2> QED
    BY <1>1, <2>1, ServeQuiet
<1>8. CASE p.type = "PINGREQ"
  <2>1. /\ topicsOf' \subseteq Nat \cup Topics /\ answer("PINGRESP", 0) /\ UNCHANGED <<known, arrived>>
        /\ p.type # "CONNECT"
    BY <1>2, <1>8 DEF Paho!Serve, Paho!broker
  <2> QED
    BY <1>1, <2>1, ServeQuiet
<1>9. CASE p.type = "PUBACK"
  <2>1. /\ topicsOf' \subseteq Nat \cup Topics /\ down' = down /\ UNCHANGED <<known, arrived>>
        /\ p.type # "CONNECT" /\ arrived \subseteq arrived'
    BY <1>2, <1>9 DEF Paho!Serve, Paho!broker
  <2> QED
    BY ONLY <1>1, <2>1, ServeQuiet, PahoInv, "SUBACK" \in {"SUBACK",
            "UNSUBACK", "PINGRESP"},
            0 \in Nat
<1> QED
  BY <1>4, <1>5, <1>6, <1>7, <1>8, <1>9 DEF Paho!Serve

LEMMA SendMessageKeeps == ASSUME PahoInv, Paho!SendMessage PROVE PahoInv'
<1>1. /\ UNCHANGED <<Paho!session, command, commands, reported, known, topicsOf, arrived, up>>
      /\ incoming' = incoming + 1
  BY DEF Paho!SendMessage, Paho!broker
<1>2. PICK t \in topicsOf, j \in {0, incoming'} :
          down' = Append(down, Paho!Packet("PUBLISH", j, t))
  BY DEF Paho!SendMessage
<1>3. /\ up \in Seq(Packets) /\ down \in Seq(Packets) /\ topicsOf \subseteq Nat \cup Topics
      /\ packetid' \in Nat /\ commands' \in Nat /\ incoming' \in Nat
      /\ isconnected' = isconnected /\ command' = command
  BY <1>1 DEF PahoInv, PahoTypes, Paho!session
<1>4. Calls'
  BY <1>1, <1>3 DEF PahoInv, Calls
<1>5. Paho!Packet("PUBLISH", j, t) \in MuteDown /\ MuteDown \subseteq Packets
  BY <1>2, <1>3, PacketsAre
<1>6. down' \in Seq(Packets) /\ Moved(down, down', 0, MuteDown)
  BY ONLY <1>2, <1>3, <1>5, OneComes
<1>7. up' \in Seq(Packets) /\ Moved(up, up', 0, MuteOrFirst)
  BY <1>1, <1>3, Stays
<1> QED
  BY <1>1, <1>3, <1>4, <1>6, <1>7, QuietStep

(* What is on its way is lost. *)
LEMMA LostKeeps ==
    ASSUME PahoInv, up' = <<>>, down' = <<>>,
           UNCHANGED <<Paho!session, command, topicsOf, arrived, commands, incoming, reported>>
    PROVE  PahoInv'
<1>1. /\ up' \in Seq(Packets) /\ down' \in Seq(Packets)
      /\ DOMAIN up' = {} /\ DOMAIN down' = {}
  OBVIOUS
<1>2. PahoTypes' /\ Calls' /\ reported' \subseteq arrived'
  BY <1>1 DEF PahoInv, PahoTypes, Calls, Paho!session
<1>3. OnTheWay'
  BY ONLY <1>1, NothingOwed
<1> QED
  BY <1>2, <1>3 DEF PahoInv

-----------------------------------------------------------------------------

LEMMA InitPaho == Paho!Init => PahoInv
<1> SUFFICES ASSUME Paho!Init PROVE PahoInv
  OBVIOUS
<1>1. /\ up = <<>> /\ down = <<>> /\ packetid = 0 /\ commands = 0 /\ incoming = 0
      /\ topicsOf = {} /\ reported = {} /\ command = Paho!Idle
  BY DEF Paho!Init
<1>2. <<>> \in Seq(Packets) /\ DOMAIN <<>> = {}
  OBVIOUS
<1>3. PahoTypes /\ Calls /\ reported \subseteq arrived
  BY <1>1, <1>2 DEF PahoTypes, Calls, Paho!Idle
<1>4. OnTheWay
  BY ONLY <1>1, <1>2 DEF OnTheWay, Accepted, Fresh, Owed, OwedOnce
<1> QED
  BY <1>3, <1>4 DEF PahoInv

LEMMA StepPaho == PahoInv /\ [Paho!Next]_(Paho!mqttVars) => PahoInv'
<1> SUFFICES ASSUME PahoInv, Paho!Next \/ UNCHANGED Paho!mqttVars PROVE PahoInv'
  BY Zenon
<1>1. ASSUME NEW t \in Topics, Paho!Ask("subscribe", "SUBSCRIBE", "SUBACK", t) PROVE PahoInv'
  BY <1>1, AskKeeps
<1>2. ASSUME NEW t \in Topics, Paho!Ask("unsubscribe", "UNSUBSCRIBE", "UNSUBACK", t)
      PROVE  PahoInv'
  BY <1>2, AskKeeps
<1>3. CASE Paho!Break \/ Paho!CloseConnection \/ Paho!Reopen
  <2>1. /\ up' = <<>> /\ down' = <<>>
        /\ UNCHANGED <<Paho!session, command, topicsOf, arrived, commands, incoming, reported>>
    BY <1>3, Zenon
       DEF Paho!Break, Paho!CloseConnection, Paho!Reopen, Paho!Broken
  <2> QED
    BY <2>1, LostKeeps
<1>4. CASE UNCHANGED Paho!mqttVars
  BY <1>4
     DEF Paho!mqttVars, Paho!session, Paho!broker, PahoInv, PahoTypes, Calls,
         OnTheWay,
              Accepted, Fresh, Owed, OwedOnce, Taken, Ack, Accept
<1> QED
  BY <1>1, <1>2, <1>3, <1>4, ConnectKeeps, PublishKeeps, OtherCallsKeep,
     CycleKeeps,
     CycleOfNothingKeeps, ConnectAnsweredKeeps, PublishAnsweredKeeps,
     SubscribeAnsweredKeeps,
     UnsubscribeAnsweredKeeps, ExpiredKeeps, ServeKeeps, SendMessageKeeps, Zenon
     DEF Paho!Next, Paho!Subscribe, Paho!Unsubscribe

-----------------------------------------------------------------------------
(* The parts side by side: a step of one leaves the others as they are.    *)

LEMMA StepLoggerPart == LoggerInv /\ [AllNext]_allVars => LoggerInv'
<1>1. LoggerInv /\ UNCHANGED logger => LoggerInv'
  BY StepLogger, Zenon DEF logger, Logger!loggerVars
<1>2. LoggerStep => Logger!Next
  BY DEF LoggerStep
<1>3. AgentStep \/ LexerStep \/ Base64Step \/ HttpStep \/ BinHttpStep \/ CodecStep
      \/ TopicStep \/ PahoStep \/ UNCHANGED allVars => UNCHANGED logger
  BY Zenon
     DEF AgentStep, LexerStep, Base64Step, HttpStep, BinHttpStep, CodecStep,
               TopicStep, PahoStep, allVars, library
<1> QED
  BY ONLY <1>1, <1>2, <1>3, StepLogger, Zenon DEF AllNext

LEMMA StepHttpPart == HttpInv /\ [AllNext]_allVars => HttpInv'
<1>1. HttpInv /\ UNCHANGED http => HttpInv'
  BY StepHttp, PartsAssumption, Zenon DEF http, Http!httpVars
<1>2. HttpStep => Http!Next
  BY DEF HttpStep
<1>3. AgentStep \/ LexerStep \/ Base64Step \/ LoggerStep \/ BinHttpStep \/ CodecStep
      \/ TopicStep \/ PahoStep \/ UNCHANGED allVars => UNCHANGED http
  BY Zenon
     DEF AgentStep, LexerStep, Base64Step, LoggerStep, BinHttpStep, CodecStep,
               TopicStep, PahoStep, allVars, library
<1> QED
  BY ONLY <1>1, <1>2, <1>3, StepHttp, PartsAssumption, Zenon DEF AllNext

LEMMA StepBinPart == BinInv /\ [AllNext]_allVars => BinInv'
<1>1. BinInv /\ UNCHANGED bin => BinInv'
  BY StepBin, Zenon DEF bin, BinHttp!binVars
<1>2. BinHttpStep => BinHttp!Next
  BY DEF BinHttpStep
<1>3. AgentStep \/ LexerStep \/ Base64Step \/ LoggerStep \/ HttpStep \/ CodecStep
      \/ TopicStep \/ PahoStep \/ UNCHANGED allVars => UNCHANGED bin
  BY Zenon
     DEF AgentStep, LexerStep, Base64Step, LoggerStep, HttpStep, CodecStep,
               TopicStep, PahoStep, allVars, library
<1> QED
  BY ONLY <1>1, <1>2, <1>3, StepBin, Zenon DEF AllNext

LEMMA StepPahoPart == PahoInv /\ [AllNext]_allVars => PahoInv'
<1>1. PahoInv /\ UNCHANGED paho => PahoInv'
  BY StepPaho, Zenon DEF paho, Paho!mqttVars, Paho!session, Paho!broker
<1>2. PahoStep => Paho!Next
  BY DEF PahoStep
<1>3. AgentStep \/ LexerStep \/ Base64Step \/ LoggerStep \/ HttpStep \/ BinHttpStep
      \/ CodecStep \/ TopicStep \/ UNCHANGED allVars => UNCHANGED paho
  BY Zenon
     DEF AgentStep, LexerStep, Base64Step, LoggerStep, HttpStep, BinHttpStep,
               CodecStep, TopicStep, allVars, library
<1> QED
  BY ONLY <1>1, <1>2, <1>3, StepPaho, Zenon DEF AllNext

LEMMA AgentMoves == [AllNext]_allVars => [Next]_vars
<1>1. AgentStep => Next
  BY DEF AgentStep
<1>2. LexerStep \/ Base64Step \/ LoggerStep \/ HttpStep \/ BinHttpStep \/ CodecStep
      \/ TopicStep \/ PahoStep \/ UNCHANGED allVars => UNCHANGED vars
  BY Zenon
     DEF LexerStep, Base64Step, LoggerStep, HttpStep, BinHttpStep, CodecStep,
               TopicStep, PahoStep, allVars
<1> QED
  BY ONLY <1>1, <1>2, Zenon DEF AllNext

(* Beside the others the agent does what it does alone, so what is proved  *)
(* of Spec holds of AllSpec.                                               *)
THEOREM AgentIsPart == AllSpec => Spec
<1>1. AllInit => Init
  BY DEF AllInit
<1> QED
  BY <1>1, AgentMoves, PTL DEF AllSpec, Spec

(* The invariants of the other parts hold in every state. *)
THEOREM PartsInvariance == AllSpec => [](LoggerInv /\ HttpInv /\ BinInv /\ PahoInv)
<1>1. AllInit => LoggerInv /\ HttpInv /\ BinInv /\ PahoInv
  BY InitLogger, InitHttp, InitBin, InitPaho DEF AllInit
<1> QED
  BY <1>1, StepLoggerPart, StepHttpPart, StepBinPart, StepPahoPart, PTL
     DEF AllSpec

(* Rotation gives up the lines of the oldest back-up only, wherever the    *)
(* process was killed in it (srlogger.cc 31-111).                          *)
THEOREM RotationKeepsLines == AllSpec => []LastLinesKept
<1>1. LoggerInv => LastLinesKept
  BY KeptRight DEF LastLinesKept
<1> QED
  BY <1>1, PartsInvariance, PTL

(* A transfer with a byte in every period is not aborted unless cancelled, *)
(* and one without ends (srnethttp.cc 26-49), whichever part moves.        *)
THEOREM PartsMeterEndsSilence == AllSpec => []SilenceEnds
<1>1. HttpInv => SilenceEnds
  BY MeterRight, PartsAssumption DEF SilenceEnds
<1> QED
  BY <1>1, PartsInvariance, PTL

(* What libcurl uses in a transfer exists and is the transfer's            *)
(* (srnetbinhttp.cc 35-211).                                               *)
THEOREM HandleServesItsTransfer == AllSpec => []OptionsAreTheTransfers
<1>1. BinInv => OptionsAreTheTransfers
  BY OptionsRight DEF OptionsAreTheTransfers
<1> QED
  BY <1>1, PartsInvariance, PTL

(* A message publish() reports as sent has reached the server, over any    *)
(* loss of the connection and however late answers come                    *)
(* (MQTTClient.h 382-876).                                                 *)
THEOREM PublishedMessagesArrive == AllSpec => []PublishedHasArrived
<1>1. PahoInv => PublishedHasArrived
  BY DEF PahoInv, PublishedHasArrived, Paho!PublishedHasArrived
<1> QED
  BY <1>1, PartsInvariance, PTL
=============================================================================
