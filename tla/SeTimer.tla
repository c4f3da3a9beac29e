------------------------------- MODULE SeTimer -------------------------------
(***************************************************************************)
(* The timers of src/cpp/SeTimer.cpp: a map from due times to lists of     *)
(* timer ids, and a map from ids to due times by which one is deleted.     *)
(* The program polls GetTimeOutId with the time of day and gets one timer  *)
(* that is due, or 0; it sets timers, also in the past (a negative         *)
(* offset), and deletes them, also those it already got.                   *)
(***************************************************************************)
EXTENDS Integers, Sequences, SequencesExt, Functions

CONSTANTS Delays,     \* ullDelayTtimeMillSec of the timers
          Early,      \* bound: how far an offset may reach back
          MaxNow,     \* bound: last value of the clock
          MaxTimers   \* bound: timers ever set

ASSUME TimerAssumption == Delays \subseteq Nat /\ {Early, MaxNow, MaxTimers} \subseteq Nat
                          /\ Early <= MaxNow

VARIABLES m_llIdCount,
          m_kTimerMgr,     \* due time |-> ids, for the times it holds
          m_kTimerIdList,  \* id |-> due time, for the ids it holds
          now,             \* SeTimeGetTickCount
          got              \* the timer GetTimeOutId returned last, or 0

timerVars == <<m_llIdCount, m_kTimerMgr, m_kTimerIdList, now, got>>

Times == DOMAIN m_kTimerMgr
Ids   == DOMAIN m_kTimerIdList

First(times) == CHOOSE t \in times : \A u \in times : t <= u

Without(f, x) == Restrict(f, DOMAIN f \ {x})
With(f, x, y) == [z \in DOMAIN f \cup {x} |-> IF z = x THEN y ELSE f[z]]

(* What is left when the list of time t has become l: a time without       *)
(* timers is taken out of the map, or it would hide the later ones.        *)
LeaveEmpty(t, l) == With(m_kTimerMgr, t, l)                       \* mutant
Leave(t, l) == IF l = <<>> THEN Without(m_kTimerMgr, t) ELSE With(m_kTimerMgr, t, l)

SetTimer(delay, back) ==
  /\ m_llIdCount < MaxTimers
  /\ LET id == m_llIdCount + 1
         t  == now + delay - back
     IN /\ m_llIdCount' = id
        /\ m_kTimerIdList' = With(m_kTimerIdList, id, t)
        /\ m_kTimerMgr' = With(m_kTimerMgr, t,
                               Append(IF t \in Times THEN m_kTimerMgr[t] ELSE <<>>, id))
  /\ UNCHANGED <<now, got>>

Due == Times # {} /\ First(Times) <= now /\ m_kTimerMgr[First(Times)] # <<>>

TimeOutLast ==                                                    \* mutant
  /\ Due
  /\ LET t == First(Times)
         l == m_kTimerMgr[t]
     IN /\ got' = Last(l)
        /\ m_kTimerMgr' = Leave(t, Front(l))
        /\ m_kTimerIdList' = Without(m_kTimerIdList, Last(l))
  /\ UNCHANGED <<m_llIdCount, now>>
TimeOut ==
  /\ Due
  /\ LET t == First(Times)
         l == m_kTimerMgr[t]
     IN /\ got' = Head(l)
        /\ m_kTimerMgr' = Leave(t, Tail(l))
        /\ m_kTimerIdList' = Without(m_kTimerIdList, Head(l))
  /\ UNCHANGED <<m_llIdCount, now>>

NothingDue == ~Due /\ got' = 0 /\ UNCHANGED <<m_llIdCount, m_kTimerMgr, m_kTimerIdList, now>>

GetTimeOutId == TimeOut \/ NothingDue

(* The loop that erases an id where it first stands in a list.             *)
Erase(l, id) ==
  IF id \in Range(l)
  THEN RemoveAt(l, CHOOSE k \in DOMAIN l : l[k] = id /\ \A j \in 1 .. k - 1 : l[j] # id)
  ELSE l

(* The id is gone from its list first, and the time with it if it was the  *)
(* last.  An id that is not known is ignored.                              *)
DelTimer(id) ==
  /\ id \in Ids
  /\ LET t == m_kTimerIdList[id] IN
     m_kTimerMgr' = IF t \in Times THEN Leave(t, Erase(m_kTimerMgr[t], id)) ELSE m_kTimerMgr
  /\ m_kTimerIdList' = Without(m_kTimerIdList, id)
  /\ UNCHANGED <<m_llIdCount, now, got>>

ClockTick == now < MaxNow /\ now' = now + 1
             /\ UNCHANGED <<m_llIdCount, m_kTimerMgr, m_kTimerIdList, got>>

(* The time of day is far from 0: no offset reaches back that far.         *)
TimerInit ==
  /\ m_llIdCount = 0 /\ m_kTimerMgr = <<>> /\ m_kTimerIdList = <<>>
  /\ now = Early /\ got = 0

TimerNext ==
  \/ GetTimeOutId \/ ClockTick
  \/ \E d \in Delays, b \in 0 .. Early : SetTimer(d, b)
  \/ \E id \in 1 .. MaxTimers : DelTimer(id)

TimerSpec == TimerInit /\ [][TimerNext]_timerVars

(* The program polls, and time passes.                                     *)
TimerFairSpec == TimerSpec /\ WF_timerVars(GetTimeOutId) /\ WF_timerVars(ClockTick)

-----------------------------------------------------------------------------
(* The two maps agree: every timer that is set is in one list, that of its *)
(* due time, once; and no time is kept without a timer, for GetTimeOutId   *)
(* looks at the first time only and would find nothing there for ever.     *)
MapsAgree ==
  /\ \A t \in Times : m_kTimerMgr[t] # <<>> /\ IsInjective(m_kTimerMgr[t])
  /\ \A t \in Times : \A k \in DOMAIN m_kTimerMgr[t] :
       m_kTimerMgr[t][k] \in Ids /\ m_kTimerIdList[m_kTimerMgr[t][k]] = t
  /\ \A id \in Ids : /\ m_kTimerIdList[id] \in Times
                     /\ id \in Range(m_kTimerMgr[m_kTimerIdList[id]])

(* A timer that goes off was set and not deleted, is due, and is the one   *)
(* due longest, of those due at one time the one set first.                *)
GoesOffInOrder ==
  [][got' # got /\ got' # 0 =>
       /\ got' \in Ids /\ DOMAIN m_kTimerIdList' = Ids \ {got'}
       /\ m_kTimerIdList[got'] <= now
       /\ \A id \in Ids : \/ m_kTimerIdList[id] > m_kTimerIdList[got']
                          \/ m_kTimerIdList[id] = m_kTimerIdList[got'] /\ id >= got']_timerVars

(* A timer goes off, unless it is deleted, however many are set before and *)
(* after it.  (The clock stops at its bound: one due later is left out.)   *)
GoesOff ==
  \A id \in 1 .. MaxTimers :
    (id \in Ids /\ m_kTimerIdList[id] <= MaxNow) ~> id \notin Ids

=============================================================================
