------------------------------ MODULE DaemonProofs ------------------------------
(***************************************************************************)
(* The daemon over any number of starts, sessions and alerts: its types, what  *)
(* becomes of an alert, and what becomes of a session that has ended.         *)
(*                                                                         *)
(* AlertsKept is not inductive: AlerterEnds writes the queue over the file, so *)
(* Accounted says that what the file holds was sent, lost or is in the queue.  *)
(* TwiceForAReason needs that an alert is in one place only (InOnePlace), and  *)
(* that what was sent and still waits in the queue, or in a file that nobody   *)
(* works on, has its reason already (Explained).                             *)
(***************************************************************************)
EXTENDS Daemon, SequenceTheorems, TLAPS

-----------------------------------------------------------------------------
(* Sequences as queues. *)
LEMMA ItemsOfEmpty == Items(<<>>) = {}
BY DEF Items

LEMMA ItemsOfAppend ==
  ASSUME NEW S, NEW s \in Seq(S), NEW x
  PROVE  Items(Append(s, x)) = Items(s) \cup {x}
<1>1. DOMAIN Append(s, x) = 1..Len(s) + 1 /\ DOMAIN s = 1..Len(s) /\ Len(s) \in Nat
  OBVIOUS
<1>2. /\ \A i \in 1..Len(s) : Append(s, x)[i] = s[i]
      /\ Append(s, x)[Len(s) + 1] = x
  OBVIOUS
<1>3. Items(Append(s, x)) \subseteq Items(s) \cup {x}
  BY <1>1, <1>2 DEF Items
<1>4. Items(s) \cup {x} \subseteq Items(Append(s, x))
  BY <1>1, <1>2 DEF Items
<1> QED BY <1>3, <1>4

LEMMA ItemsOfTail ==
  ASSUME NEW S, NEW s \in Seq(S), s # <<>>
  PROVE  /\ Items(s) = {Head(s)} \cup Items(Tail(s))
         /\ Head(s) \in S /\ Tail(s) \in Seq(S)
<1>1. /\ Len(s) \in Nat \ {0} /\ DOMAIN s = 1..Len(s) /\ DOMAIN Tail(s) = 1..Len(s) - 1
      /\ Head(s) = s[1] /\ \A i \in 1..Len(s) - 1 : Tail(s)[i] = s[i + 1]
  OBVIOUS
<1>2. Items(s) \subseteq {Head(s)} \cup Items(Tail(s))
  <2> SUFFICES ASSUME NEW i \in 1..Len(s) PROVE s[i] \in {Head(s)} \cup Items(Tail(s))
    BY <1>1 DEF Items
  <2>1. CASE i = 1
    BY <2>1, <1>1
  <2>2. CASE i # 1
    <3>1. i - 1 \in 1..Len(s) - 1 /\ Tail(s)[i - 1] = s[i]
      BY <1>1, <2>2
    <3> QED BY <3>1, <1>1 DEF Items
  <2> QED BY <2>1, <2>2
<1>3. {Head(s)} \cup Items(Tail(s)) \subseteq Items(s)
  BY <1>1 DEF Items
<1> QED BY <1>1, <1>2, <1>3

LEMMA ItemsHaveType ==
  ASSUME NEW S, NEW s \in Seq(S)
  PROVE  Items(s) \subseteq S
BY DEF Items

(* A queue that holds no alert twice. *)
Distinct(s) == \A i, j \in DOMAIN s : s[i] = s[j] /\ s[i] # Die => i = j

LEMMA DistinctAppend ==
  ASSUME NEW S, NEW s \in Seq(S), NEW x, Distinct(s), x \notin Items(s) \/ x = Die
  PROVE  Distinct(Append(s, x))
<1>1. DOMAIN Append(s, x) = 1..Len(s) + 1 /\ DOMAIN s = 1..Len(s) /\ Len(s) \in Nat
  OBVIOUS
<1>2. /\ \A i \in 1..Len(s) : Append(s, x)[i] = s[i]
      /\ Append(s, x)[Len(s) + 1] = x
  OBVIOUS
<1> QED BY <1>1, <1>2 DEF Distinct, Items

LEMMA DistinctTail ==
  ASSUME NEW S, NEW s \in Seq(S), s # <<>>, Distinct(s)
  PROVE  Distinct(Tail(s)) /\ (Head(s) # Die => Head(s) \notin Items(Tail(s)))
<1>1. /\ Len(s) \in Nat \ {0} /\ DOMAIN s = 1..Len(s) /\ DOMAIN Tail(s) = 1..Len(s) - 1
      /\ Head(s) = s[1] /\ \A i \in 1..Len(s) - 1 : Tail(s)[i] = s[i + 1]
  OBVIOUS
<1>2. \A i \in 1..Len(s) - 1 : i + 1 \in 1..Len(s) /\ i + 1 # 1
  BY <1>1
<1>3. ASSUME NEW i \in 1..Len(s) - 1, NEW j \in 1..Len(s) - 1, Tail(s)[i] = Tail(s)[j],
             Tail(s)[i] # Die
      PROVE  i = j
  <2>1. s[i + 1] = s[j + 1] /\ s[i + 1] # Die
    BY <1>1, <1>3
  <2>2. i + 1 = j + 1
    BY <1>1, <1>2, <2>1 DEF Distinct
  <2> QED BY <2>2
<1>4. ASSUME Head(s) # Die, NEW i \in 1..Len(s) - 1, Tail(s)[i] = Head(s)
      PROVE  FALSE
  <2>1. s[i + 1] = s[1] /\ s[1] # Die /\ 1 \in 1..Len(s)
    BY <1>1, <1>4
  <2>2. i + 1 = 1
    BY <1>1, <1>2, <2>1 DEF Distinct
  <2> QED BY <1>1, <2>2
<1> QED BY <1>1, <1>3, <1>4 DEF Distinct, Items

-----------------------------------------------------------------------------
(* The inductive invariants.                                                 *)

(* Main and the alert thread: main has its end only from a thread that is      *)
(* dead, and only a thread at work has a queue.                              *)
InStepWithThread ==
  /\ phase \in {"off", "refused", "serve"} => alerter = "none"
  /\ phase = "end" => alerter = "dead"
  /\ alerter \in {"none", "start", "dead"} => q = <<>>

InOnePlace ==
  /\ Distinct(events) /\ Distinct(q) /\ Distinct(alertFile)
  /\ \A a \in Items(events) \ {Die} : a \notin Items(q) \cup Items(alertFile) \cup sent

Accounted ==
  alerter \in {"send", "wait"} => Items(alertFile) \subseteq sent \cup lost \cup Items(q)

Explained ==
  /\ Items(q) \cap sent \subseteq doubted \cup orphaned
  /\ alerter \notin {"send", "wait"} => Items(alertFile) \cap sent \subseteq doubted \cup orphaned

WhereAlertsAre == InOnePlace /\ Accounted /\ AlertsKept /\ Explained /\ TwiceForAReason

AlertInv == TypeOK /\ InStepWithThread /\ WhereAlertsAre

(* No session that is there has ended; one that ended since saveToDisk read     *)
(* the list, or since it was written, is late.                               *)
SaveInv ==
  /\ sessions \cap ended = {}
  /\ phase = "refused" => unsaved
  /\ phase = "write" => snapshot \cap ended \subseteq late
  /\ phase \notin {"serve", "init", "run", "save", "write"} =>
       unsaved \/ sessionFile \cap ended \subseteq late

-----------------------------------------------------------------------------
(* Types. *)
LEMMA LongerCounts ==
  ASSUME NEW m \in Nat, NEW n \in Nat, m <= n
  PROVE  /\ 1..m \subseteq 1..n /\ 0..m \subseteq 0..n
         /\ Seq(1..m) \subseteq Seq(1..n) /\ Seq(0..m) \subseteq Seq(0..n)
<1>1. 1..m \subseteq 1..n /\ 0..m \subseteq 0..n
  OBVIOUS
<1> QED BY <1>1

LEMMA TypeInit == Init => TypeOK
<1> SUFFICES ASSUME Init PROVE TypeOK
  OBVIOUS
<1>1. phase \in Phase /\ unsaved \in BOOLEAN
  BY DEF Init, Phase
<1>2. /\ starts \in 0..MaxStarts /\ made \in 0..MaxSessions /\ alerts \in 0..MaxAlerts
  BY DaemonAssumption DEF Init
<1>3. /\ alertFile \in Seq(1..alerts) /\ q \in Seq(1..alerts) /\ events \in Seq(0..alerts)
  BY DEF Init
<1>4. /\ sessionFile = {} /\ sessions = {} /\ snapshot = {} /\ ended = {} /\ late = {}
      /\ sent = {} /\ twice = {} /\ doubted = {} /\ orphaned = {} /\ lost = {}
      /\ expirer = "none" /\ alerter = "none"
  BY DEF Init
<1> QED BY <1>1, <1>2, <1>3, <1>4 DEF TypeOK

LEMMA VanishTypes ==
  ASSUME TypeOK, Vanish, unsaved' \in BOOLEAN, orphaned' \subseteq 1..alerts
  PROVE  TypeOK'
<1>1. Items(events) \subseteq 0..alerts /\ Items(q) \subseteq 1..alerts
  BY ItemsHaveType DEF TypeOK
<1>n. alerts \in Nat /\ lost \subseteq 1..alerts
  BY DaemonAssumption DEF TypeOK
<1>2. lost' \subseteq 1..alerts
  <2>1. lost' = lost \cup ((Items(events) \cup Items(q)) \ {0})
    BY DEF Vanish, Die
  <2>2. (0..alerts) \ {0} \subseteq 1..alerts
    BY <1>n
  <2> QED BY <1>1, <1>n, <2>1, <2>2
<1>3. /\ phase' \in Phase /\ q' \in Seq(1..alerts) /\ events' \in Seq(0..alerts)
      /\ sessions' \subseteq 1..made /\ snapshot' \subseteq 1..made
  BY DEF Vanish, Phase
<1> QED BY <1>2, <1>3 DEF Vanish, TypeOK

LEMMA TypeStep == TypeOK /\ [Next]_vars => TypeOK'
<1> SUFFICES ASSUME TypeOK, [Next]_vars PROVE TypeOK'
  OBVIOUS
<1> USE DEF TypeOK, sessionVars, alertVars
<1>c. MaxStarts \in Nat /\ MaxSessions \in Nat /\ MaxAlerts \in Nat
  BY DaemonAssumption
<1>n. made \in Nat /\ alerts \in Nat
  BY <1>c
<1>1. CASE Boot
  <2>1. phase' \in Phase /\ unsaved' \in BOOLEAN
    BY <1>1 DEF Boot, Phase
  <2>2. sessions' \subseteq 1..made /\ ended' \subseteq 1..made /\ late' \subseteq 1..made
    BY <1>1 DEF Boot
  <2>3. starts' \in 0..MaxStarts
    <3>1. starts < MaxStarts /\ starts' = starts + 1 /\ starts \in 0..MaxStarts
      BY <1>1 DEF Boot
    <3> QED BY ONLY <3>1, <1>c
  <2> QED BY <1>1, <2>1, <2>2, <2>3 DEF Boot
<1>2. CASE StartThreads \/ InitModules \/ ShutdownEvent \/ Snapshot \/ WriteSessions
  BY <1>2 DEF StartThreads, InitModules, ShutdownEvent, Advance, Snapshot, WriteSessions,
              NewFile, Phase
<1>3. CASE TellExpire \/ AwaitExpire \/ AwaitAlerts
  BY <1>3 DEF TellExpire, AwaitExpire, AwaitAlerts, Advance, Phase
<1>4. CASE TellAlerts
  <2>1. Append(events, Die) \in Seq(0..alerts)
    BY <1>n, AppendProperties DEF Die
  <2> QED BY <1>4, <2>1 DEF TellAlerts, Phase
<1>5. CASE Exit
  BY <1>5, VanishTypes DEF Exit
<1>6. CASE Crash
  <2>1. orphaned' \subseteq 1..alerts
    BY <1>6, ItemsHaveType DEF Crash
  <2> QED BY <1>6, <2>1, VanishTypes DEF Crash
<1>7. CASE Login
  <2>1. made' = made + 1 /\ made' \in 0..MaxSessions /\ made + 1 \in 1..made'
    BY <1>7, <1>c, <1>n DEF Login
  <2>2. 1..made \subseteq 1..made'
    BY <2>1, <1>n
  <2>3. sessions' = sessions \cup {made + 1} /\ late' = late \cup {made + 1}
    BY <1>7 DEF Login, Changed
  <2>4. UNCHANGED <<sessionFile, alertFile, phase, starts, expirer, snapshot, ended, unsaved,
                    alertVars>>
    BY <1>7 DEF Login
  <2> QED BY <2>1, <2>2, <2>3, <2>4
<1>8. CASE Logout \/ Sweep
  BY <1>8 DEF Logout, Sweep, EndSession, Changed
<1>9. CASE SweepStart \/ SweepEnd
  BY <1>9 DEF SweepStart, SweepEnd
<1>10. CASE ExpirerEnds
  BY <1>10 DEF ExpirerEnds, Woken, Phase
<1>11. CASE Alert
  <2>1. alerts' = alerts + 1 /\ alerts' \in 0..MaxAlerts /\ alerts + 1 \in 0..alerts'
    BY <1>11, <1>c, <1>n DEF Alert
  <2>2. /\ 1..alerts \subseteq 1..alerts' /\ 0..alerts \subseteq 0..alerts'
        /\ Seq(1..alerts) \subseteq Seq(1..alerts') /\ Seq(0..alerts) \subseteq Seq(0..alerts')
    BY <2>1, <1>n, LongerCounts
  <2>3. events \in Seq(0..alerts') /\ events' = Append(events, alerts + 1)
    BY <1>11, <2>2 DEF Alert
  <2>4. events' \in Seq(0..alerts')
    BY <2>1, <2>3, AppendProperties
  <2>5. UNCHANGED <<sessionFile, alertFile, phase, starts, expirer, sessionVars, alerter, q,
                    sent, twice, doubted, orphaned, lost>>
    BY <1>11 DEF Alert
  <2> QED BY <2>1, <2>2, <2>4, <2>5
<1>12. CASE LoadQueue \/ QueueEmpty \/ Timeout
  BY <1>12 DEF LoadQueue, QueueEmpty, Timeout
<1>13. CASE Send \/ SendFails
  <2>1. q # <<>>
    BY <1>13 DEF Send, SendFails
  <2>2. Head(q) \in 1..alerts /\ Tail(q) \in Seq(1..alerts)
    BY <2>1
  <2> QED BY <1>13, <2>2 DEF Send, SendFails, Deliver, rmindex0
<1>14. CASE TakeAlert
  <2>1. events # <<>> /\ Head(events) # 0
    BY <1>14 DEF TakeAlert, IsAlert, Die
  <2>2. Head(events) \in 1..alerts /\ Tail(events) \in Seq(0..alerts)
    BY <2>1, <1>n
  <2>3. Append(q, Head(events)) \in Seq(1..alerts)
    BY <2>2, <1>n, AppendProperties
  <2>4. /\ q' \in Seq(1..alerts) /\ events' \in Seq(0..alerts) /\ alerter' = "send"
        /\ UNCHANGED <<sessionFile, alertFile, phase, starts, expirer, sessionVars, alerts, sent,
                       twice, doubted, orphaned, lost>>
    BY <1>14, <2>2, <2>3 DEF TakeAlert, Queued
  <2> QED BY <2>4
<1>15. CASE AlerterEnds
  <2>1. events # <<>>
    BY <1>15 DEF AlerterEnds
  <2>2. Tail(events) \in Seq(0..alerts)
    BY <2>1
  <2>3. phase' \in Phase
    BY <1>15 DEF AlerterEnds, Woken, Phase
  <2>4. alertFile' = q /\ q' = <<>> /\ events' = Tail(events) /\ alerter' = "dead"
    BY <1>15 DEF AlerterEnds, SavedQueue
  <2>5. q' \in Seq(1..alerts)
    BY <2>4
  <2>6. UNCHANGED <<sessionFile, starts, expirer, sessionVars, alerts, sent, twice, doubted,
                    orphaned, lost>>
    BY <1>15 DEF AlerterEnds
  <2> QED BY <2>2, <2>3, <2>4, <2>5, <2>6
<1>16. CASE AlerterThrows
  <2>1. Items(alertFile) \subseteq 1..alerts /\ Items(q) \subseteq 1..alerts
    BY ItemsHaveType
  <2>2. phase' \in Phase
    BY <1>16 DEF AlerterThrows, Woken, Phase
  <2>6. alerter' = "dead" /\ q' = <<>>
    BY <1>16 DEF AlerterThrows
  <2>3. alerter' = "dead" /\ q' \in Seq(1..alerts)
    BY <2>6
  <2>4. orphaned' \subseteq 1..alerts /\ lost' \subseteq 1..alerts
    BY <1>16, <2>1 DEF AlerterThrows
  <2>5. UNCHANGED <<sessionFile, alertFile, starts, expirer, sessionVars, events, alerts, sent,
                    twice, doubted>>
    BY <1>16 DEF AlerterThrows
  <2> QED BY <2>2, <2>3, <2>4, <2>5
<1>17. CASE UNCHANGED vars
  BY <1>17 DEF vars
<1> QED BY <1>1, <1>2, <1>3, <1>4, <1>5, <1>6, <1>7, <1>8, <1>9, <1>10, <1>11, <1>12, <1>13,
           <1>14, <1>15, <1>16, <1>17 DEF Next, Main, Expirer, Alerter

(* main, the two threads and their files keep their types.                   *)
THEOREM DaemonTypeCorrect == Spec => []TypeOK
BY TypeInit, TypeStep, PTL DEF Spec

-----------------------------------------------------------------------------
(* Main and the alert thread. *)
LEMMA ThreadInit == Init => InStepWithThread
BY DEF Init, InStepWithThread

LEMMA ThreadStep == TypeOK /\ InStepWithThread /\ [Next]_vars => InStepWithThread'
<1> SUFFICES ASSUME TypeOK, InStepWithThread, [Next]_vars PROVE InStepWithThread'
  OBVIOUS
<1> USE DEF InStepWithThread, sessionVars, alertVars
<1>1. CASE Boot \/ StartThreads \/ InitModules \/ ShutdownEvent \/ Snapshot \/ WriteSessions
  BY <1>1 DEF Boot, StartThreads, InitModules, ShutdownEvent, Advance, Snapshot, WriteSessions
<1>2. CASE TellExpire \/ AwaitExpire \/ TellAlerts \/ AwaitAlerts
  BY <1>2 DEF TellExpire, AwaitExpire, TellAlerts, AwaitAlerts, Advance
<1>3. CASE Exit \/ Crash
  BY <1>3 DEF Exit, Crash, Vanish
<1>4. CASE Login \/ Logout \/ Sweep \/ SweepStart \/ SweepEnd \/ Alert \/ UNCHANGED vars
  BY <1>4 DEF Login, Logout, Sweep, EndSession, SweepStart, SweepEnd, Alert, vars
<1>5. CASE ExpirerEnds \/ AlerterEnds \/ AlerterThrows
  BY <1>5 DEF ExpirerEnds, AlerterEnds, AlerterThrows, Woken
<1>6. CASE LoadQueue \/ QueueEmpty \/ Timeout \/ Send \/ SendFails \/ TakeAlert
  BY <1>6 DEF LoadQueue, QueueEmpty, Timeout, Send, SendFails, TakeAlert
<1> QED BY <1>1, <1>2, <1>3, <1>4, <1>5, <1>6 DEF Next, Main, Expirer, Alerter

-----------------------------------------------------------------------------
(* What becomes of an alert: one lemma for each step that moves one. *)

LEMMA AlertTypes ==
  ASSUME TypeOK
  PROVE  /\ alerts \in Nat
         /\ events \in Seq(0..alerts) /\ q \in Seq(1..alerts) /\ alertFile \in Seq(1..alerts)
         /\ Items(events) \subseteq 0..alerts
         /\ Items(q) \subseteq 1..alerts /\ Items(alertFile) \subseteq 1..alerts
         /\ sent \subseteq 1..alerts
<1>1. alerts \in Nat
  BY DaemonAssumption DEF TypeOK
<1>2. events \in Seq(0..alerts) /\ q \in Seq(1..alerts) /\ alertFile \in Seq(1..alerts)
  BY DEF TypeOK
<1> QED BY <1>1, <1>2, ItemsHaveType DEF TypeOK

LEMMA WhereInit == Init => WhereAlertsAre
<1> SUFFICES ASSUME Init PROVE WhereAlertsAre
  OBVIOUS
<1>1. /\ events = <<>> /\ q = <<>> /\ alertFile = <<>> /\ sent = {} /\ twice = {}
      /\ alerts = 0 /\ alerter = "none"
  BY DEF Init
<1>2. Distinct(<<>>) /\ 1..0 = {}
  BY DEF Distinct
<1> QED BY <1>1, <1>2, ItemsOfEmpty
        DEF WhereAlertsAre, InOnePlace, Accounted, AlertsKept, Explained, TwiceForAReason

LEMMA WhereElsewhere ==
  ASSUME WhereAlertsAre, UNCHANGED <<alertFile, events, q, alerts, sent, twice, doubted, orphaned, lost>>,
         \/ alerter' = alerter
         \/ alerter' \in {"send", "wait"} /\ alerter \in {"send", "wait"}
         \/ alerter' = "start"  /\ alerter = "none"
  PROVE  WhereAlertsAre'
<1>1. Items(events)' = Items(events) /\ Items(q)' = Items(q) /\ Items(alertFile)' = Items(alertFile)
  BY DEF Items
<1>2. Distinct(events)' = Distinct(events) /\ Distinct(q)' = Distinct(q)
      /\ Distinct(alertFile)' = Distinct(alertFile)
  BY DEF Distinct
<1> QED BY <1>1, <1>2
        DEF WhereAlertsAre, InOnePlace, Accounted, AlertsKept, Explained, TwiceForAReason

LEMMA WhereVanish ==
  ASSUME TypeOK, WhereAlertsAre, Vanish, orphaned \subseteq orphaned',
         alerter \in {"send", "wait"} => Items(alertFile) \subseteq orphaned'
  PROVE  WhereAlertsAre'
<1>1. /\ events' = <<>> /\ q' = <<>> /\ alerter' = "none"
      /\ lost' = lost \cup ((Items(events) \cup Items(q)) \ {Die})
      /\ UNCHANGED <<alertFile, alerts, sent, twice, doubted>>
  BY DEF Vanish
<1>2. Items(<<>>) = {} /\ Distinct(<<>>)
  BY ItemsOfEmpty DEF Distinct
<1>3. \A a \in 1..alerts : a # Die
  BY AlertTypes DEF Die
<1>4. AlertsKept'
  BY <1>1, <1>3 DEF WhereAlertsAre, AlertsKept
<1>5. InOnePlace' /\ Accounted'
  BY <1>1, <1>2 DEF WhereAlertsAre, InOnePlace, Accounted
<1>6. Explained' /\ TwiceForAReason'
  BY <1>1, <1>2 DEF WhereAlertsAre, Explained, TwiceForAReason
<1> QED BY <1>4, <1>5, <1>6 DEF WhereAlertsAre

(* A new event: the alert is one that was never seen. *)
LEMMA WhereEvent ==
  ASSUME TypeOK, WhereAlertsAre, NEW e, e \in {Die, alerts + 1}, events' = Append(events, e),
         alerts' \in {alerts, alerts + 1}, alerts' = alerts + 1 => e = alerts + 1,
         UNCHANGED <<alertFile, alerter, q, sent, twice, doubted, orphaned, lost>>
  PROVE  WhereAlertsAre'
<1>1. Items(events') = Items(events) \cup {e}
  BY AlertTypes, ItemsOfAppend
<1>2. e = Die \/ e \notin Items(events) \cup Items(q) \cup Items(alertFile) \cup sent
  BY AlertTypes
<1>3. Distinct(events')
  BY <1>2, AlertTypes, DistinctAppend DEF WhereAlertsAre, InOnePlace
<1>4. InOnePlace'
  BY <1>1, <1>2, <1>3 DEF WhereAlertsAre, InOnePlace
<1>5. 1..alerts' \subseteq 1..alerts \cup (IF alerts' = alerts + 1 THEN {e} ELSE {})
  BY AlertTypes
<1>6. AlertsKept'
  BY <1>1, <1>5 DEF WhereAlertsAre, AlertsKept
<1> QED BY <1>4, <1>6 DEF WhereAlertsAre, Accounted, Explained, TwiceForAReason

LEMMA WhereLoadQueue ==
  ASSUME WhereAlertsAre, InStepWithThread, LoadQueue
  PROVE  WhereAlertsAre'
<1>1. /\ alerter = "start" /\ alerter' = "send" /\ q' = alertFile
      /\ UNCHANGED <<alertFile, events, alerts, sent, twice, doubted, orphaned, lost>>
  BY DEF LoadQueue
<1>2. Items(q) = {}
  BY <1>1, ItemsOfEmpty DEF InStepWithThread
<1> QED BY <1>1, <1>2
        DEF WhereAlertsAre, InOnePlace, Accounted, AlertsKept, Explained, TwiceForAReason

LEMMA WhereSend ==
  ASSUME TypeOK, WhereAlertsAre, Send
  PROVE  WhereAlertsAre'
<1>1. /\ alerter = "send" /\ q # <<>> /\ q' = Tail(q) /\ sent' = sent \cup {Head(q)}
      /\ twice' = IF Head(q) \in sent THEN twice \cup {Head(q)} ELSE twice
      /\ UNCHANGED <<alertFile, alerter, events, alerts, doubted, orphaned, lost>>
  BY DEF Send, Deliver, rmindex0
<1>2. /\ Items(q) = {Head(q)} \cup Items(q') /\ Head(q) \in 1..alerts /\ Head(q) # Die
  BY <1>1, AlertTypes, ItemsOfTail DEF Die
<1>3. Distinct(q') /\ Head(q) \notin Items(q')
  BY <1>1, <1>2, AlertTypes, DistinctTail DEF WhereAlertsAre, InOnePlace
<1>4. InOnePlace'
  BY <1>1, <1>2, <1>3 DEF WhereAlertsAre, InOnePlace
<1>5. Accounted' /\ AlertsKept'
  BY <1>1, <1>2 DEF WhereAlertsAre, Accounted, AlertsKept
<1>6. Explained' /\ TwiceForAReason'
  BY <1>1, <1>2, <1>3 DEF WhereAlertsAre, Explained, TwiceForAReason
<1> QED BY <1>4, <1>5, <1>6 DEF WhereAlertsAre

LEMMA WhereSendFails ==
  ASSUME TypeOK, WhereAlertsAre, SendFails
  PROVE  WhereAlertsAre'
<1>1. /\ alerter = "send" /\ q # <<>> /\ alerter' = "wait"
      /\ UNCHANGED <<alertFile, events, q, alerts, orphaned, lost>>
  BY DEF SendFails
<1>2. Head(q) \in Items(q)
  BY <1>1, AlertTypes, ItemsOfTail
<1>3. CASE UNCHANGED <<sent, twice, doubted>>
  BY <1>1, <1>3, WhereElsewhere
<1>4. CASE Deliver(Head(q)) /\ doubted' = doubted \cup {Head(q)}
  <2>1. /\ sent' = sent \cup {Head(q)} /\ doubted' = doubted \cup {Head(q)}
        /\ twice' \subseteq twice \cup {Head(q)}
    BY <1>4 DEF Deliver
  <2>2. Head(q) # Die
    BY <1>2, AlertTypes DEF Die
  <2> QED BY <1>1, <1>2, <2>1, <2>2
          DEF WhereAlertsAre, InOnePlace, Accounted, AlertsKept, Explained, TwiceForAReason
<1> QED BY <1>3, <1>4 DEF SendFails

LEMMA WhereTakeAlert ==
  ASSUME TypeOK, WhereAlertsAre, TakeAlert
  PROVE  WhereAlertsAre'
<1>1. /\ alerter = "wait" /\ alerter' = "send" /\ events # <<>> /\ Head(events) # Die
      /\ q' = Append(q, Head(events)) /\ events' = Tail(events)
      /\ UNCHANGED <<alertFile, alerts, sent, twice, doubted, orphaned, lost>>
  BY DEF TakeAlert, IsAlert, Queued
<1>2. Items(events) = {Head(events)} \cup Items(events')
  BY <1>1, AlertTypes, ItemsOfTail
<1>3. Items(q') = Items(q) \cup {Head(events)}
  BY <1>1, AlertTypes, ItemsOfAppend
<1>4. Head(events) \notin Items(q) \cup Items(alertFile) \cup sent
  BY <1>1, <1>2 DEF WhereAlertsAre, InOnePlace
<1>5. Distinct(events') /\ Head(events) \notin Items(events')
  BY <1>1, AlertTypes, DistinctTail DEF WhereAlertsAre, InOnePlace
<1>6. Distinct(q')
  BY <1>1, <1>4, AlertTypes, DistinctAppend DEF WhereAlertsAre, InOnePlace
<1>7. InOnePlace'
  BY <1>1, <1>2, <1>3, <1>5, <1>6 DEF WhereAlertsAre, InOnePlace
<1>8. Accounted' /\ AlertsKept'
  BY <1>1, <1>2, <1>3 DEF WhereAlertsAre, Accounted, AlertsKept
<1>9. Explained' /\ TwiceForAReason'
  BY <1>1, <1>3, <1>4 DEF WhereAlertsAre, Explained, TwiceForAReason
<1> QED BY <1>7, <1>8, <1>9 DEF WhereAlertsAre

LEMMA WhereAlerterEnds ==
  ASSUME TypeOK, WhereAlertsAre, AlerterEnds
  PROVE  WhereAlertsAre'
<1>1. /\ alerter = "wait" /\ alerter' = "dead" /\ events # <<>> /\ Head(events) = Die
      /\ alertFile' = q /\ q' = <<>> /\ events' = Tail(events)
      /\ UNCHANGED <<alerts, sent, twice, doubted, orphaned, lost>>
  BY DEF AlerterEnds, SavedQueue
<1>2. Items(events) = {Die} \cup Items(events')
  BY <1>1, AlertTypes, ItemsOfTail
<1>3. Distinct(events')
  BY <1>1, AlertTypes, DistinctTail DEF WhereAlertsAre, InOnePlace
<1>4. Items(q') = {} /\ Distinct(q')
  BY <1>1, ItemsOfEmpty DEF Distinct
<1>5. InOnePlace'
  BY <1>1, <1>2, <1>3, <1>4 DEF WhereAlertsAre, InOnePlace
<1>6. \A a \in 1..alerts : a # Die
  BY AlertTypes DEF Die
<1>7. Accounted' /\ AlertsKept'
  BY <1>1, <1>2, <1>6 DEF WhereAlertsAre, Accounted, AlertsKept
<1>8. Explained' /\ TwiceForAReason'
  BY <1>1, <1>4 DEF WhereAlertsAre, Explained, TwiceForAReason
<1> QED BY <1>5, <1>7, <1>8 DEF WhereAlertsAre

LEMMA WhereAlerterThrows ==
  ASSUME WhereAlertsAre, AlerterThrows
  PROVE  WhereAlertsAre'
<1>1. /\ alerter = "send" /\ alerter' = "dead" /\ q' = <<>>
      /\ orphaned' = orphaned \cup Items(alertFile) /\ lost' = lost \cup Items(q)
      /\ UNCHANGED <<alertFile, events, alerts, sent, twice, doubted>>
  BY DEF AlerterThrows, sessionVars
<1>2. Items(q') = {} /\ Distinct(q')
  BY <1>1, ItemsOfEmpty DEF Distinct
<1> QED BY <1>1, <1>2
        DEF WhereAlertsAre, InOnePlace, Accounted, AlertsKept, Explained, TwiceForAReason

LEMMA WhereStep == AlertInv /\ [Next]_vars => WhereAlertsAre'
<1> SUFFICES ASSUME AlertInv, [Next]_vars PROVE WhereAlertsAre'
  OBVIOUS
<1>t. TypeOK /\ InStepWithThread /\ WhereAlertsAre
  BY DEF AlertInv
<1>1. CASE Boot \/ StartThreads \/ InitModules \/ ShutdownEvent \/ Snapshot \/ WriteSessions
  BY <1>1, <1>t, WhereElsewhere
     DEF Boot, StartThreads, InitModules, ShutdownEvent, Advance, Snapshot, WriteSessions, alertVars,
         InStepWithThread
<1>2. CASE TellExpire \/ AwaitExpire \/ AwaitAlerts
  BY <1>2, <1>t, WhereElsewhere DEF TellExpire, AwaitExpire, AwaitAlerts, Advance, alertVars
<1>3. CASE TellAlerts
  <2>1. /\ events' = Append(events, Die) /\ alerts' = alerts
        /\ UNCHANGED <<alertFile, alerter, q, sent, twice, doubted, orphaned, lost>>
    BY <1>3 DEF TellAlerts
  <2>2. alerts # alerts + 1
    BY <1>t, AlertTypes
  <2> QED BY <1>t, <2>1, <2>2, WhereEvent
<1>4. CASE Exit
  <2>1. Vanish /\ orphaned' = orphaned /\ alerter \in {"none", "dead"}
    BY <1>4, <1>t DEF Exit, InStepWithThread
  <2> QED BY <1>t, <2>1, WhereVanish
<1>5. CASE Crash
  BY <1>5, <1>t, WhereVanish DEF Crash
<1>6. CASE Login \/ Logout \/ Sweep \/ SweepStart \/ SweepEnd \/ ExpirerEnds \/ UNCHANGED vars
  BY <1>6, <1>t, WhereElsewhere
     DEF Login, Logout, Sweep, EndSession, SweepStart, SweepEnd, ExpirerEnds, vars, alertVars
<1>7. CASE Alert
  BY <1>7, <1>t, WhereEvent DEF Alert
<1>8. CASE QueueEmpty \/ Timeout
  BY <1>8, <1>t, WhereElsewhere DEF QueueEmpty, Timeout
<1> QED BY <1>t, <1>1, <1>2, <1>3, <1>4, <1>5, <1>6, <1>7, <1>8, WhereLoadQueue, WhereSend,
           WhereSendFails, WhereTakeAlert, WhereAlerterEnds, WhereAlerterThrows
        DEF Next, Main, Expirer, Alerter

LEMMA AlertInvHolds == Spec => []AlertInv
<1>1. Init => AlertInv
  BY TypeInit, ThreadInit, WhereInit DEF AlertInv
<1>2. AlertInv /\ [Next]_vars => AlertInv'
  BY TypeStep, ThreadStep, WhereStep DEF AlertInv
<1> QED BY <1>1, <1>2, PTL DEF Spec

(* An alert is delivered, or in the events, the queue or the file, or lost with *)
(* a process or a thread that died (alert, AlertHandler::run).                *)
THEOREM NoAlertDisappears == Spec => []AlertsKept
<1>1. AlertInv => AlertsKept
  BY DEF AlertInv, WhereAlertsAre
<1> QED BY <1>1, AlertInvHolds, PTL

(* A second delivery follows a report of failure, or a file left behind by a    *)
(* process or thread that died (AlertHandler::run, sendOutQueuedAlerts).      *)
THEOREM NoAlertTwiceWithoutReason == Spec => []TwiceForAReason
<1>1. AlertInv => TwiceForAReason
  BY DEF AlertInv, WhereAlertsAre
<1> QED BY <1>1, AlertInvHolds, PTL

-----------------------------------------------------------------------------
(* What becomes of a session that has ended. *)
LEMMA SaveInit == Init => SaveInv
BY DEF Init, SaveInv

LEMMA EndSessionKeeps ==
  ASSUME SaveInv, NEW s, EndSession(s)
  PROVE  SaveInv'
BY DEF SaveInv, EndSession, Changed, alertVars

LEMMA SaveStep == TypeOK /\ SaveInv /\ [Next]_vars => SaveInv'
<1> SUFFICES ASSUME TypeOK, SaveInv, [Next]_vars PROVE SaveInv'
  OBVIOUS
<1> USE DEF SaveInv, sessionVars
<1>1. CASE Boot
  BY <1>1 DEF Boot
<1>2. CASE StartThreads \/ InitModules \/ ShutdownEvent \/ Snapshot \/ WriteSessions
  BY <1>2 DEF StartThreads, InitModules, ShutdownEvent, Advance, Snapshot, WriteSessions, NewFile
<1>3. CASE TellExpire \/ AwaitExpire \/ TellAlerts \/ AwaitAlerts
  BY <1>3 DEF TellExpire, AwaitExpire, TellAlerts, AwaitAlerts, Advance
<1>4. CASE Exit
  BY <1>4 DEF Exit, Vanish
<1>5. CASE Crash
  BY <1>5 DEF Crash, Vanish, Serving, TypeOK, Phase
<1>6. CASE Login
  <2>1. made + 1 \notin ended
    BY DaemonAssumption DEF TypeOK
  <2> QED BY <1>6, <2>1 DEF Login, Changed
<1>7. CASE Logout \/ Sweep
  BY <1>7, EndSessionKeeps DEF Logout, Sweep
<1>8. CASE SweepStart \/ SweepEnd \/ Alert \/ UNCHANGED vars
  BY <1>8 DEF SweepStart, SweepEnd, Alert, vars
<1>9. CASE ExpirerEnds \/ AlerterEnds \/ AlerterThrows
  BY <1>9 DEF ExpirerEnds, AlerterEnds, AlerterThrows, Woken
<1>10. CASE LoadQueue \/ QueueEmpty \/ Timeout \/ Send \/ SendFails \/ TakeAlert
  BY <1>10 DEF LoadQueue, QueueEmpty, Timeout, Send, SendFails, TakeAlert
<1> QED BY <1>1, <1>2, <1>3, <1>4, <1>5, <1>6, <1>7, <1>8, <1>9, <1>10
        DEF Next, Main, Expirer, Alerter

(* A session that was logged out or expired stays so over a restart, but for     *)
(* one that went after saveToDisk read the list, and a process that did not     *)
(* save (saveToDisk, loadFromDisk, the order of OpenCoreApp::main).           *)
THEOREM EndedSessionsStayEnded == Spec => LogoutIsFinal
<1> DEFINE Final == phase = "off" /\ phase' # "off" => unsaved \/ sessions' \cap ended \subseteq late
<1>1. ASSUME SaveInv, Next PROVE Final
  <2> SUFFICES ASSUME phase = "off", phase' # "off" PROVE unsaved \/ sessions' \cap ended \subseteq late
    OBVIOUS
  <2>1. unsaved \/ sessionFile \cap ended \subseteq late
    BY <1>1 DEF SaveInv
  <2>2. Boot
    BY <1>1 DEF Next, Main, Expirer, Alerter, Crash, Login, Logout, SweepStart, Alert, Send, SendFails,
             AlerterThrows, ShutdownEvent, Advance, Serving, StartThreads, InitModules, Snapshot,
             WriteSessions, TellExpire, AwaitExpire, TellAlerts, AwaitAlerts, Exit, Sweep, SweepEnd,
             ExpirerEnds, EndSession, LoadQueue, QueueEmpty, Timeout, TakeAlert, AlerterEnds, Woken,
             Vanish
  <2>3. sessions' = sessionFile
    BY <2>2 DEF Boot
  <2> QED BY <2>1, <2>3
<1>2. SaveInv /\ [Next]_vars => [Final]_vars
  BY <1>1
<1>3. Spec => []SaveInv
  <2>1. TypeOK /\ SaveInv /\ [Next]_vars => SaveInv'
    BY SaveStep
  <2> QED BY <2>1, SaveInit, DaemonTypeCorrect, PTL DEF Spec
<1> QED BY <1>2, <1>3, PTL DEF Spec, LogoutIsFinal
=============================================================================
