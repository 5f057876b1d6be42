--------------------------------- MODULE Daemon ---------------------------------
(***************************************************************************)
(* The daemon from its start to its end, over crashes and restarts           *)
(* (main.cpp, opencorerpc.cpp, alerts.cpp, session.cpp): the order in which  *)
(* main brings up and ends its parts, the thread that sends alerts, the      *)
(* thread that expires sessions, and the two files that outlive the process,  *)
(* session.xml and the queue of alerts.                                      *)
(*                                                                         *)
(* Sessions and alerts are numbered in the order in which they come up; 0 is  *)
(* the event that ends the alert thread.  shutdown() of a thread sends an     *)
(* event and then waits for a condition of the Grace library; whether wait()  *)
(* returns when the broadcast was before it is left open.                    *)
(***************************************************************************)
EXTENDS Naturals, Sequences

CONSTANTS MaxStarts, MaxSessions, MaxAlerts     \* bounds on what is counted

ASSUME DaemonAssumption ==
  MaxStarts \in Nat /\ MaxSessions \in Nat /\ MaxAlerts \in Nat

VARIABLES
  sessionFile, alertFile, \* session.xml; the saved queue of alerts
  phase,                  \* how far main is
  sessions, snapshot,     \* SessionDB; what saveToDisk found there
  expirer,                \* SessionExpireThread
  alerter, events, q,     \* AlertHandler, its events and its queue
  starts, made, alerts,   \* counters
  (* History, read by the properties only:                                   *)
  ended, late,            \* sessions that ended; that came or went after the snapshot
  unsaved,                \* the last process ended before it saved its sessions
  sent, twice,            \* alerts that were delivered, and more than once
  doubted,                \* delivered, but reported as failed
  orphaned,               \* in a file that its process did not write again
  lost                    \* in the memory of a process or thread that died

sessionVars == <<sessions, snapshot, made, ended, late, unsaved>>
alertVars == <<alerter, events, q, alerts, sent, twice, doubted, orphaned, lost>>
vars == <<sessionFile, alertFile, phase, starts, expirer, sessionVars, alertVars>>

Phase == {"off", "refused", "serve", "init", "run", "save", "write", "expire", "expire told",
          "expire wait", "alerts", "alerts told", "alerts wait", "end", "hung"}
Serving == phase # "off"
Items(s) == {s[i] : i \in DOMAIN s}
Die == 0

Init ==
  /\ sessionFile = {} /\ alertFile = <<>> /\ phase = "off"
  /\ sessions = {} /\ snapshot = {} /\ expirer = "none"
  /\ alerter = "none" /\ events = <<>> /\ q = <<>>
  /\ starts = 0 /\ made = 0 /\ alerts = 0
  /\ ended = {} /\ late = {} /\ unsaved = FALSE
  /\ sent = {} /\ twice = {} /\ doubted = {} /\ orphaned = {} /\ lost = {}

-----------------------------------------------------------------------------
(* Start: authd must answer, the sessions are loaded, and the configuration   *)
(* opens the two RPC servers, the one on the unix socket first.  It fails for  *)
(* bad numbers of threads before, and without a certificate after that one    *)
(* was opened: it serves until the process is gone.                          *)
checkAuthDaemon(reply) == reply = "+"
confcheck(conf) == conf # "bad threads"
confcreate(conf) == conf # "no certificate"
confRpc(conf) == confcheck(conf) /\ confcreate(conf)

Boot ==
  /\ phase = "off" /\ starts < MaxStarts
  /\ starts' = starts + 1
  /\ \E reply \in {"+", "-", "nothing"}, conf \in {"valid", "bad threads", "no certificate"} :
       IF checkAuthDaemon(reply) /\ confcheck(conf)
       THEN /\ phase' = (IF confRpc(conf) THEN "serve" ELSE "refused")
            /\ sessions' = sessionFile /\ ended' = ended \ sessionFile /\ late' = {}
            /\ unsaved' = ~confRpc(conf)
       ELSE UNCHANGED <<phase, sessions, ended, late, unsaved>>
  /\ UNCHANGED <<sessionFile, alertFile, expirer, snapshot, made, alertVars>>

StartThreads ==
  /\ phase = "serve"
  /\ phase' = "init" /\ alerter' = "start" /\ expirer' = "wait"
  /\ UNCHANGED <<sessionFile, alertFile, starts, sessionVars, events, q, alerts, sent,
                 twice, doubted, orphaned, lost>>

(* ModuleDB::init.  When it fails the threads are ended and nothing is saved. *)
InitModules ==
  /\ phase = "init"
  /\ phase' \in {"run", "expire"}
  /\ unsaved' = (phase' = "expire")
  /\ UNCHANGED <<sessionFile, alertFile, starts, expirer, sessions, snapshot, made, ended,
                 late, alertVars>>

Advance(from, to) ==
  /\ phase = from /\ phase' = to
  /\ UNCHANGED <<sessionFile, alertFile, starts, expirer, sessionVars, alertVars>>

ShutdownEvent == Advance("run", "save")

(* saveToDisk: what the list holds goes to the file, without the lock.        *)
Snapshot ==
  /\ phase = "save" /\ phase' = "write"
  /\ snapshot' = sessions /\ late' = {}
  /\ UNCHANGED <<sessionFile, alertFile, starts, expirer, sessions, made, ended, unsaved,
                 alertVars>>

(* (MergedFile is a variant: what is in the file stays there.)                *)
MergedFile == sessionFile \cup snapshot
NewFile == snapshot

WriteSessions ==
  /\ phase = "write" /\ phase' = "expire"
  /\ sessionFile' = NewFile
  /\ UNCHANGED <<alertFile, starts, expirer, sessionVars, alertVars>>

(* shutdown(): sendevent(), then wait().                                     *)
TellExpire == Advance("expire", "expire told")

AwaitExpire ==
  \/ expirer # "dead" /\ Advance("expire told", "expire wait")
  \/ expirer = "dead" /\ \E next \in {"alerts", "hung"} : Advance("expire told", next)

TellAlerts ==
  /\ phase = "alerts" /\ phase' = "alerts told"
  /\ events' = Append(events, Die)
  /\ UNCHANGED <<sessionFile, alertFile, starts, expirer, sessionVars, alerter, q, alerts,
                 sent, twice, doubted, orphaned, lost>>

AwaitAlerts ==
  \/ alerter # "dead" /\ Advance("alerts told", "alerts wait")
  \/ alerter = "dead" /\ \E next \in {"end", "hung"} : Advance("alerts told", next)

(* The process is gone, and with it the alerts that are not in a file.        *)
Vanish ==
  /\ phase' = "off" /\ sessions' = {} /\ snapshot' = {} /\ expirer' = "none"
  /\ alerter' = "none" /\ events' = <<>> /\ q' = <<>>
  /\ lost' = lost \cup ((Items(events) \cup Items(q)) \ {Die})
  /\ UNCHANGED <<sessionFile, alertFile, starts, made, alerts, ended, late, sent, twice,
                 doubted>>

Exit ==
  /\ phase \in {"end", "refused"}
  /\ Vanish
  /\ UNCHANGED <<unsaved, orphaned>>

Crash ==
  /\ Serving
  /\ Vanish
  /\ unsaved' = (unsaved \/ phase \in {"serve", "init", "run", "save", "write"})
  /\ orphaned' = IF alerter = "dead" THEN orphaned ELSE orphaned \cup Items(alertFile)

-----------------------------------------------------------------------------
(* Sessions come and go as long as the RPC servers are up: to the very end.   *)
Changed(s) == late' = late \cup {s}

Login ==
  /\ Serving /\ made < MaxSessions
  /\ made' = made + 1 /\ sessions' = sessions \cup {made + 1} /\ Changed(made + 1)
  /\ UNCHANGED <<sessionFile, alertFile, phase, starts, expirer, snapshot, ended, unsaved,
                 alertVars>>

EndSession(s) ==
  /\ sessions' = sessions \ {s} /\ ended' = ended \cup {s} /\ Changed(s)
  /\ UNCHANGED <<sessionFile, alertFile, phase, starts, snapshot, made, unsaved, alertVars>>

Logout == Serving /\ \E s \in sessions : EndSession(s) /\ UNCHANGED expirer

(* SessionExpireThread: a sweep after each minute, until it is told to end.   *)
SweepStart ==
  /\ expirer = "wait" /\ phase \notin {"expire told", "expire wait"}
  /\ expirer' = "sweep"
  /\ UNCHANGED <<sessionFile, alertFile, phase, starts, sessionVars, alertVars>>

Sweep == expirer = "sweep" /\ \E s \in sessions : EndSession(s) /\ UNCHANGED expirer

SweepEnd ==
  /\ expirer = "sweep" /\ expirer' = "wait"
  /\ UNCHANGED <<sessionFile, alertFile, phase, starts, sessionVars, alertVars>>

(* broadcast() for main.  (Unwoken is a variant that forgets it.)             *)
Unwoken(wait, next) == phase
Woken(wait, next) == IF phase = wait THEN next ELSE phase

ExpirerEnds ==
  /\ expirer = "wait" /\ phase \in {"expire told", "expire wait"}
  /\ expirer' = "dead" /\ phase' = Woken("expire wait", "alerts")
  /\ UNCHANGED <<sessionFile, alertFile, starts, sessionVars, alertVars>>

-----------------------------------------------------------------------------
(* An alert, from whatever thread, once there is an AlertHandler.            *)
Alert ==
  /\ alerter # "none" /\ alerts < MaxAlerts
  /\ alerts' = alerts + 1 /\ events' = Append(events, alerts + 1)
  /\ UNCHANGED <<sessionFile, alertFile, phase, starts, expirer, sessionVars, alerter, q,
                 sent, twice, doubted, orphaned, lost>>

(* AlertHandler::run.  The file is read, and stays.                          *)
LoadQueue ==
  /\ alerter = "start"
  /\ alerter' = "send" /\ q' = alertFile
  /\ UNCHANGED <<sessionFile, alertFile, phase, starts, expirer, sessionVars, events, alerts,
                 sent, twice, doubted, orphaned, lost>>

(* sendAlert by mail or by HTTP.  (Its last case, which takes an alert for sent  *)
(* that has no routing, does not come up: the validator of the configuration, in *)
(* rsrc, asks for an alert/routing that is smtp or http.)                     *)
Deliver(a) == sent' = sent \cup {a} /\ twice' = IF a \in sent THEN twice \cup {a} ELSE twice

(* (RemoveLast is a variant: the wrong end of the queue is taken off.)        *)
RemoveLast(s) == SubSeq(s, 1, Len(s) - 1)
rmindex0(s) == Tail(s)

Send ==
  /\ alerter = "send" /\ q # <<>>
  /\ Deliver(Head(q)) /\ q' = rmindex0(q)
  /\ UNCHANGED <<sessionFile, alertFile, phase, starts, expirer, sessionVars, alerter, events,
                 alerts, doubted, orphaned, lost>>

(* It did not get out, or nobody said that it did.                           *)
SendFails ==
  /\ alerter = "send" /\ q # <<>>
  /\ alerter' = "wait"
  /\ \/ UNCHANGED <<sent, twice, doubted>>
     \/ Deliver(Head(q)) /\ doubted' = doubted \cup {Head(q)}
  /\ UNCHANGED <<sessionFile, alertFile, phase, starts, expirer, sessionVars, events, q,
                 alerts, orphaned, lost>>

QueueEmpty ==
  /\ alerter = "send" /\ q = <<>>
  /\ alerter' = "wait"
  /\ UNCHANGED <<sessionFile, alertFile, phase, starts, expirer, sessionVars, events, q,
                 alerts, sent, twice, doubted, orphaned, lost>>

(* A second without an event.  (NoTimeout is a variant that waits for one.)   *)
NoTimeout == alerter = "wait" /\ UNCHANGED vars
Timeout ==
  /\ alerter = "wait" /\ events = <<>>
  /\ alerter' = "send"
  /\ UNCHANGED <<sessionFile, alertFile, phase, starts, expirer, sessionVars, events, q,
                 alerts, sent, twice, doubted, orphaned, lost>>

(* (AnyEvent is a variant: every event is an alert.)                          *)
AnyEvent(e) == TRUE
IsAlert(e) == e # Die
Queued(a) == Append(q, a)

TakeAlert ==
  /\ alerter = "wait" /\ events # <<>> /\ IsAlert(Head(events))
  /\ alerter' = "send" /\ q' = Queued(Head(events)) /\ events' = Tail(events)
  /\ UNCHANGED <<sessionFile, alertFile, phase, starts, expirer, sessionVars, alerts, sent,
                 twice, doubted, orphaned, lost>>

(* (OldQueue is a variant that does not save the queue.)                      *)
OldQueue == alertFile
SavedQueue == q

AlerterEnds ==
  /\ alerter = "wait" /\ events # <<>> /\ Head(events) = Die
  /\ alertFile' = SavedQueue /\ q' = <<>> /\ events' = Tail(events)
  /\ alerter' = "dead" /\ phase' = Woken("alerts wait", "end")
  /\ UNCHANGED <<sessionFile, starts, expirer, sessionVars, alerts, sent, twice, doubted,
                 orphaned, lost>>

(* An exception ends the thread; its queue is not saved.                     *)
AlerterThrows ==
  /\ alerter = "send" /\ q # <<>>
  /\ alerter' = "dead" /\ q' = <<>> /\ phase' = Woken("alerts wait", "end")
  /\ orphaned' = orphaned \cup Items(alertFile) /\ lost' = lost \cup Items(q)
  /\ UNCHANGED <<sessionFile, alertFile, starts, expirer, sessionVars, events, alerts, sent,
                 twice, doubted>>

-----------------------------------------------------------------------------
Main ==
  \/ StartThreads \/ InitModules \/ Snapshot \/ WriteSessions \/ TellExpire \/ AwaitExpire
  \/ TellAlerts \/ AwaitAlerts \/ Exit
Expirer == Sweep \/ SweepEnd \/ ExpirerEnds
Alerter == LoadQueue \/ QueueEmpty \/ Timeout \/ TakeAlert \/ AlerterEnds

Next ==
  \/ Boot \/ ShutdownEvent \/ Main \/ Crash \/ Login \/ Logout
  \/ SweepStart \/ Expirer \/ Alert \/ Send \/ SendFails \/ Alerter \/ AlerterThrows

Spec == Init /\ [][Next]_vars

(* The threads go on; an alert that is tried again and again gets through.    *)
FairSpec ==
  /\ Spec /\ WF_vars(Main) /\ WF_vars(Expirer) /\ WF_vars(Alerter) /\ SF_vars(Send)

-----------------------------------------------------------------------------
TypeOK ==
  /\ sessionFile \subseteq 1..made /\ sessions \subseteq 1..made /\ snapshot \subseteq 1..made
  /\ phase \in Phase
  /\ expirer \in {"none", "wait", "sweep", "dead"}
  /\ alerter \in {"none", "start", "send", "wait", "dead"}
  /\ alertFile \in Seq(1..alerts) /\ q \in Seq(1..alerts) /\ events \in Seq(0..alerts)
  /\ starts \in 0..MaxStarts /\ made \in 0..MaxSessions /\ alerts \in 0..MaxAlerts
  /\ ended \subseteq 1..made /\ late \subseteq 1..made /\ unsaved \in BOOLEAN
  /\ sent \subseteq 1..alerts /\ twice \subseteq sent /\ doubted \subseteq sent
  /\ orphaned \subseteq 1..alerts /\ lost \subseteq 1..alerts

(* A session that was logged out or expired does not come back with a restart, *)
(* unless the process was not able to save, or the session went after         *)
(* saveToDisk had read the list and before the process was gone.             *)
LogoutIsFinal ==
  [][phase = "off" /\ phase' # "off" => unsaved \/ sessions' \cap ended \subseteq late]_vars

(* No alert disappears: it was delivered, or waits in the events, the queue or *)
(* the file, unless the process ended with it still an event, or its process  *)
(* or the thread died.                                                       *)
AlertsKept ==
  1..alerts \subseteq sent \cup lost \cup Items(events) \cup Items(q) \cup Items(alertFile)

(* An alert is delivered twice only if a delivery was reported as failed, or   *)
(* if the file that held it was left by a process that died, or whose alert   *)
(* thread did.                                                               *)
TwiceForAReason == twice \subseteq doubted \cup orphaned

-----------------------------------------------------------------------------
(* The daemon ends when it is told to, unless a thread had signalled before     *)
(* main waited for it.  (saveToDisk itself is the matter of ModuleCalls.)     *)
ShutdownEnds == phase = "save" ~> phase \in {"off", "hung"}

(* An alert in the queue goes out, or into the file.                         *)
AlertsGoOut == \A a \in 1..MaxAlerts : a \in Items(q) ~> a \notin Items(q)
=============================================================================
