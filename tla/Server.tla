-------------------------------- MODULE Server --------------------------------
(***************************************************************************)
(* A server script (bl_server, ps_server): run_server of _cli.py, with or   *)
(* without --reconnect, one _keep_connected task per upstream, and the way  *)
(* the server stops.                                                        *)
(*                                                                         *)
(* The node is seen from outside: establish_connection opens a connection   *)
(* to an upstream, then the cycle check accepts or refuses it (a BaseNode   *)
(* has no check: it accepts).  What an upstream would answer is door[u],    *)
(* and changes at any time.  A delay is the number of seconds before the    *)
(* random factor; the time that passes is not modelled.                     *)
(***************************************************************************)
EXTENDS Naturals, Sequences, FiniteSets

CONSTANTS
  Upstreams,   \* the addresses given with --upstream, in order
  Listens,     \* how many addresses are given with --listen
  FirstDelay,  \* FIRST_RECONNECT_DELAY
  MaxDelay,    \* MAX_RECONNECT_DELAY
  MaxChanges,  \* bound: how often an upstream changes, or a connection is lost
  WaitsCap     \* bound of a history: longer rows of waits look the same

Upstream == { Upstreams[i] : i \in DOMAIN Upstreams }

(* What happens to an attempt: the connection is accepted, cannot be opened,
   is refused for now (CycleCheckRefused.retryable), or is refused for good. *)
Door == {"open", "down", "unsure", "cycle"}

ASSUME ServerAssumption ==
  /\ Listens \in Nat /\ MaxChanges \in Nat /\ WaitsCap \in Nat
  /\ FirstDelay \in Nat \ {0} /\ MaxDelay \in Nat /\ FirstDelay <= MaxDelay
  /\ Upstreams \in Seq(Upstream)
  /\ \A i, j \in DOMAIN Upstreams : Upstreams[i] = Upstreams[j] => i = j

VARIABLES
  reconnect,   \* --reconnect
  stage,       \* progress of run_server
  tried,       \* without reconnect: how many upstreams it has connected to
  listened,    \* how many addresses the node listens on
  outcome,     \* why run_server ends: the exception that leaves its try block
  task,        \* task[u]: progress of _keep_connected, or of the attempt
  delay,       \* delay[u]: its delay
  first,       \* the upstreams for which first_attempt is true
  links,       \* links[u]: how many connections to u the node has
  door,        \* door[u]: what an attempt meets
  changes,     \* counter of the bound
  waits,       \* history: waits[u]: how many in a row, since a connection
  refused      \* history: what the last attempt that failed for u met

vars == <<reconnect, stage, tried, listened, outcome, task, delay, first, links,
          door, changes, waits, refused>>
keeper == <<delay, first, waits>>
world == <<door, changes, reconnect>>

Done == {"none", "abandoned", "raised", "cancelled"}

-----------------------------------------------------------------------------
Init ==
  /\ reconnect \in BOOLEAN
  /\ stage = IF reconnect THEN "listening" ELSE "connecting"
  /\ tried = 0 /\ listened = 0 /\ changes = 0
  /\ outcome = "none"
  /\ task = [u \in Upstream |-> "none"]
  /\ delay = [u \in Upstream |-> FirstDelay]
  /\ first = Upstream
  /\ links = [u \in Upstream |-> 0]
  /\ door \in [Upstream -> Door]
  /\ waits = [u \in Upstream |-> 0]
  /\ refused = [u \in Upstream |-> "none"]

(* The world: an upstream changes, and a connection is lost (its relay loop
   ends, after the node has forgotten the connection). *)
Change(u) ==
  /\ changes < MaxChanges /\ changes' = changes + 1
  /\ \E d \in Door : door' = [door EXCEPT ![u] = d]
  /\ UNCHANGED <<reconnect, stage, tried, listened, outcome, task, keeper, links,
                 refused>>

Lose(u) ==
  /\ changes < MaxChanges /\ changes' = changes + 1
  /\ task[u] = "connected" /\ links[u] > 0
  /\ links' = [links EXCEPT ![u] = @ - 1]
  /\ UNCHANGED <<reconnect, stage, tried, listened, outcome, task, keeper, door,
                 refused>>

-----------------------------------------------------------------------------
(* An attempt: establish_connection. *)

(* The connection is open; ps_server's node now runs the check. *)
Opens(u) ==
  /\ task[u] = "attempting" /\ door[u] # "down"
  /\ task' = [task EXCEPT ![u] = "checking"]
  /\ links' = [links EXCEPT ![u] = @ + 1]
  /\ UNCHANGED <<stage, tried, listened, outcome, keeper, world, refused>>

(* A failed attempt is seen by run_server itself without reconnect, and by
   _keep_connected otherwise. *)
Wait(u) ==
  /\ task' = [task EXCEPT ![u] = "sleeping"]
  /\ first' = first \ {u}
  /\ waits' = [waits EXCEPT ![u] = IF @ < WaitsCap THEN @ + 1 ELSE @]

(* Mutant of Fail: a final refusal that is not the first answer is retried. *)
FailRetried(u, d) ==
  /\ refused' = [refused EXCEPT ![u] = d]
  /\ IF ~ reconnect \/ (d = "cycle" /\ u \in first)
     THEN /\ task' = [task EXCEPT ![u] = "raised"]
          /\ UNCHANGED <<first, waits>>
     ELSE Wait(u)
  /\ UNCHANGED delay

Fail(u, d) ==
  /\ refused' = [refused EXCEPT ![u] = d]
  /\ IF reconnect /\ d # "cycle"
     THEN Wait(u)
     ELSE /\ task' = [task EXCEPT ![u] = IF reconnect /\ u \notin first
                                         THEN "abandoned" ELSE "raised"]
          /\ UNCHANGED <<first, waits>>
  /\ UNCHANGED delay

(* Mutant of Unreachable: the task returns when an upstream cannot be reached
   after it was connected. *)
UnreachableEnds(u) ==
  /\ task[u] = "attempting" /\ door[u] = "down"
  /\ IF reconnect /\ u \notin first
     THEN /\ task' = [task EXCEPT ![u] = "none"]
          /\ refused' = [refused EXCEPT ![u] = "down"]
          /\ UNCHANGED keeper
     ELSE Fail(u, "down")
  /\ UNCHANGED <<stage, tried, listened, outcome, links, world>>

Unreachable(u) ==
  /\ task[u] = "attempting" /\ door[u] = "down"
  /\ Fail(u, "down")
  /\ UNCHANGED <<stage, tried, listened, outcome, links, world>>

(* The check refuses, or the connection is lost during it; the node has closed
   the connection when the exception gets here. *)
Refused(u) ==
  /\ task[u] = "checking" /\ door[u] # "open"
  /\ links' = [links EXCEPT ![u] = @ - 1]
  /\ Fail(u, door[u])
  /\ UNCHANGED <<stage, tried, listened, outcome, world>>

(* Mutant of Accepted: the delay is not reset. *)
AcceptedLate(u) ==
  /\ task[u] = "checking" /\ door[u] = "open"
  /\ task' = [task EXCEPT ![u] = "connected"]
  /\ waits' = [waits EXCEPT ![u] = 0]
  /\ tried' = tried + (IF reconnect THEN 0 ELSE 1)
  /\ UNCHANGED <<stage, listened, outcome, delay, first, links, world, refused>>

Accepted(u) ==
  /\ task[u] = "checking" /\ door[u] = "open"
  /\ task' = [task EXCEPT ![u] = "connected"]
  /\ delay' = [delay EXCEPT ![u] = FirstDelay]
  /\ waits' = [waits EXCEPT ![u] = 0]
  /\ tried' = tried + (IF reconnect THEN 0 ELSE 1)
  /\ UNCHANGED <<stage, listened, outcome, first, links, world, refused>>

(* Mutant of Ended: wait_ended returns at once. *)
EndedEarly(u) ==
  /\ reconnect
  /\ task[u] = "connected"
  /\ Wait(u)
  /\ UNCHANGED <<stage, tried, listened, outcome, delay, links, world, refused>>

(* wait_ended returns in _keep_connected. *)
Ended(u) ==
  /\ reconnect
  /\ task[u] = "connected" /\ links[u] = 0
  /\ Wait(u)
  /\ UNCHANGED <<stage, tried, listened, outcome, delay, links, world, refused>>

(* Mutant of Wake: the delay has no maximum. *)
WakeUnbounded(u) ==
  /\ task[u] = "sleeping"
  /\ delay' = [delay EXCEPT ![u] = 2 * @]
  /\ task' = [task EXCEPT ![u] = "attempting"]
  /\ UNCHANGED <<stage, tried, listened, outcome, first, waits, links, world,
                 refused>>

(* sleep returns: the delay is doubled, and the next attempt begins. *)
Wake(u) ==
  /\ task[u] = "sleeping"
  /\ delay' = [delay EXCEPT ![u] = IF 2 * @ < MaxDelay THEN 2 * @ ELSE MaxDelay]
  /\ task' = [task EXCEPT ![u] = "attempting"]
  /\ UNCHANGED <<stage, tried, listened, outcome, first, waits, links, world,
                 refused>>

-----------------------------------------------------------------------------
(* run_server. *)

Stop(why) == stage' = "stopping" /\ outcome' = why

(* Without reconnect: one upstream after the other; any failure is the end. *)
ConnectNext ==
  /\ stage = "connecting" /\ tried < Len(Upstreams)
  /\ task[Upstreams[tried + 1]] = "none"
  /\ task' = [task EXCEPT ![Upstreams[tried + 1]] = "attempting"]
  /\ UNCHANGED <<stage, tried, listened, outcome, keeper, links, world, refused>>

ConnectedToAll ==
  /\ stage = "connecting" /\ tried = Len(Upstreams)
  /\ stage' = "listening"
  /\ UNCHANGED <<tried, listened, outcome, task, keeper, links, world, refused>>

(* _listen: the next address; it may be in use. *)
Listen ==
  /\ stage = "listening" /\ listened < Listens
  /\ \/ listened' = listened + 1 /\ UNCHANGED <<stage, outcome>>
     \/ Stop("listen_failed") /\ UNCHANGED listened
  /\ UNCHANGED <<tried, task, keeper, links, world, refused>>

Run ==
  /\ stage = "listening" /\ listened = Listens
  /\ stage' = "running"
  /\ task' = IF reconnect THEN [u \in Upstream |-> "attempting"] ELSE task
  /\ UNCHANGED <<tried, listened, outcome, keeper, links, world, refused>>

(* An attempt of run_server raises, or gather does for one of its tasks. *)
Raise(u) ==
  /\ stage \in {"connecting", "running"} /\ task[u] = "raised"
  /\ Stop("connect_failed")
  /\ UNCHANGED <<tried, listened, task, keeper, links, world, refused>>

(* Ctrl-C. *)
Interrupt ==
  /\ stage \in {"connecting", "listening", "running"}
  /\ Stop("interrupted")
  /\ UNCHANGED <<tried, listened, task, keeper, links, world, refused>>

(* In the finally block: a task ends by its cancellation, wherever it is, and
   does nothing before (see Keeper); what run_server itself was doing ended when
   it was interrupted.  A connection it leaves is closed with the node. *)
CancelTask(u) ==
  /\ stage = "stopping" /\ task[u] \notin Done
  /\ task' = [task EXCEPT ![u] = "cancelled"]
  /\ UNCHANGED <<stage, tried, listened, outcome, keeper, links, world, refused>>

(* When all tasks are done, node.close() closes what is left. *)
CloseNode ==
  /\ stage = "stopping" /\ \A u \in Upstream : task[u] \in Done
  /\ links' = [u \in Upstream |-> 0]
  /\ stage' = "exited"
  /\ UNCHANGED <<tried, listened, outcome, task, keeper, world, refused>>

-----------------------------------------------------------------------------
(* cancel() is called on all tasks before any of them runs again. *)
Keeper(u) ==
  \/ CancelTask(u)
  \/ /\ stage # "stopping"
     /\ \/ Opens(u) \/ Unreachable(u) \/ Refused(u) \/ Accepted(u)
        \/ Ended(u) \/ Wake(u)

Main ==
  \/ ConnectNext \/ ConnectedToAll \/ Listen \/ Run \/ CloseNode
  \/ \E u \in Upstream : Raise(u)

Next ==
  \/ Main \/ Interrupt
  \/ \E u \in Upstream : Keeper(u) \/ Change(u) \/ Lose(u)

(* Tasks that can run do; attempts and sleeps end; cancellation takes effect. *)
Spec ==
  /\ Init /\ [][Next]_vars
  /\ WF_vars(Main)
  /\ \A u \in Upstream : WF_vars(Keeper(u))

-----------------------------------------------------------------------------
(* Properties. *)

TypeOK ==
  /\ reconnect \in BOOLEAN
  /\ stage \in {"connecting", "listening", "running", "stopping", "exited"}
  /\ tried \in 0 .. Len(Upstreams) /\ listened \in 0 .. Listens
  /\ outcome \in {"none", "connect_failed", "listen_failed", "interrupted"}
  /\ task \in [Upstream -> Done \cup {"attempting", "checking", "connected",
                                     "sleeping"}]
  /\ delay \in [Upstream -> FirstDelay .. MaxDelay]
  /\ first \subseteq Upstream
  /\ links \in [Upstream -> 0 .. 2]
  /\ door \in [Upstream -> Door]
  /\ waits \in [Upstream -> 0 .. WaitsCap]
  /\ refused \in [Upstream -> Door \cup {"none"}]

(* FirstDelay, doubled n times. *)
Doubled[n \in Nat] == IF n = 0 THEN FirstDelay ELSE 2 * Doubled[n - 1]

(* The n-th wait in a row, since the start or the last connection, is twice as
   long as the one before, up to the maximum ("Reconnect delay", base-layer.md). *)
DelayIsExact ==
  \A u \in Upstream :
    task[u] = "sleeping" /\ waits[u] < WaitsCap =>
      LET plain == Doubled[waits[u] - 1]
      IN delay[u] = IF plain < MaxDelay THEN plain ELSE MaxDelay

(* The node never has two connections to one upstream, and has none while its
   keeper waits for the next attempt, or has given up (wait_ended returns only
   when the node has forgotten the connection). *)
OneConnectionEach ==
  \A u \in Upstream :
    /\ links[u] <= 1
    /\ task[u] \in {"sleeping", "abandoned", "raised"} => links[u] = 0

(* A final refusal is heeded and nothing else is: an upstream is given up after
   one, and not asked again; a server that keeps its upstreams stops by itself
   only if the first answer of one of them is a final refusal, or if it cannot
   listen; without --reconnect, if any attempt fails. *)
FinalMeansFinal ==
  /\ \A u \in Upstream :
       /\ task[u] = "abandoned" => refused[u] = "cycle"
       /\ refused[u] = "cycle" => task[u] \in {"abandoned", "raised"}
  /\ outcome = "connect_failed" =>
       \E u \in Upstream : /\ task[u] = "raised"
                           /\ reconnect => refused[u] = "cycle" /\ u \in first

(* A server that stops does exit; one that runs with --reconnect is, in the end,
   connected to each upstream that stays available and has not refused it for
   good, whatever the others do. *)
GetsThere ==
  <>[](/\ stage \in {"exited", "running"} /\ (outcome # "none" => stage = "exited")
       /\ reconnect /\ stage = "running" =>
            \A u \in Upstream :
              door[u] = "open" /\ task[u] # "abandoned" =>
                task[u] = "connected" /\ links[u] = 1)
=============================================================================
