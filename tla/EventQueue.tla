----------------------------- MODULE EventQueue -----------------------------
(***************************************************************************)
(* Package des: a discrete event simulator.  Modules send each other, or   *)
(* themselves, messages with a delay; the simulator delivers them in order *)
(* of arrival, and those of one instant in the order in which they were    *)
(* scheduled.  The handler of a message returns the messages to schedule   *)
(* next.  The heap is a set, of which Pop takes the least element.         *)
(*                                                                         *)
(* The main programs run the simulator for one reporting interval after    *)
(* the other and look at the modules in between.                           *)
(***************************************************************************)
EXTENDS Integers, Sequences, FiniteSets

CONSTANTS
  Modules,
  Payload,
  Delay,            \* Delay[s][p]: how long a message from s to p # s takes
  ReportInterval,
  Duration          \* how long main runs the simulator

ASSUME EventQueueAssumption ==
  /\ Delay \in [Modules -> [Modules -> Nat]]
  /\ ReportInterval \in Nat \ {0}
  /\ Duration \in Nat

VARIABLES
  time, mq, seq,    \* Simulator
  cur, running      \* main: is RunUntil(cur) running, or has it returned?

simulator == <<time, mq, seq>>
driver == <<cur, running>>

(* Messages that a module may return: to others with the delay of the link, *)
(* to itself with any.                                                      *)
OutgoingMessage(s) ==
  {o \in [payload : Payload, to : Modules, delay : Nat] :
     o.to # s => o.delay = Delay[s][o.to]}

-----------------------------------------------------------------------------
LessBySeq(m, n) == m.seq < n.seq   \* mutant of Less: the order of scheduling alone

LessIfSooner(m, n) ==   \* mutant of Less: the last scheduled first
  m.arrival < n.arrival \/ (m.arrival = n.arrival /\ m.seq > n.seq)

Less(m, n) == m.arrival < n.arrival \/ (m.arrival = n.arrival /\ m.seq < n.seq)

(* ScheduleMessage for each message of outs, which from returns at time t.  *)
Scheduled(from, outs, t) ==
  {[arrival |-> t + outs[i].delay, seq |-> seq + i - 1,
    from |-> from, to |-> outs[i].to, payload |-> outs[i].payload] : i \in DOMAIN outs}

IsNext(m) == m \in mq /\ \A n \in mq \ {m} : Less(m, n)

(* deliverNextMessage, when the handler of m returns outs.                  *)
Deliver(m, outs) ==
  /\ IsNext(m)
  /\ time' = m.arrival
  /\ mq' = (mq \ {m}) \cup Scheduled(m.to, outs, m.arrival)
  /\ seq' = seq + Len(outs)

(* The loop of RunUntil goes on.                                            *)
Delivers == running /\ mq # {} /\ time <= cur

Return ==
  /\ running
  /\ mq = {} \/ time > cur
  /\ running' = FALSE
  /\ UNCHANGED <<simulator, cur>>

RunUntil ==
  /\ ~running
  /\ cur + ReportInterval < Duration
  /\ cur' = cur + ReportInterval
  /\ running' = TRUE
  /\ UNCHANGED simulator

(* The messages that modules scheduled for themselves before main runs it.  *)
InitSimulator(first) ==
  /\ time = 0
  /\ mq = first
  /\ seq = Cardinality(first)
  /\ cur = 0 /\ running = TRUE

-----------------------------------------------------------------------------
(* The simulator alone, with handlers that return anything.                 *)
QueueInit ==
  /\ time = 0 /\ mq = {} /\ seq = 0
  /\ cur = 0 /\ running = TRUE

(* newServers, before the simulator runs.                                   *)
Prepare(s, delay, payload) ==
  /\ time = 0 /\ cur = 0 /\ running
  /\ mq' = mq \cup Scheduled(s, <<[payload |-> payload, to |-> s, delay |-> delay]>>, 0)
  /\ seq' = seq + 1
  /\ UNCHANGED <<time, driver>>

QueueStep(m) ==
  /\ Delivers
  /\ \E outs \in Seq(OutgoingMessage(m.to)) : Deliver(m, outs)
  /\ UNCHANGED driver

QueueNext ==
  \/ \E s \in Modules, delay \in Nat, payload \in Payload : Prepare(s, delay, payload)
  \/ \E m \in mq : QueueStep(m)
  \/ Return \/ RunUntil

QueueSpec == QueueInit /\ [][QueueNext]_<<simulator, driver>>

-----------------------------------------------------------------------------
(* RunUntil returns with nothing left to deliver that was due by then, so   *)
(* the reports of main are about everything that happened up to cur; and    *)
(* time never runs backwards: deliverNextMessage panics if it does.         *)
EventsInTime ==
  /\ \A m \in mq : time <= m.arrival
  /\ ~running => \A m \in mq : cur < m.arrival

(* Of two messages on a link the one that was sent first is delivered       *)
(* first, also when both arrive at once.                                    *)
InOrder ==
  \A m, n \in mq : m.from = n.from /\ m.to = n.to /\ m.from # m.to /\ m.seq < n.seq => Less(m, n)
=============================================================================
