------------------------------- MODULE Frame -------------------------------
(***************************************************************************)
(* One tick of a world, server or client: what its transport queued is     *)
(* dispatched to handlers, the systems of each phase run, and the runtime  *)
(* sends its update.  Handlers and systems are code of the program: while  *)
(* one runs it registers and removes others, edits the world, throws, and  *)
(* makes packets arrive, with a transport in the same process.             *)
(***************************************************************************)
EXTENDS Naturals, Sequences, SequencesExt, FiniteSets

CONSTANTS
  Kind,          \* what is dispatched: RPCs by id, streams by id, snapshots
  Validated,     \* kinds whose handlers may have a validator
  Handler,       \* registrations <<kind, number>>, made once and removed once
  SystemName,
  UsedPhase,     \* phases the program registers systems for
  MaxPackets, MaxSystems,   \* bounds: packets that arrive, systems registered
  MaxFailures               \* bound: systems and transports that throw

ASSUME FrameAssumption ==
  /\ Validated \subseteq Kind
  /\ Handler \subseteq Kind \X Nat
  /\ UsedPhase \subseteq {"preUpdate", "update", "postUpdate", "network"}
  /\ {MaxPackets, MaxSystems, MaxFailures} \subseteq Nat

Phases == <<"preUpdate", "update", "postUpdate", "network">>
Phase == ToSet(Phases)

VARIABLES
  inbox,     \* packets in the queue of the transport, as numbers
  batch,     \* packets taken from it and not dispatched yet
  handlers,  \* registrations, per kind
  systems,   \* systems [name, serial], per phase
  stage,     \* 0: no tick; 1: draining; 1 + i: in phase i
  todo,      \* callbacks still to be called in this dispatch or phase
  running,   \* is a callback running?
  started,   \* was start() called?
  dirty,     \* does the world have marks that no update has sent?
  failures, serial,   \* what the bounds count
  arrived, handled,   \* history: kinds of all packets; packets dispatched
  since, until,       \* history: packets dispatched when a handler was
                      \* registered, and when it was removed
  offered,            \* history: packets that each handler was called with
  ran                 \* history: names that ran in this phase

transport == <<inbox, batch, arrived, handled>>
tables == <<handlers, systems, serial, since, until>>
history == <<offered, ran>>
vars == <<transport, tables, history, stage, todo, running, started, dirty, failures>>

NotYet == MaxPackets + 1
Idle == stage = 0
Draining == stage = 1
Final == Len(Phases) + 1

\* Program code runs between ticks and in callbacks.
ProgramRuns == Idle \/ running

Init ==
  /\ inbox = << >> /\ batch = << >> /\ arrived = << >> /\ handled = << >>
  /\ handlers = [k \in Kind |-> << >>]
  /\ systems = [p \in Phase |-> << >>]
  /\ since = [h \in Handler |-> NotYet] /\ until = [h \in Handler |-> NotYet]
  /\ offered = [h \in Handler |-> << >>]
  /\ ran = << >>
  /\ stage = 0 /\ todo = << >> /\ running = FALSE
  /\ started = FALSE /\ dirty = FALSE /\ failures = 0 /\ serial = 0

-----------------------------------------------------------------------------
(* What the program does.                                                  *)

\* The queue of the world's transport takes what the inner transport delivers.
Arrive(k) ==
  /\ ProgramRuns
  /\ Len(arrived) < MaxPackets
  /\ arrived' = Append(arrived, k)
  /\ inbox' = Append(inbox, Len(arrived) + 1)
  /\ UNCHANGED <<batch, handled, tables, history, stage, todo, running, started,
                 dirty, failures>>

\* Mutant: a dispatch under way sees the new handler.
RegisterLive(h) ==
  /\ ProgramRuns
  /\ since[h] = NotYet
  /\ since' = [since EXCEPT ![h] = Len(handled)]
  /\ handlers' = [handlers EXCEPT ![h[1]] = Append(@, h)]
  /\ todo' = IF Draining /\ arrived[handled[Len(handled)]] = h[1] THEN Append(todo, h) ELSE todo
  /\ UNCHANGED <<transport, history, systems, serial, until, stage, running, started,
                 dirty, failures>>

Register(h) ==
  /\ ProgramRuns
  /\ since[h] = NotYet
  /\ since' = [since EXCEPT ![h] = Len(handled)]
  /\ handlers' = [handlers EXCEPT ![h[1]] = Append(@, h)]
  /\ UNCHANGED <<transport, history, systems, serial, until, stage, todo, running,
                 started, dirty, failures>>

\* The function that add() returned filters its entry, which occurs once.
Unregister(h) ==
  /\ ProgramRuns
  /\ \E i \in 1..Len(handlers[h[1]]) :
       /\ handlers[h[1]][i] = h
       /\ handlers' = [handlers EXCEPT ![h[1]] = RemoveAt(@, i)]
  /\ until' = [until EXCEPT ![h] = Len(handled)]
  /\ UNCHANGED <<transport, history, systems, serial, since, stage, todo, running,
                 started, dirty, failures>>

\* Mutant: a phase under way sees the new system.
AddSystemLive(p, n) ==
  LET entry == [name |-> n, serial |-> serial]
  IN  /\ ProgramRuns
      /\ serial < MaxSystems
      /\ ~\E i \in 1..Len(systems[p]) : systems[p][i].name = n
      /\ serial' = serial + 1
      /\ systems' = [systems EXCEPT ![p] = Append(@, entry)]
      /\ todo' = IF stage > 1 /\ Phases[stage - 1] = p THEN Append(todo, entry) ELSE todo
      /\ UNCHANGED <<transport, history, handlers, since, until, stage, running,
                     started, dirty, failures>>

\* A name that the phase has already is an error.
AddSystem(p, n) ==
  /\ ProgramRuns
  /\ serial < MaxSystems
  /\ ~\E i \in 1..Len(systems[p]) : systems[p][i].name = n
  /\ serial' = serial + 1
  /\ systems' = [systems EXCEPT ![p] = Append(@, [name |-> n, serial |-> serial])]
  /\ UNCHANGED <<transport, history, handlers, since, until, stage, todo, running,
                 started, dirty, failures>>

RemoveSystem(p) ==
  /\ ProgramRuns
  /\ \E i \in 1..Len(systems[p]) :
       systems' = [systems EXCEPT ![p] = RemoveAt(@, i)]
  /\ UNCHANGED <<transport, history, handlers, serial, since, until, stage, todo,
                 running, started, dirty, failures>>

EditWorld ==
  /\ ProgramRuns
  /\ dirty' = TRUE
  /\ UNCHANGED <<transport, tables, history, stage, todo, running, started, failures>>

-----------------------------------------------------------------------------
(* What a tick does.                                                       *)

\* Mutant: packets are not taken out of the queue.
TakeQueueCopied ==
  /\ batch' = inbox
  /\ UNCHANGED inbox

\* drain() takes what is queued now; what arrives meanwhile waits.
TakeQueue ==
  /\ batch' = inbox
  /\ inbox' = << >>

\* Mutant: a world without packets does not tick.
BeginTickWithPackets ==
  /\ Idle /\ inbox # << >>
  /\ UNCHANGED <<tables, history, todo, running, dirty, arrived, handled, failures>>
  /\ started' = TRUE /\ stage' = 1
  /\ TakeQueue

\* The first tick calls start(); when that throws, the next tick tries again.
BeginTick ==
  /\ Idle
  /\ UNCHANGED <<tables, history, todo, running, dirty, arrived, handled>>
  /\ \/ /\ started' = TRUE /\ stage' = 1
        /\ TakeQueue
        /\ UNCHANGED failures
     \/ /\ ~started /\ failures < MaxFailures
        /\ failures' = failures + 1
        /\ UNCHANGED <<inbox, batch, started, stage>>

\* dispatch(), dispatchCommandStream(), #notifySnapshot(): the handlers
\* registered now.
Dispatch ==
  /\ Draining /\ ~running /\ todo = << >> /\ batch # << >>
  /\ todo' = handlers[arrived[Head(batch)]]
  /\ batch' = Tail(batch)
  /\ handled' = Append(handled, Head(batch))
  /\ UNCHANGED <<inbox, arrived, tables, history, stage, running, started, dirty, failures>>

\* The next callback is called; a validator may keep the handler from running.
Call ==
  /\ ~Idle /\ ~running /\ todo # << >>
  /\ todo' = Tail(todo)
  /\ IF Draining
     THEN /\ running' \in IF arrived[handled[Len(handled)]] \in Validated THEN BOOLEAN ELSE {TRUE}
          /\ offered' = [offered EXCEPT ![Head(todo)] = Append(@, Len(handled))]
          /\ UNCHANGED ran
     ELSE /\ running' = TRUE
          /\ ran' = Append(ran, Head(todo).name)
          /\ UNCHANGED offered
  /\ UNCHANGED <<transport, tables, stage, started, dirty, failures>>

\* A callback returns.  A handler that throws is caught: the others go on.
Return ==
  /\ running /\ running' = FALSE
  /\ UNCHANGED <<transport, tables, history, stage, todo, started, dirty, failures>>

\* Mutant: packets left over from the tick before are dropped.
AbortTickDroppingQueue ==
  /\ running /\ stage > 1
  /\ failures < MaxFailures
  /\ failures' = failures + 1
  /\ running' = FALSE
  /\ stage' = 0 /\ todo' = << >>
  /\ inbox' = << >> /\ ran' = << >>
  /\ UNCHANGED <<batch, arrived, handled, tables, offered, started, dirty>>

\* A system throws: the tick ends there, without later phases and the update.
AbortTick ==
  /\ running /\ stage > 1
  /\ failures < MaxFailures
  /\ failures' = failures + 1
  /\ running' = FALSE
  /\ stage' = 0 /\ todo' = << >> /\ ran' = << >>
  /\ UNCHANGED <<transport, tables, offered, started, dirty>>

\* After the packets the first phase, after each phase the next one.
NextPhase ==
  /\ ~Idle /\ stage < Final /\ ~running /\ todo = << >>
  /\ Draining => batch = << >>
  /\ stage' = stage + 1
  /\ todo' = systems[Phases[stage]]
  /\ ran' = << >>
  /\ UNCHANGED <<transport, tables, offered, running, started, dirty, failures>>

\* runtime.update() ends the tick; it may throw, and then no mark is cleared.
Update ==
  /\ stage = Final /\ ~running /\ todo = << >>
  /\ stage' = 0 /\ ran' = << >>
  /\ \/ dirty' = FALSE /\ UNCHANGED failures
     \/ dirty /\ failures < MaxFailures /\ failures' = failures + 1 /\ UNCHANGED dirty
  /\ UNCHANGED <<transport, tables, offered, todo, running, started>>

Step == Dispatch \/ Call \/ Return \/ NextPhase \/ Update

Next ==
  \/ \E k \in Kind : Arrive(k)
  \/ \E h \in Handler : Register(h) \/ Unregister(h)
  \/ \E p \in UsedPhase : RemoveSystem(p) \/ \E n \in SystemName : AddSystem(p, n)
  \/ EditWorld \/ BeginTick \/ Step \/ AbortTick

Spec == Init /\ [][Next]_vars

\* The program goes on calling tick(), and its callbacks come to an end.
FairSpec == Spec /\ WF_vars(BeginTick) /\ WF_vars(Step)

-----------------------------------------------------------------------------

\* No packet is lost, repeated or overtaken on its way through the queue and
\* the batch, though handlers cause others to arrive and systems end ticks.
PacketsInOrder == handled \o batch \o inbox = [i \in 1..Len(arrived) |-> i]

\* "Handlers run from a stable snapshot so registration changes during dispatch
\* affect later packets only": a handler is called exactly once for each packet
\* whose dispatch began between its registration and its removal, whatever the
\* other handlers do or throw.
CalledOncePerPacket ==
  \A h \in Handler :
    LET due == {i \in 1..Len(handled) :
                  arrived[handled[i]] = h[1] /\ since[h] < i /\ i <= until[h]}
        underWay == IF Draining /\ todo # << >> THEN {Len(handled)} ELSE {}
    IN  /\ IsInjective(offered[h])
        /\ due \ underWay \subseteq ToSet(offered[h])
        /\ ToSet(offered[h]) \subseteq due

\* "systems added mid-phase start on the next tick": within a tick no name runs
\* twice in a phase, also if a system removes itself and is added again.
SystemsRunOnce == IsInjective(ran)

\* Every packet is dispatched in the end, even if systems keep ending ticks.
PacketsDispatched == \A i \in 1..MaxPackets : Len(arrived) >= i ~> Len(handled) >= i

\* Edits are sent in the end, also those of ticks that were cut short.
EditsSent == dirty ~> ~dirty
=============================================================================
