---------------------------- MODULE FrameProofs ----------------------------
(***************************************************************************)
(* For all values of the constants: packets reach the handlers in order    *)
(* and once, a handler is called once for each packet it is due, and no    *)
(* system runs twice in a phase.                                           *)
(*                                                                         *)
(* FrameInv is the inductive invariant.  It says exactly which packets a   *)
(* handler was called with, which callbacks may still be waiting, and how  *)
(* registrations and the tables of handlers and systems belong together.   *)
(***************************************************************************)
EXTENDS Frame, SequenceTheorems, TLAPS

Entry == [name : SystemName, serial : Nat]

FrameTypeOK ==
  /\ arrived \in Seq(Kind) /\ Len(arrived) <= MaxPackets
  /\ handled \in Seq(Nat) /\ batch \in Seq(Nat) /\ inbox \in Seq(Nat)
  /\ handlers \in [Kind -> Seq(Handler)]
  /\ systems \in [Phase -> Seq(Entry)]
  /\ since \in [Handler -> Nat] /\ until \in [Handler -> Nat]
  /\ offered \in [Handler -> Seq(Nat)]
  /\ ran \in Seq(SystemName)
  /\ serial \in Nat /\ stage \in 0..5

\* What may wait to be called, and that nothing is left over between ticks.
WaitingFits ==
  /\ stage = 0 => todo = << >>
  /\ stage = 1 => todo \in Seq(Handler)
  /\ stage > 1 => todo \in Seq(Entry)
  /\ stage # 1 => batch = << >>
  /\ stage \in {0, 1} => ran = << >>

InTable(h) == \E i \in 1..Len(handlers[h[1]]) : handlers[h[1]][i] = h

\* A handler is in its table, once, from its registration to its removal.
TablesMatchHistory ==
  /\ \A k \in Kind : \A i, j \in 1..Len(handlers[k]) :
       /\ handlers[k][i][1] = k
       /\ handlers[k][i] = handlers[k][j] => i = j
  /\ \A h \in Handler :
       /\ since[h] = NotYet => until[h] = NotYet
       /\ since[h] = NotYet \/ since[h] <= Len(handled)
       /\ until[h] = NotYet \/ until[h] <= Len(handled)
       /\ InTable(h) <=> since[h] # NotYet /\ until[h] = NotYet

\* The packets a handler is to be called with, the one it still waits for, and
\* those that leaves.
Due(h) == {i \in 1..Len(handled) :
             arrived[handled[i]] = h[1] /\ since[h] < i /\ i <= until[h]}
Waits(h) == stage = 1 /\ \E i \in 1..Len(todo) : todo[i] = h
Offered(h, i) == \E j \in 1..Len(offered[h]) : offered[h][j] = i

OfferedExactly ==
  /\ stage = 1 => \A i, j \in 1..Len(todo) : todo[i] = todo[j] => i = j
  /\ \A h \in Handler :
       /\ Waits(h) => Len(handled) \in Due(h)
       /\ \A i, j \in 1..Len(offered[h]) : offered[h][i] = offered[h][j] => i = j
       /\ \A i \in Nat : Offered(h, i) <=> i \in Due(h) /\ ~(Waits(h) /\ i = Len(handled))

\* Systems of a phase have different names, also those that still have to run.
SystemNamesDiffer ==
  /\ \A p \in Phase : \A i, j \in 1..Len(systems[p]) :
       systems[p][i].name = systems[p][j].name => i = j
  /\ \A i, j \in 1..Len(ran) : ran[i] = ran[j] => i = j
  /\ stage > 1 => \A i \in 1..Len(todo) :
       /\ \A j \in 1..Len(todo) : todo[i].name = todo[j].name => i = j
       /\ \A j \in 1..Len(ran) : todo[i].name # ran[j]

FrameInv ==
  /\ FrameTypeOK
  /\ WaitingFits
  /\ PacketsInOrder
  /\ TablesMatchHistory
  /\ OfferedExactly
  /\ SystemNamesDiffer

-----------------------------------------------------------------------------
\* A sequence without the element at place i, as filter leaves it.
LEMMA RemoveAtFacts ==
  ASSUME NEW S, NEW s \in Seq(S), NEW i \in 1..Len(s)
  PROVE  /\ RemoveAt(s, i) \in Seq(S)
         /\ Len(RemoveAt(s, i)) = Len(s) - 1
         /\ \A j \in 1..Len(s) - 1 :
              RemoveAt(s, i)[j] = IF j < i THEN s[j] ELSE s[j + 1]
<1> DEFINE front == SubSeq(s, 1, i - 1)
           back  == SubSeq(s, i + 1, Len(s))
<1>1. /\ front \in Seq(S) /\ Len(front) = i - 1
      /\ \A j \in 1..i - 1 : front[j] = s[j]
  BY SubSeqProperties
<1>2. /\ back \in Seq(S) /\ Len(back) = Len(s) - i
      /\ \A j \in 1..Len(s) - i : back[j] = s[j + i]
  BY SubSeqProperties
<1>3. /\ front \o back \in Seq(S)
      /\ Len(front \o back) = Len(s) - 1
      /\ \A j \in 1..Len(s) - 1 :
           (front \o back)[j] = IF j < i THEN s[j] ELSE s[j + 1]
  <2> HIDE DEF front, back
  <2>1. /\ front \o back \in Seq(S)
        /\ Len(front \o back) = Len(front) + Len(back)
        /\ \A j \in 1..Len(front) + Len(back) :
             (front \o back)[j] = IF j <= Len(front) THEN front[j] ELSE back[j - Len(front)]
    BY <1>1, <1>2, ConcatProperties
  <2> QED  BY <2>1, <1>1, <1>2
<1> QED  BY <1>3 DEF RemoveAt

\* The phases of a tick, by name and by number.
LEMMA PhaseFacts ==
  /\ Phase = {"preUpdate", "update", "postUpdate", "network"}
  /\ Final = 5
  /\ \A i \in 1..4 : Phases[i] \in Phase
BY DEF Phase, Phases, Final, ToSet

\* The bound on packets, and what lies beyond it.
LEMMA BoundFacts ==
  MaxPackets \in Nat /\ NotYet \in Nat /\ NotYet > MaxPackets
BY FrameAssumption DEF NotYet

\* No handler has been registered and no packet has arrived.
LEMMA InitEstablishesFrameInv ==
  Init => FrameInv
<1> SUFFICES ASSUME Init PROVE FrameInv  OBVIOUS
<1> USE FrameAssumption, PhaseFacts
<1>1. FrameTypeOK
  <2>1. << >> \in Seq(Kind) /\ << >> \in Seq(Nat) /\ << >> \in Seq(Handler)
        /\ << >> \in Seq(Entry) /\ << >> \in Seq(SystemName)
    BY EmptySeq
  <2>2. /\ arrived \in Seq(Kind) /\ Len(arrived) <= MaxPackets
        /\ handled \in Seq(Nat) /\ batch \in Seq(Nat) /\ inbox \in Seq(Nat)
        /\ ran \in Seq(SystemName)
    BY <2>1, BoundFacts DEF Init
  <2>3. handlers \in [Kind -> Seq(Handler)] BY <2>1 DEF Init
  <2>4. systems \in [Phase -> Seq(Entry)] BY <2>1 DEF Init
  <2>5. since \in [Handler -> Nat] /\ until \in [Handler -> Nat] BY BoundFacts DEF Init
  <2>6. offered \in [Handler -> Seq(Nat)] BY <2>1 DEF Init
  <2>7. serial \in Nat /\ stage \in 0..5 BY DEF Init
  <2> QED  BY <2>2, <2>3, <2>4, <2>5, <2>6, <2>7 DEF FrameTypeOK
<1>2. WaitingFits  BY DEF Init, WaitingFits
<1>3. PacketsInOrder  BY DEF Init, PacketsInOrder
<1>4. TablesMatchHistory
  BY DEF Init, TablesMatchHistory, InTable, NotYet
<1>5. OfferedExactly
  BY DEF Init, OfferedExactly, Offered, Waits, Due, NotYet
<1>6. SystemNamesDiffer  BY DEF Init, SystemNamesDiffer
<1> QED  BY <1>1, <1>2, <1>3, <1>4, <1>5, <1>6 DEF FrameInv

-----------------------------------------------------------------------------
LEMMA IntervalLength ==
  ASSUME NEW m \in Nat, NEW n \in Nat, 1..m = 1..n
  PROVE  m = n
<1>1. m > 0 => m \in 1..m  OBVIOUS
<1>2. n > 0 => n \in 1..n  OBVIOUS
<1> QED  BY <1>1, <1>2

\* Where each packet is, by number.
LEMMA OrderFacts ==
  ASSUME FrameTypeOK, PacketsInOrder
  PROVE  /\ \A i \in 1..Len(handled) : handled[i] = i
         /\ Len(handled) + Len(batch) + Len(inbox) = Len(arrived)
         /\ batch # << >> => Head(batch) = Len(handled) + 1 /\ Len(handled) < Len(arrived)
<1> DEFINE front == handled \o batch
           all   == front \o inbox
           n     == Len(arrived)
<1>1. handled \in Seq(Nat) /\ batch \in Seq(Nat) /\ inbox \in Seq(Nat)
  BY DEF FrameTypeOK
<1>2. Len(handled) \in Nat /\ Len(batch) \in Nat /\ Len(inbox) \in Nat
  BY <1>1, LenProperties
<1>3. n \in Nat  BY LenProperties DEF FrameTypeOK
<1>4. all = [i \in 1..n |-> i]  BY DEF PacketsInOrder
<1> HIDE DEF n
<1>5. /\ front \in Seq(Nat) /\ Len(front) = Len(handled) + Len(batch)
      /\ \A i \in 1..Len(handled) + Len(batch) :
           front[i] = IF i <= Len(handled) THEN handled[i] ELSE batch[i - Len(handled)]
  BY <1>1, ConcatProperties
<1>5a. front \in Seq(Nat)  BY <1>5
<1> HIDE DEF front
<1>6. /\ all \in Seq(Nat) /\ Len(all) = Len(front) + Len(inbox)
      /\ \A i \in 1..Len(front) + Len(inbox) :
           all[i] = IF i <= Len(front) THEN front[i] ELSE inbox[i - Len(front)]
  BY <1>1, <1>5a, ConcatProperties
<1> HIDE DEF all
<1>7. Len(all) = n /\ \A i \in 1..n : all[i] = i
  <2>1. DOMAIN all = 1..Len(all) /\ Len(all) \in Nat  BY <1>6, LenProperties
  <2>2. 1..Len(all) = 1..n  BY <2>1, <1>4
  <2> QED  BY <2>1, <2>2, <1>3, <1>4, IntervalLength
<1>8. Len(handled) + Len(batch) + Len(inbox) = n  BY <1>5, <1>6, <1>7
<1>9. ASSUME NEW i \in 1..Len(front) PROVE front[i] = i
  <2>1. i \in 1..Len(front) + Len(inbox) /\ i \in 1..n  BY <1>2, <1>5, <1>8
  <2> QED  BY <2>1, <1>6, <1>7
<1>10. ASSUME NEW i \in 1..Len(handled) PROVE handled[i] = i
  <2>1. /\ i \in 1..Len(handled) + Len(batch) /\ i \in 1..Len(front)
        /\ i <= Len(handled)
    BY <1>2, <1>5
  <2> QED  BY <2>1, <1>5, <1>9
<1>11. ASSUME batch # << >> PROVE Head(batch) = Len(handled) + 1 /\ Len(handled) < n
  <2>1. Len(batch) > 0  BY <1>1, <1>2, <1>11, EmptySeq
  <2>2. /\ Len(handled) + 1 \in 1..Len(front)
        /\ Len(handled) + 1 \in 1..Len(handled) + Len(batch)
    BY <2>1, <1>2, <1>5
  <2>3. front[Len(handled) + 1] = batch[(Len(handled) + 1) - Len(handled)]
    BY <2>2, <1>2, <1>5
  <2>4. batch[1] = Len(handled) + 1  BY <2>2, <2>3, <1>2, <1>9
  <2> QED  BY <2>1, <2>4, <1>2, <1>8
<1> QED  BY <1>8, <1>10, <1>11 DEF n

-----------------------------------------------------------------------------
\* Every step keeps the types, and what may wait to be called.
LEMMA TypesPreserved ==
  ASSUME FrameInv, [Next]_vars
  PROVE  FrameTypeOK' /\ WaitingFits'
<1> USE BoundFacts
<1> USE DEF FrameInv, FrameTypeOK, WaitingFits, vars, transport, tables, history,
            Idle, Draining
<1>1. ASSUME NEW k \in Kind, Arrive(k) PROVE FrameTypeOK' /\ WaitingFits'
  <2>1. Append(arrived, k) \in Seq(Kind) /\ Len(Append(arrived, k)) = Len(arrived) + 1
    BY AppendProperties
  <2>2. Append(inbox, Len(arrived) + 1) \in Seq(Nat)  BY AppendProperties
  <2>3. FrameTypeOK'  BY <1>1, <2>1, <2>2, LenProperties DEF Arrive
  <2>4. WaitingFits'  BY <1>1, <2>1, <2>2 DEF Arrive
  <2> QED  BY <2>3, <2>4
<1>2. ASSUME NEW h \in Handler, Register(h) PROVE FrameTypeOK' /\ WaitingFits'
  <2>1. h[1] \in Kind  BY FrameAssumption
  <2>2. Append(handlers[h[1]], h) \in Seq(Handler)  BY <2>1, AppendProperties
  <2>3. Len(handled) \in Nat  BY LenProperties
  <2> QED  BY <1>2, <2>1, <2>2, <2>3 DEF Register
<1>3. ASSUME NEW h \in Handler, Unregister(h) PROVE FrameTypeOK' /\ WaitingFits'
  <2>1. h[1] \in Kind  BY FrameAssumption
  <2>2. \A i \in 1..Len(handlers[h[1]]) : RemoveAt(handlers[h[1]], i) \in Seq(Handler)
    BY <2>1, RemoveAtFacts
  <2>3. Len(handled) \in Nat  BY LenProperties
  <2> QED  BY <1>3, <2>1, <2>2, <2>3 DEF Unregister
<1>4. ASSUME NEW p \in UsedPhase, NEW n \in SystemName, AddSystem(p, n)
      PROVE  FrameTypeOK' /\ WaitingFits'
  <2>1. p \in Phase  BY FrameAssumption, PhaseFacts
  <2>2. Append(systems[p], [name |-> n, serial |-> serial]) \in Seq(Entry)
    BY <2>1, AppendProperties DEF Entry
  <2>3. FrameTypeOK'  BY <1>4, <2>1, <2>2 DEF AddSystem
  <2>4. WaitingFits'  BY <1>4, <2>1, <2>2 DEF AddSystem
  <2> QED  BY <2>3, <2>4
<1>5. ASSUME NEW p \in UsedPhase, RemoveSystem(p) PROVE FrameTypeOK' /\ WaitingFits'
  <2>1. p \in Phase  BY FrameAssumption, PhaseFacts
  <2>2. \A i \in 1..Len(systems[p]) : RemoveAt(systems[p], i) \in Seq(Entry)
    BY <2>1, RemoveAtFacts
  <2>3. FrameTypeOK'  BY <1>5, <2>1, <2>2 DEF RemoveSystem
  <2>4. WaitingFits'  BY <1>5, <2>1, <2>2 DEF RemoveSystem
  <2> QED  BY <2>3, <2>4
<1>6. CASE EditWorld  BY <1>6 DEF EditWorld
<1>7. CASE BeginTick
  <2>1. << >> \in Seq(Nat) /\ << >> \in Seq(Handler)  BY EmptySeq
  <2>2. CASE stage' = 1 /\ TakeQueue  BY <1>7, <2>1, <2>2 DEF BeginTick, TakeQueue
  <2>3. CASE UNCHANGED <<inbox, batch, stage>>  BY <1>7, <2>3 DEF BeginTick
  <2> QED  BY <1>7, <2>2, <2>3 DEF BeginTick
<1>8. CASE Dispatch
  <2>1. /\ Head(batch) \in Nat /\ Tail(batch) \in Seq(Nat)
        /\ Append(handled, Head(batch)) \in Seq(Nat)
    BY <1>8, HeadTailProperties, AppendProperties DEF Dispatch
  <2>2. arrived[Head(batch)] \in Kind
    BY <1>8, OrderFacts, LenProperties DEF Dispatch
  <2>3. todo' \in Seq(Handler)  BY <1>8, <2>2 DEF Dispatch
  <2> QED  BY <1>8, <2>1, <2>3 DEF Dispatch
<1>9. CASE Call
  <2>1. CASE stage = 1
    <3>1. Head(todo) \in Handler /\ Tail(todo) \in Seq(Handler)
      BY <1>9, <2>1, HeadTailProperties DEF Call
    <3>2. Len(handled) \in Nat  BY LenProperties
    <3>3. Append(offered[Head(todo)], Len(handled)) \in Seq(Nat)
      BY <3>1, <3>2, AppendProperties
    <3>4. /\ todo' = Tail(todo)
          /\ offered' = [offered EXCEPT ![Head(todo)] = Append(@, Len(handled))]
          /\ UNCHANGED <<transport, tables, ran, stage>>
      BY <1>9, <2>1 DEF Call
    <3>5. offered' \in [Handler -> Seq(Nat)]  BY <3>1, <3>3, <3>4
    <3>6. /\ arrived' = arrived /\ inbox' = inbox /\ batch' = batch
          /\ handled' = handled /\ handlers' = handlers /\ systems' = systems
          /\ since' = since /\ until' = until /\ serial' = serial
          /\ ran' = ran /\ stage' = stage
      BY <3>4
    <3>7. FrameTypeOK'  BY <1>9, <2>1, <3>1, <3>4, <3>5, <3>6 DEF Call
    <3>8. WaitingFits'  BY <2>1, <3>1, <3>4, <3>6
    <3> QED  BY <3>7, <3>8
  <2>2. CASE stage # 1
    <3>1. Head(todo) \in Entry /\ Tail(todo) \in Seq(Entry)
      BY <1>9, <2>2, HeadTailProperties DEF Call
    <3>2. Append(ran, Head(todo).name) \in Seq(SystemName)
      BY <3>1, AppendProperties DEF Entry
    <3> QED  BY <1>9, <2>2, <3>1, <3>2 DEF Call
  <2> QED  BY <2>1, <2>2
<1>10. CASE Return  BY <1>10 DEF Return
<1>11. CASE NextPhase
  <2>1. Phases[stage] \in Phase /\ stage + 1 \in 2..5
    BY <1>11, PhaseFacts DEF NextPhase
  <2>2. systems[Phases[stage]] \in Seq(Entry)  BY <2>1
  <2>3. << >> \in Seq(SystemName)  BY EmptySeq
  <2> QED  BY <1>11, <2>1, <2>2, <2>3 DEF NextPhase
<1>12. CASE Update  BY <1>12, PhaseFacts DEF Update
<1>13. CASE AbortTick  BY <1>13 DEF AbortTick
<1>14. CASE UNCHANGED vars  BY <1>14
<1> QED
  BY <1>1, <1>2, <1>3, <1>4, <1>5, <1>6, <1>7, <1>8, <1>9, <1>10, <1>11, <1>12,
     <1>13, <1>14 DEF Next, Step

-----------------------------------------------------------------------------
\* What appending and taking from the front do to what follows one another.
LEMMA ConcatAppend ==
  ASSUME NEW S, NEW s \in Seq(S), NEW t \in Seq(S), NEW e \in S
  PROVE  s \o Append(t, e) = Append(s \o t, e)
<1>1. Append(t, e) = t \o <<e>>  BY AppendIsConcat
<1>2. s \o t \in Seq(S)  BY ConcatProperties
<1>3. Append(s \o t, e) = (s \o t) \o <<e>>  BY <1>2, AppendIsConcat
<1>4. <<e>> \in Seq(S)  OBVIOUS
<1> QED  BY <1>1, <1>3, <1>4, ConcatAssociative

LEMMA HeadMoves ==
  ASSUME NEW S, NEW s \in Seq(S), NEW t \in Seq(S), t # << >>
  PROVE  Append(s, Head(t)) \o Tail(t) = s \o t
<1>1. Head(t) \in S /\ Tail(t) \in Seq(S)  BY HeadTailProperties
<1>2. <<Head(t)>> \in Seq(S)  BY <1>1
<1>3. Append(s, Head(t)) = s \o <<Head(t)>>  BY <1>1, AppendIsConcat
<1>4. <<Head(t)>> \o Tail(t) = t
  <2>1. SubSeq(t, 1, Len(t)) = <<t[1]>> \o SubSeq(t, 2, Len(t))
    <3>1. 1 \in 1..Len(t) /\ Len(t) \in 1..Len(t)  BY EmptySeq
    <3> QED  BY <3>1, SubSeqRecursiveFirst
  <2>2. SubSeq(t, 1, Len(t)) = t  BY SubSeqFull
  <2>3. Tail(t) = SubSeq(t, 2, Len(t))  BY TailIsSubSeq
  <2> QED  BY <2>1, <2>2, <2>3
<1> QED  BY <1>1, <1>2, <1>3, <1>4, ConcatAssociative

LEMMA CountAppend ==
  ASSUME NEW n \in Nat
  PROVE  Append([i \in 1..n |-> i], n + 1) = [i \in 1..n + 1 |-> i]
OBVIOUS

\* Packets stay in order: they leave the queue together, and the batch one by
\* one from its front.
LEMMA OrderPreserved ==
  ASSUME FrameInv, [Next]_vars
  PROVE  PacketsInOrder'
<1> USE DEF FrameInv, vars, transport, tables, history
<1>1. handled \in Seq(Nat) /\ batch \in Seq(Nat) /\ inbox \in Seq(Nat)
  BY DEF FrameTypeOK
<1>2. Len(arrived) \in Nat  BY LenProperties DEF FrameTypeOK
<1>3. handled \o batch \in Seq(Nat)  BY <1>1, ConcatProperties
<1>4. ASSUME NEW k \in Kind, Arrive(k) PROVE PacketsInOrder'
  <2>1. (handled \o batch) \o Append(inbox, Len(arrived) + 1)
          = Append((handled \o batch) \o inbox, Len(arrived) + 1)
    BY <1>1, <1>2, <1>3, ConcatAppend
  <2>2. Append((handled \o batch) \o inbox, Len(arrived) + 1)
          = [i \in 1..Len(arrived) + 1 |-> i]
    BY <1>2, CountAppend DEF PacketsInOrder
  <2>3. Len(arrived') = Len(arrived) + 1
    BY <1>4, AppendProperties DEF Arrive, FrameTypeOK
  <2>4. /\ handled' = handled /\ batch' = batch
        /\ inbox' = Append(inbox, Len(arrived) + 1)
    BY <1>4 DEF Arrive
  <2> QED  BY <2>1, <2>2, <2>3, <2>4 DEF PacketsInOrder
<1>5. CASE BeginTick
  <2>1. CASE TakeQueue
    <3>1. batch = << >> /\ batch' = inbox /\ inbox' = << >>
          /\ UNCHANGED <<handled, arrived>>
      BY <1>5, <2>1 DEF BeginTick, TakeQueue, Idle, WaitingFits
    <3>2. handled \o inbox \in Seq(Nat)  BY <1>1, ConcatProperties
    <3>3. (handled \o inbox) \o << >> = (handled \o << >>) \o inbox
      BY <1>1, <3>2, ConcatEmptySeq
    <3> QED  BY <3>1, <3>3 DEF PacketsInOrder
  <2>2. CASE UNCHANGED <<inbox, batch>>
    BY <1>5, <2>2 DEF BeginTick, PacketsInOrder
  <2> QED  BY <1>5, <2>1, <2>2 DEF BeginTick
<1>6. CASE Dispatch
  <2>1. Append(handled, Head(batch)) \o Tail(batch) = handled \o batch
    BY <1>1, <1>6, HeadMoves DEF Dispatch
  <2> QED  BY <1>6, <2>1 DEF Dispatch, PacketsInOrder
<1>7. CASE UNCHANGED transport  BY <1>7 DEF PacketsInOrder
<1> QED
  BY <1>4, <1>5, <1>6, <1>7 DEF Next, Step, Register, Unregister, AddSystem,
     RemoveSystem, EditWorld, Call, Return, NextPhase, Update, AbortTick

-----------------------------------------------------------------------------
\* What of the history and the tables is read off the number of a packet.
LEMMA HandledFacts ==
  ASSUME FrameInv
  PROVE  /\ Len(handled) \in Nat /\ Len(handled) <= Len(arrived) /\ Len(handled) < NotYet
         /\ Len(arrived) \in Nat
         /\ batch # << >> => Len(handled) + 1 < NotYet
<1>1. /\ Len(handled) \in Nat /\ Len(batch) \in Nat /\ Len(inbox) \in Nat
      /\ Len(arrived) \in Nat
  BY LenProperties DEF FrameInv, FrameTypeOK
<1>2. /\ Len(handled) + Len(batch) + Len(inbox) = Len(arrived)
      /\ batch # << >> => Len(handled) < Len(arrived)
  BY OrderFacts DEF FrameInv
<1>3. Len(arrived) <= MaxPackets  BY DEF FrameInv, FrameTypeOK
<1> QED  BY <1>1, <1>2, <1>3, BoundFacts DEF NotYet

\* A registration adds a handler to its table, a removal takes it out again.
LEMMA TablesPreserved ==
  ASSUME FrameInv, [Next]_vars
  PROVE  TablesMatchHistory'
<1> USE DEF FrameInv, TablesMatchHistory
<1>1. /\ handlers \in [Kind -> Seq(Handler)]
      /\ since \in [Handler -> Nat] /\ until \in [Handler -> Nat]
  BY DEF FrameTypeOK
<1>2. \A h \in Handler : h[1] \in Kind  BY FrameAssumption
<1>3. ASSUME NEW h \in Handler, Register(h) PROVE TablesMatchHistory'
  <2> DEFINE table == handlers[h[1]]
  <2>1. table \in Seq(Handler) /\ Len(table) \in Nat  BY <1>1, <1>2, LenProperties
  <2>2. /\ Len(Append(table, h)) = Len(table) + 1
        /\ \A i \in 1..Len(table) : Append(table, h)[i] = table[i]
        /\ Append(table, h)[Len(table) + 1] = h
    BY <2>1, AppendProperties
  <2>3. /\ handlers' = [handlers EXCEPT ![h[1]] = Append(table, h)]
        /\ since' = [since EXCEPT ![h] = Len(handled)]
        /\ until' = until /\ handled' = handled /\ since[h] = NotYet
    BY <1>3 DEF Register, transport
  <2>4. \A i \in 1..Len(table) : table[i] # h
    BY <1>2, <2>3 DEF InTable
  <2>5. ASSUME NEW k \in Kind, NEW i \in 1..Len(handlers'[k]), NEW j \in 1..Len(handlers'[k])
        PROVE  /\ handlers'[k][i][1] = k
               /\ handlers'[k][i] = handlers'[k][j] => i = j
    <3>1. CASE k = h[1]
      <4>1. handlers'[k] = Append(table, h)  BY <3>1, <1>1, <2>3
      <4>2. /\ i \in 1..Len(table) \/ i = Len(table) + 1
            /\ j \in 1..Len(table) \/ j = Len(table) + 1
        BY <4>1, <2>1, <2>2
      <4> QED  BY <3>1, <4>1, <4>2, <2>2, <2>4
    <3>2. CASE k # h[1]  BY <3>2, <1>1, <2>3
    <3> QED  BY <3>1, <3>2
  <2>6. ASSUME NEW g \in Handler
        PROVE  /\ since'[g] = NotYet => until'[g] = NotYet
               /\ since'[g] = NotYet \/ since'[g] <= Len(handled')
               /\ until'[g] = NotYet \/ until'[g] <= Len(handled')
               /\ InTable(g)' <=> since'[g] # NotYet /\ until'[g] = NotYet
    <3>1. CASE g = h
      <4>1. /\ handlers'[g[1]] = Append(table, h)
            /\ since'[g] = Len(handled) /\ until'[g] = NotYet
        BY <3>1, <1>1, <1>2, <2>3
      <4>2. InTable(g)'
        <5>1. Len(table) + 1 \in 1..Len(handlers'[g[1]])  BY <4>1, <2>1, <2>2
        <5> QED  BY <5>1, <3>1, <4>1, <2>2 DEF InTable
      <4> QED  BY <4>1, <4>2, <2>3, HandledFacts
    <3>2. CASE g # h
      <4>1. since'[g] = since[g]  BY <3>2, <1>1, <2>3
      <4>2. InTable(g)' <=> InTable(g)
        <5>1. CASE g[1] = h[1]
          <6>1. handlers'[g[1]] = Append(table, h)  BY <5>1, <1>1, <1>2, <2>3
          <6>2. \A i \in 1..Len(table) + 1 : i \in 1..Len(table) \/ i = Len(table) + 1
            BY <2>1
          <6>3. \A i \in 1..Len(table) : i \in 1..Len(table) + 1  BY <2>1
          <6> QED  BY <5>1, <6>1, <6>2, <6>3, <3>2, <2>2 DEF InTable
        <5>2. CASE g[1] # h[1]  BY <5>2, <1>1, <1>2, <2>3 DEF InTable
        <5> QED  BY <5>1, <5>2
      <4> QED  BY <4>1, <4>2, <2>3
    <3> QED  BY <3>1, <3>2
  <2> QED  BY <2>5, <2>6
<1>4. ASSUME NEW h \in Handler, Unregister(h) PROVE TablesMatchHistory'
  <2> DEFINE table == handlers[h[1]]
  <2>1. table \in Seq(Handler) /\ Len(table) \in Nat  BY <1>1, <1>2, LenProperties
  <2>2. PICK at \in 1..Len(table) :
          table[at] = h /\ handlers' = [handlers EXCEPT ![h[1]] = RemoveAt(table, at)]
    BY <1>4 DEF Unregister
  <2>3. /\ Len(RemoveAt(table, at)) = Len(table) - 1
        /\ \A j \in 1..Len(table) - 1 :
             RemoveAt(table, at)[j] = IF j < at THEN table[j] ELSE table[j + 1]
    BY <2>1, RemoveAtFacts
  <2>4. /\ until' = [until EXCEPT ![h] = Len(handled)]
        /\ since' = since /\ handled' = handled
    BY <1>4 DEF Unregister, transport
  <2>5. since[h] # NotYet /\ until[h] = NotYet  BY <2>2 DEF InTable
  <2>6. \A i, j \in 1..Len(table) : /\ table[i][1] = h[1]
                                    /\ table[i] = table[j] => i = j
    BY <1>2
  <2>7. ASSUME NEW k \in Kind, NEW i \in 1..Len(handlers'[k]), NEW j \in 1..Len(handlers'[k])
        PROVE  /\ handlers'[k][i][1] = k
               /\ handlers'[k][i] = handlers'[k][j] => i = j
    <3>1. CASE k = h[1]
      <4>1. handlers'[k] = RemoveAt(table, at)  BY <3>1, <1>1, <2>2
      <4>2. i \in 1..Len(table) - 1 /\ j \in 1..Len(table) - 1  BY <4>1, <2>3
      <4>3. /\ i \in 1..Len(table) /\ i + 1 \in 1..Len(table)
            /\ j \in 1..Len(table) /\ j + 1 \in 1..Len(table)
        BY <4>2, <2>1
      <4>4. handlers'[k][i][1] = k  BY <3>1, <4>1, <4>2, <4>3, <2>3, <2>6
      <4>5. ASSUME handlers'[k][i] = handlers'[k][j] PROVE i = j
        <5> DEFINE old(n) == IF n < at THEN n ELSE n + 1
        <5>1. table[old(i)] = table[old(j)]  BY <4>1, <4>2, <4>5, <2>3
        <5>2. old(i) = old(j)  BY <5>1, <4>3, <2>6
        <5> QED  BY <5>2, <4>2, <2>1
      <4> QED  BY <4>4, <4>5
    <3>2. CASE k # h[1]  BY <3>2, <1>1, <2>2
    <3> QED  BY <3>1, <3>2
  <2>8. ASSUME NEW g \in Handler
        PROVE  /\ since'[g] = NotYet => until'[g] = NotYet
               /\ since'[g] = NotYet \/ since'[g] <= Len(handled')
               /\ until'[g] = NotYet \/ until'[g] <= Len(handled')
               /\ InTable(g)' <=> since'[g] # NotYet /\ until'[g] = NotYet
    <3>1. CASE g = h
      <4>1. handlers'[g[1]] = RemoveAt(table, at) /\ until'[g] = Len(handled)
        BY <3>1, <1>1, <1>2, <2>2, <2>4
      <4>2. ASSUME NEW j \in 1..Len(table) - 1 PROVE RemoveAt(table, at)[j] # h
        <5>1. j \in 1..Len(table) /\ j + 1 \in 1..Len(table)  BY <2>1
        <5> QED  BY <5>1, <2>2, <2>3, <2>6
      <4>3. ~InTable(g)'  BY <3>1, <4>1, <4>2, <2>3 DEF InTable
      <4> QED  BY <3>1, <4>1, <4>3, <2>4, <2>5, HandledFacts
    <3>2. CASE g # h
      <4>1. until'[g] = until[g]  BY <3>2, <1>1, <2>4
      <4>2. InTable(g)' <=> InTable(g)
        <5>1. CASE g[1] = h[1]
          <6>1. handlers'[g[1]] = RemoveAt(table, at)  BY <5>1, <1>1, <1>2, <2>2
          <6>2. ASSUME InTable(g) PROVE InTable(g)'
            <7>1. PICK i \in 1..Len(table) : table[i] = g  BY <6>2, <5>1 DEF InTable
            <7>2. i # at  BY <7>1, <2>2, <3>2
            <7>3. CASE i < at
              <8>1. i \in 1..Len(table) - 1  BY <7>3, <2>1
              <8> QED  BY <7>1, <7>3, <8>1, <6>1, <2>3 DEF InTable
            <7>4. CASE i > at
              <8>1. i - 1 \in 1..Len(table) - 1 /\ ~(i - 1 < at) /\ (i - 1) + 1 = i
                BY <7>4, <2>1
              <8> QED  BY <7>1, <8>1, <6>1, <2>3 DEF InTable
            <7> QED  BY <7>2, <7>3, <7>4
          <6>3. ASSUME InTable(g)' PROVE InTable(g)
            <7>1. PICK j \in 1..Len(table) - 1 : RemoveAt(table, at)[j] = g
              BY <6>3, <6>1, <2>3 DEF InTable
            <7>2. j \in 1..Len(table) /\ j + 1 \in 1..Len(table)  BY <2>1
            <7> QED  BY <7>1, <7>2, <5>1, <2>3 DEF InTable
          <6> QED  BY <6>2, <6>3
        <5>2. CASE g[1] # h[1]  BY <5>2, <1>1, <1>2, <2>2 DEF InTable
        <5> QED  BY <5>1, <5>2
      <4> QED  BY <4>1, <4>2, <2>4
    <3> QED  BY <3>1, <3>2
  <2> QED  BY <2>7, <2>8
<1>5. CASE UNCHANGED <<handlers, since, until>> /\ Len(handled) <= Len(handled')
  <2>1. Len(handled') \in Nat  BY TypesPreserved, LenProperties DEF FrameTypeOK
  <2> QED  BY <1>1, <1>5, <2>1, HandledFacts, BoundFacts DEF InTable
<1>6. CASE Dispatch
  <2>1. Len(handled') = Len(handled) + 1
    BY <1>6, HeadTailProperties, AppendProperties DEF Dispatch, FrameTypeOK
  <2> QED  BY <1>5, <1>6, <2>1, HandledFacts DEF Dispatch, tables
<1>7. \/ \E h \in Handler : Register(h) \/ Unregister(h)
      \/ Dispatch
      \/ UNCHANGED <<handlers, since, until, handled>>
  BY DEF Next, Step, vars, transport, tables, Arrive, AddSystem, RemoveSystem,
     EditWorld, BeginTick, Call, Return, NextPhase, Update, AbortTick
<1>8. CASE UNCHANGED <<handlers, since, until, handled>>  BY <1>5, <1>8, HandledFacts
<1> QED  BY <1>3, <1>4, <1>6, <1>7, <1>8

-----------------------------------------------------------------------------
LEMMA DueFacts ==
  ASSUME FrameInv, NEW h \in Handler
  PROVE  \A i : i \in Due(h) <=> /\ i \in 1..Len(handled)
                                 /\ arrived[i] = h[1] /\ since[h] < i /\ i <= until[h]
BY OrderFacts DEF FrameInv, Due

\* The same where the packets dispatched before are dispatched still.
LEMMA DueFactsPrime ==
  ASSUME FrameInv, NEW h \in Handler, handled' = handled,
         \A i \in 1..Len(handled) : arrived'[i] = arrived[i]
  PROVE  \A i : i \in Due(h)' <=> /\ i \in 1..Len(handled)
                                  /\ arrived[i] = h[1] /\ since'[h] < i /\ i <= until'[h]
BY OrderFacts DEF FrameInv, Due

\* A handler is called with each packet it is due, whatever is registered,
\* removed or thrown meanwhile.
LEMMA OfferedPreserved ==
  ASSUME FrameInv, [Next]_vars
  PROVE  OfferedExactly'
<1> USE DEF FrameInv, OfferedExactly
<1>1. /\ handlers \in [Kind -> Seq(Handler)]
      /\ since \in [Handler -> Nat] /\ until \in [Handler -> Nat]
      /\ offered \in [Handler -> Seq(Nat)]
      /\ arrived \in Seq(Kind) /\ handled \in Seq(Nat) /\ batch \in Seq(Nat)
  BY DEF FrameTypeOK
<1>2. \A h \in Handler : h[1] \in Kind  BY FrameAssumption
<1>3. /\ Len(handled) \in Nat /\ Len(arrived) \in Nat
      /\ Len(handled) <= Len(arrived) /\ Len(handled) < NotYet /\ NotYet \in Nat
  BY HandledFacts, BoundFacts
<1>4. ASSUME UNCHANGED <<handled, since, until, offered>>,
             \A i \in 1..Len(handled) : arrived'[i] = arrived[i],
             \A h \in Handler : Waits(h)' <=> Waits(h),
             stage' = 1 => \A i, j \in 1..Len(todo') : todo'[i] = todo'[j] => i = j
      PROVE  OfferedExactly'
  <2> SUFFICES ASSUME NEW h \in Handler
               PROVE  /\ Waits(h)' => Len(handled) \in Due(h)'
                      /\ \A i \in Nat : Offered(h, i)' <=>
                           i \in Due(h)' /\ ~(Waits(h)' /\ i = Len(handled))
    BY <1>4 DEF Offered
  <2>1. \A i : i \in Due(h)' <=> i \in Due(h)  BY <1>4, DueFacts, DueFactsPrime
  <2>2. \A i \in Nat : Offered(h, i)' <=> Offered(h, i)  BY <1>4 DEF Offered
  <2> QED  BY <1>4, <2>1, <2>2
<1>5. CASE /\ UNCHANGED <<handled, since, until, offered>>
           /\ \A i \in 1..Len(handled) : arrived'[i] = arrived[i]
           /\ \/ UNCHANGED <<stage, todo>>
              \/ stage # 1 /\ stage' # 1
              \/ todo = << >> /\ (stage' = 1 => todo' = << >>)
  <2>1. \A h \in Handler : Waits(h)' <=> Waits(h)  BY <1>5 DEF Waits
  <2>2. stage' = 1 => \A i, j \in 1..Len(todo') : todo'[i] = todo'[j] => i = j  BY <1>5
  <2> QED  BY <1>4, <1>5, <2>1, <2>2
<1>6. ASSUME NEW k \in Kind, Arrive(k) PROVE OfferedExactly'
  <2>1. \A i \in 1..Len(arrived) : Append(arrived, k)[i] = arrived[i]
    BY <1>1, AppendProperties
  <2> QED  BY <1>3, <1>5, <1>6, <2>1 DEF Arrive, tables, history
<1>7. CASE BeginTick
  BY <1>5, <1>7 DEF BeginTick, TakeQueue, Idle, WaitingFits, tables, history
<1>8. CASE NextPhase
  <2>1. stage \in 1..5 /\ stage' # 1  BY <1>8 DEF NextPhase, Idle, FrameTypeOK
  <2> QED  BY <1>5, <1>8, <2>1 DEF NextPhase, transport, tables
<1>9. CASE AbortTick
  BY <1>5, <1>9 DEF AbortTick, transport, tables
<1>10. CASE Update
  BY <1>5, <1>10, PhaseFacts DEF Update, transport, tables
<1>11. CASE UNCHANGED <<transport, since, until, offered, stage, todo>>
  BY <1>5, <1>11 DEF transport
<1>12. ASSUME NEW h \in Handler, Register(h) PROVE OfferedExactly'
  <2>1. /\ since[h] = NotYet /\ since' = [since EXCEPT ![h] = Len(handled)]
        /\ UNCHANGED <<arrived, handled, until, offered, stage, todo>>
    BY <1>12 DEF Register, transport, history
  <2> SUFFICES ASSUME NEW g \in Handler PROVE \A i : i \in Due(g)' <=> i \in Due(g)
    BY <2>1 DEF Offered, Waits
  <2>2. CASE g = h
    <3>1. \A i : i \notin Due(g)  BY <2>1, <2>2, <1>3, DueFacts
    <3>2. \A i : i \notin Due(g)'  BY <2>1, <2>2, <1>1, <1>3, DueFactsPrime
    <3> QED  BY <3>1, <3>2
  <2>3. CASE g # h  BY <2>1, <2>3, <1>1, DueFacts, DueFactsPrime
  <2> QED  BY <2>2, <2>3
<1>13. ASSUME NEW h \in Handler, Unregister(h) PROVE OfferedExactly'
  <2>1. /\ until' = [until EXCEPT ![h] = Len(handled)]
        /\ UNCHANGED <<arrived, handled, since, offered, stage, todo>>
    BY <1>13 DEF Unregister, transport, history
  <2>2. until[h] = NotYet  BY <1>13 DEF Unregister, InTable, TablesMatchHistory
  <2> SUFFICES ASSUME NEW g \in Handler PROVE \A i : i \in Due(g)' <=> i \in Due(g)
    BY <2>1 DEF Offered, Waits
  <2>3. CASE g = h
    <3>1. until'[g] = Len(handled) /\ until[g] = NotYet /\ since'[g] = since[g]
      BY <2>1, <2>2, <2>3, <1>1
    <3>2. \A i \in 1..Len(handled) : i <= Len(handled) /\ i <= NotYet  BY <1>3
    <3>3. \A i : i \in Due(g)' <=> /\ i \in 1..Len(handled)
                                   /\ arrived[i] = g[1] /\ since'[g] < i /\ i <= until'[g]
      BY <2>1, DueFactsPrime
    <3> QED  BY <3>1, <3>2, <3>3, DueFacts
  <2>4. CASE g # h  BY <2>1, <2>4, <1>1, DueFacts, DueFactsPrime
  <2> QED  BY <2>3, <2>4
<1>14. CASE Dispatch
  <2> DEFINE n == Len(handled) + 1
  <2>1. /\ stage = 1 /\ todo = << >> /\ stage' = 1 /\ todo' = handlers[arrived[n]]
        /\ UNCHANGED <<arrived, since, until, offered>>
        /\ n \in 1..Len(arrived) /\ n < NotYet
    BY <1>3, <1>14, OrderFacts, HandledFacts DEF Dispatch, Draining, tables, history
  <2>2. /\ Len(handled') = n
        /\ \A i \in 1..n : handled'[i] = i
    <3>1. handled' = Append(handled, n)  BY <1>14, OrderFacts DEF Dispatch
    <3>2. n \in Nat  BY <1>3
    <3>3. /\ Len(Append(handled, n)) = n
          /\ \A i \in 1..Len(handled) : Append(handled, n)[i] = handled[i]
          /\ Append(handled, n)[n] = n
      BY <1>1, <3>2, AppendProperties
    <3>4. \A i \in 1..n : i = n \/ i \in 1..Len(handled)  BY <1>3
    <3> QED  BY <3>1, <3>3, <3>4, OrderFacts
  <2>3. arrived[n] \in Kind  BY <1>1, <2>1
  <2>4. \A i, j \in 1..Len(todo') : todo'[i] = todo'[j] => i = j
    BY <2>1, <2>3 DEF TablesMatchHistory
  <2> SUFFICES ASSUME NEW g \in Handler
               PROVE  /\ Waits(g)' => n \in Due(g)'
                      /\ \A i \in Nat : Offered(g, i)' <=>
                           i \in Due(g)' /\ ~(Waits(g)' /\ i = n)
    BY <2>1, <2>2, <2>4 DEF Offered
  <2>5. \A i : i \in Due(g)' <=> /\ i \in 1..n
                                 /\ arrived[i] = g[1] /\ since[g] < i /\ i <= until[g]
    BY <2>1, <2>2 DEF Due
  <2>6. Waits(g)' <=> arrived[n] = g[1] /\ InTable(g)
    <3>1. Waits(g)' <=> \E i \in 1..Len(handlers[arrived[n]]) : handlers[arrived[n]][i] = g
      BY <2>1 DEF Waits
    <3>2. \A i \in 1..Len(handlers[arrived[n]]) : handlers[arrived[n]][i][1] = arrived[n]
      BY <2>3 DEF TablesMatchHistory
    <3> QED  BY <3>1, <3>2 DEF InTable
  <2>7. n \in Due(g)' <=> Waits(g)'
    <3>1. InTable(g) <=> since[g] < n /\ n <= until[g]
      <4>1. since[g] \in Nat /\ until[g] \in Nat /\ n \in Nat /\ n = Len(handled) + 1
        BY <1>1, <1>3
      <4>2. /\ since[g] = NotYet \/ since[g] <= Len(handled)
            /\ until[g] = NotYet \/ until[g] <= Len(handled)
            /\ InTable(g) <=> since[g] # NotYet /\ until[g] = NotYet
        BY DEF TablesMatchHistory
      <4>3. since[g] # NotYet <=> since[g] < n  BY <4>1, <4>2, <2>1, <1>3
      <4>4. until[g] = NotYet <=> n <= until[g]  BY <4>1, <4>2, <2>1, <1>3
      <4> QED  BY <4>2, <4>3, <4>4
    <3> QED  BY <3>1, <2>1, <2>5, <2>6, <1>3
  <2>8. \A i \in 1..Len(handled) : i \in Due(g)' <=> i \in Due(g)
    BY <2>5, <1>3, DueFacts
  <2>9. \A i : i \in Due(g)' /\ i # n <=> i \in Due(g)
    <3>1. \A i \in 1..n : i # n <=> i \in 1..Len(handled)  BY <1>3
    <3>2. \A i \in 1..Len(handled) : i \in 1..n /\ i # n  BY <1>3
    <3> QED  BY <3>1, <3>2, <2>5, <2>8, DueFacts
  <2>10. \A i \in Nat : Offered(g, i)' <=> i \in Due(g)  BY <2>1 DEF Offered, Waits
  <2> QED  BY <2>7, <2>9, <2>10
<1>15. CASE Call
  <2>1. CASE stage # 1  BY <1>5, <1>15, <2>1 DEF Call, Draining, transport, tables
  <2>2. CASE stage = 1
    <3> DEFINE n == Len(handled)
    <3>a. todo \in Seq(Handler) /\ todo # << >>
      BY <1>15, <2>2 DEF Call, WaitingFits
    <3>b. PICK first \in Handler : first = Head(todo)
      BY <3>a, HeadTailProperties
    <3>1. /\ stage' = 1 /\ todo' = Tail(todo)
          /\ UNCHANGED <<arrived, handled, since, until>>
          /\ offered' = [offered EXCEPT ![first] = Append(@, n)]
      BY <1>15, <2>2, <3>b DEF Call, Draining, transport, tables
    <3>2. /\ first = todo[1]
          /\ Len(Tail(todo)) = Len(todo) - 1 /\ Len(todo) \in Nat \ {0}
          /\ \A i \in 1..Len(Tail(todo)) : Tail(todo)[i] = todo[i + 1]
      BY <3>a, <3>b, HeadTailProperties, EmptySeq
    <3>3. \A i, j \in 1..Len(todo) : todo[i] = todo[j] => i = j  BY <2>2
    <3>4. \A i \in 1..Len(Tail(todo)) : i \in 1..Len(todo) /\ i + 1 \in 1..Len(todo)
      BY <3>2
    <3>5. \A i, j \in 1..Len(todo') : todo'[i] = todo'[j] => i = j
      BY <3>1, <3>2, <3>3, <3>4
    <3>6. Waits(first) /\ ~Waits(first)'
      <4>1. 1 \in 1..Len(todo)  BY <3>2
      <4>2. \A i \in 1..Len(Tail(todo)) : todo[i + 1] # todo[1]
        BY <4>1, <3>2, <3>3, <3>4
      <4>3. Waits(first)  BY <4>1, <3>2, <2>2 DEF Waits
      <4>4. \A i \in 1..Len(todo') : todo'[i] # first  BY <4>2, <3>1, <3>2
      <4>5. ~Waits(first)'  BY <4>4 DEF Waits
      <4> QED  BY <4>3, <4>5
    <3>7. ASSUME NEW g \in Handler, g # first PROVE Waits(g)' <=> Waits(g)
      <4>1. \A i \in 1..Len(todo) : i # 1 => i - 1 \in 1..Len(Tail(todo)) /\ (i - 1) + 1 = i
        BY <3>2
      <4>2. Waits(g) => Waits(g)'
        BY <3>1, <3>2, <3>7, <4>1, <2>2 DEF Waits
      <4>3. Waits(g)' => Waits(g)  BY <3>1, <3>2, <3>4, <2>2 DEF Waits
      <4> QED  BY <4>2, <4>3
    <3>8. /\ n \in Due(first) /\ ~Offered(first, n)
          /\ \A i, j \in 1..Len(offered[first]) : offered[first][i] = offered[first][j] => i = j
      BY <3>2, <3>6, <1>3
    <3>9. /\ offered[first] \in Seq(Nat) /\ Len(offered[first]) \in Nat
          /\ Len(Append(offered[first], n)) = Len(offered[first]) + 1
          /\ \A i \in 1..Len(offered[first]) : Append(offered[first], n)[i] = offered[first][i]
          /\ Append(offered[first], n)[Len(offered[first]) + 1] = n
      BY <3>2, <1>1, <1>3, AppendProperties, LenProperties
    <3>10. ASSUME NEW g \in Handler PROVE \A i : i \in Due(g)' <=> i \in Due(g)
      BY <3>1, DueFacts, DueFactsPrime
    <3>11. ASSUME NEW g \in Handler
           PROVE  /\ Waits(g)' => n \in Due(g)'
                  /\ \A i, j \in 1..Len(offered'[g]) : offered'[g][i] = offered'[g][j] => i = j
                  /\ \A i \in Nat : Offered(g, i)' <=> i \in Due(g)' /\ ~(Waits(g)' /\ i = n)
      <4>1. CASE g # first
        <5>1. offered'[g] = offered[g]  BY <4>1, <3>1, <1>1
        <5> QED  BY <4>1, <5>1, <3>7, <3>10 DEF Offered
      <4>2. CASE g = first
        <5>1. offered'[g] = Append(offered[first], n)  BY <4>2, <3>1, <3>2, <1>1
        <5>2. \A i \in 1..Len(offered'[g]) :
                i \in 1..Len(offered[first]) \/ i = Len(offered[first]) + 1
          BY <5>1, <3>9
        <5>3. \A i \in 1..Len(offered[first]) : offered[first][i] # n
          BY <3>8 DEF Offered
        <5>4. \A i, j \in 1..Len(offered'[g]) : offered'[g][i] = offered'[g][j] => i = j
          BY <5>1, <5>2, <5>3, <3>8, <3>9
        <5>5. \A i \in Nat : Offered(g, i)' <=> Offered(first, i) \/ i = n
          <6>1. \A i \in 1..Len(offered[first]) : i \in 1..Len(offered'[g])
            BY <5>1, <3>9
          <6>2. Len(offered[first]) + 1 \in 1..Len(offered'[g])  BY <5>1, <3>9
          <6> QED  BY <6>1, <6>2, <5>1, <5>2, <3>9 DEF Offered
        <5>6. \A i \in Nat : Offered(first, i) \/ i = n <=> i \in Due(first)
          BY <3>2, <3>6, <3>8
        <5>7. ~Waits(g)'  BY <4>2, <3>6
        <5>8. \A i \in Nat : Offered(g, i)' <=> i \in Due(g)'
          BY <4>2, <5>5, <5>6, <3>10
        <5> QED  BY <5>4, <5>7, <5>8
      <4> QED  BY <4>1, <4>2
    <3> QED  BY <3>1, <3>5, <3>11
  <2> QED  BY <2>1, <2>2
<1>16. \/ \E k \in Kind : Arrive(k)
       \/ \E h \in Handler : Register(h) \/ Unregister(h)
       \/ BeginTick \/ NextPhase \/ AbortTick \/ Update \/ Dispatch \/ Call
       \/ UNCHANGED <<transport, since, until, offered, stage, todo>>
  BY DEF Next, Step, vars, tables, history, AddSystem, RemoveSystem, EditWorld, Return
<1> QED
  BY <1>6, <1>7, <1>8, <1>9, <1>10, <1>11, <1>12, <1>13, <1>14, <1>15, <1>16

-----------------------------------------------------------------------------
\* A phase calls the systems it had when it began, and those have different
\* names; what is added or removed meanwhile does not count.
LEMMA SystemNamesPreserved ==
  ASSUME FrameInv, [Next]_vars
  PROVE  SystemNamesDiffer'
<1> USE DEF FrameInv, SystemNamesDiffer
<1>1. systems \in [Phase -> Seq(Entry)] /\ ran \in Seq(SystemName) /\ stage \in 0..5
  BY DEF FrameTypeOK
<1>2. ASSUME NEW p \in UsedPhase, NEW n \in SystemName, AddSystem(p, n)
      PROVE  SystemNamesDiffer'
  <2> DEFINE entry == [name |-> n, serial |-> serial]
             old == systems[p]
  <2>1. /\ p \in Phase /\ old \in Seq(Entry) /\ Len(old) \in Nat
        /\ entry \in Entry /\ entry.name = n
    BY <1>1, FrameAssumption, PhaseFacts, LenProperties DEF Entry, FrameTypeOK
  <2>2. /\ \A i \in 1..Len(old) : old[i].name # n
        /\ systems' = [systems EXCEPT ![p] = Append(old, entry)]
        /\ UNCHANGED <<ran, stage, todo>>
    BY <1>2 DEF AddSystem, history
  <2> HIDE DEF entry
  <2>3. /\ Len(Append(old, entry)) = Len(old) + 1
        /\ \A i \in 1..Len(old) : Append(old, entry)[i] = old[i]
        /\ Append(old, entry)[Len(old) + 1] = entry
    BY <2>1, AppendProperties
  <2>4. ASSUME NEW q \in Phase, NEW i \in 1..Len(systems'[q]), NEW j \in 1..Len(systems'[q]),
               systems'[q][i].name = systems'[q][j].name
        PROVE  i = j
    <3>1. CASE q = p
      <4>1. systems'[q] = Append(old, entry)  BY <3>1, <1>1, <2>2
      <4>2. /\ i \in 1..Len(old) \/ i = Len(old) + 1
            /\ j \in 1..Len(old) \/ j = Len(old) + 1
        BY <4>1, <2>1, <2>3
      <4> QED  BY <4>1, <4>2, <2>1, <2>2, <2>3, <2>4
    <3>2. CASE q # p
      <4>1. systems'[q] = systems[q]  BY <3>2, <1>1, <2>2
      <4> QED  BY <4>1, <2>4
    <3> QED  BY <3>1, <3>2
  <2> QED  BY <2>2, <2>4
<1>3. ASSUME NEW p \in UsedPhase, RemoveSystem(p) PROVE SystemNamesDiffer'
  <2> DEFINE old == systems[p]
  <2>1. p \in Phase /\ old \in Seq(Entry) /\ Len(old) \in Nat
    BY <1>1, FrameAssumption, PhaseFacts, LenProperties
  <2>2. PICK at \in 1..Len(old) :
          /\ systems' = [systems EXCEPT ![p] = RemoveAt(old, at)]
          /\ UNCHANGED <<ran, stage, todo>>
    BY <1>3 DEF RemoveSystem, history
  <2>3. /\ Len(RemoveAt(old, at)) = Len(old) - 1
        /\ \A j \in 1..Len(old) - 1 :
             RemoveAt(old, at)[j] = IF j < at THEN old[j] ELSE old[j + 1]
    BY <2>1, RemoveAtFacts
  <2>4. ASSUME NEW q \in Phase, NEW i \in 1..Len(systems'[q]), NEW j \in 1..Len(systems'[q]),
               systems'[q][i].name = systems'[q][j].name
        PROVE  i = j
    <3>1. CASE q = p
      <4> DEFINE place(k) == IF k < at THEN k ELSE k + 1
      <4>1. systems'[q] = RemoveAt(old, at)  BY <3>1, <1>1, <2>2
      <4>2. i \in 1..Len(old) - 1 /\ j \in 1..Len(old) - 1  BY <4>1, <2>3
      <4>3. place(i) \in 1..Len(old) /\ place(j) \in 1..Len(old)  BY <4>2, <2>1
      <4>4. old[place(i)].name = old[place(j)].name  BY <4>1, <4>2, <2>3, <2>4
      <4>5. place(i) = place(j)  BY <4>3, <4>4, <2>1
      <4> QED  BY <4>2, <4>5, <2>1
    <3>2. CASE q # p
      <4>1. systems'[q] = systems[q]  BY <3>2, <1>1, <2>2
      <4> QED  BY <4>1, <2>4
    <3> QED  BY <3>1, <3>2
  <2> QED  BY <2>2, <2>4
<1>4. CASE /\ UNCHANGED <<systems, ran>>
           /\ UNCHANGED <<stage, todo>> \/ stage' \in {0, 1}
  BY <1>4
<1>5. CASE ran' = << >> /\ stage' = 0 /\ UNCHANGED systems
  <2>1. \A i \in 1..Len(ran') : FALSE  BY <1>5
  <2> QED  BY <1>5, <2>1
<1>6. CASE Update \/ AbortTick  BY <1>5, <1>6 DEF Update, AbortTick, tables
<1>7. CASE NextPhase
  <2>1. /\ ran' = << >> /\ UNCHANGED systems /\ todo' = systems[Phases[stage]]
        /\ Phases[stage] \in Phase
    BY <1>1, <1>7, PhaseFacts DEF NextPhase, tables, Idle
  <2>2. \A i \in 1..Len(ran') : FALSE  BY <2>1
  <2> QED  BY <2>1, <2>2
<1>8. CASE Call
  <2>1. CASE stage \in {0, 1}  BY <1>4, <1>8, <2>1 DEF Call, Draining, Idle, tables
  <2>2. CASE stage > 1
    <3>1. todo \in Seq(Entry) /\ todo # << >>
      BY <1>8, <2>2 DEF Call, WaitingFits
    <3>2. PICK first \in Entry : first = Head(todo)
      BY <3>1, HeadTailProperties
    <3>3. /\ stage' = stage /\ todo' = Tail(todo) /\ ran' = Append(ran, first.name)
          /\ UNCHANGED systems
      <4>1. ~Draining  BY <2>2, <1>1 DEF Draining
      <4> QED  BY <1>8, <3>2, <4>1 DEF Call, tables
    <3>4. /\ first = todo[1] /\ Len(todo) \in Nat \ {0}
          /\ Len(Tail(todo)) = Len(todo) - 1
          /\ \A i \in 1..Len(Tail(todo)) : Tail(todo)[i] = todo[i + 1]
      BY <3>1, <3>2, HeadTailProperties, EmptySeq
    <3>5. /\ 1 \in 1..Len(todo)
          /\ \A i \in 1..Len(Tail(todo)) : i + 1 \in 1..Len(todo) /\ i + 1 # 1
      BY <3>4
    <3>6. first.name \in SystemName /\ Len(ran) \in Nat
      BY <3>2, <1>1, LenProperties DEF Entry
    <3>7. /\ Len(Append(ran, first.name)) = Len(ran) + 1
          /\ \A i \in 1..Len(ran) : Append(ran, first.name)[i] = ran[i]
          /\ Append(ran, first.name)[Len(ran) + 1] = first.name
      BY <3>6, <1>1, AppendProperties
    <3>8. \A i \in 1..Len(ran') : i \in 1..Len(ran) \/ i = Len(ran) + 1
      BY <3>3, <3>6, <3>7
    <3>9. \A i \in 1..Len(ran) : ran[i] # first.name  BY <2>2, <3>4, <3>5
    <3>10. \A i, j \in 1..Len(ran') : ran'[i] = ran'[j] => i = j
      BY <3>3, <3>7, <3>8, <3>9
    <3>11. ASSUME NEW i \in 1..Len(todo')
           PROVE  /\ \A j \in 1..Len(todo') : todo'[i].name = todo'[j].name => i = j
                  /\ \A j \in 1..Len(ran') : todo'[i].name # ran'[j]
      <4>1. todo'[i] = todo[i + 1] /\ i + 1 \in 1..Len(todo) /\ i + 1 # 1
        BY <3>3, <3>4, <3>5
      <4>2. ASSUME NEW j \in 1..Len(todo'), todo'[i].name = todo'[j].name PROVE i = j
        <5>1. todo'[j] = todo[j + 1] /\ j + 1 \in 1..Len(todo)  BY <3>3, <3>4, <3>5
        <5>2. i + 1 = j + 1  BY <4>1, <4>2, <5>1, <2>2
        <5> QED  BY <5>2, <3>3, <3>4
      <4>3. todo[i + 1].name # first.name  BY <4>1, <3>4, <3>5, <2>2
      <4>4. \A j \in 1..Len(ran') : todo'[i].name # ran'[j]
        BY <4>1, <4>3, <2>2, <3>3, <3>7, <3>8
      <4> QED  BY <4>2, <4>4
    <3> QED  BY <3>3, <3>10, <3>11
  <2> QED  BY <2>1, <2>2, <1>1
<1>9. \/ \E p \in UsedPhase : RemoveSystem(p) \/ \E n \in SystemName : AddSystem(p, n)
      \/ Update \/ AbortTick \/ NextPhase \/ Call
      \/ /\ UNCHANGED <<systems, ran>>
         /\ UNCHANGED <<stage, todo>> \/ stage' \in {0, 1}
  BY DEF Next, Step, vars, tables, history, Arrive, Register, Unregister, EditWorld,
     Return, BeginTick, TakeQueue, Idle, Dispatch, Draining
<1> QED  BY <1>2, <1>3, <1>4, <1>6, <1>7, <1>8, <1>9

-----------------------------------------------------------------------------
\* FrameInv holds in every state a tick can reach.
THEOREM FrameInvariant == Spec => []FrameInv
<1>1. FrameInv /\ [Next]_vars => FrameInv'
  BY TypesPreserved, OrderPreserved, TablesPreserved, OfferedPreserved,
     SystemNamesPreserved DEF FrameInv
<1> QED  BY <1>1, InitEstablishesFrameInv, PTL DEF Spec

\* No packet is lost, repeated or overtaken between the transport and the
\* handlers: however many packets arrive, and whenever, while handlers run
\* (QueuedServerTransport, QueuedClientTransport).
THEOREM PacketsStayInOrder == Spec => []PacketsInOrder
<1>1. FrameInv => PacketsInOrder  BY DEF FrameInv
<1> QED  BY <1>1, FrameInvariant, PTL

\* However many handlers there are, and whichever are added or removed while a
\* packet is dispatched, each is called once for each packet it is due, and
\* for no other (HandlerTable.dispatch).
THEOREM HandlersCalledOncePerPacket == Spec => []CalledOncePerPacket
<1>1. ASSUME FrameInv PROVE CalledOncePerPacket
  <2> SUFFICES ASSUME NEW h \in Handler
               PROVE  LET due == {i \in 1..Len(handled) :
                                    arrived[handled[i]] = h[1] /\ since[h] < i /\ i <= until[h]}
                          underWay == IF Draining /\ todo # << >> THEN {Len(handled)} ELSE {}
                      IN  /\ IsInjective(offered[h])
                          /\ due \ underWay \subseteq ToSet(offered[h])
                          /\ ToSet(offered[h]) \subseteq due
    BY DEF CalledOncePerPacket
  <2>1. /\ offered[h] \in Seq(Nat) /\ DOMAIN offered[h] = 1..Len(offered[h])
    BY <1>1, LenProperties DEF FrameInv, FrameTypeOK
  <2>2. IsInjective(offered[h])
    BY <1>1, <2>1 DEF FrameInv, OfferedExactly, IsInjective
  <2>3. \A i \in Nat : i \in ToSet(offered[h]) <=> Offered(h, i)
    BY <2>1 DEF ToSet, Offered
  <2>4. \A i \in ToSet(offered[h]) : i \in Nat  BY <2>1 DEF ToSet
  <2>5. \A i \in Due(h) : i \in Nat  BY DEF Due
  <2>6. \A i \in Nat : Offered(h, i) <=> i \in Due(h) /\ ~(Waits(h) /\ i = Len(handled))
    BY <1>1 DEF FrameInv, OfferedExactly
  <2>7. Waits(h) => Draining /\ todo # << >>  BY DEF Waits, Draining
  <2> QED  BY <2>2, <2>3, <2>4, <2>5, <2>6, <2>7 DEF Due
<1> QED  BY <1>1, FrameInvariant, PTL

\* A system that is removed and added again while its phase runs does not run
\* a second time in the phase (runSystems).
THEOREM SystemsRunOncePerPhase == Spec => []SystemsRunOnce
<1>1. ASSUME FrameInv PROVE SystemsRunOnce
  <2>1. DOMAIN ran = 1..Len(ran)  BY <1>1, LenProperties DEF FrameInv, FrameTypeOK
  <2> QED  BY <1>1, <2>1 DEF FrameInv, SystemNamesDiffer, SystemsRunOnce, IsInjective
<1> QED  BY <1>1, FrameInvariant, PTL
=============================================================================
