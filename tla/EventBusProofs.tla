---------------------------- MODULE EventBusProofs ----------------------------
(***************************************************************************)
(* Proof of the unsubscribe barrier of EventBus, for any threads, event    *)
(* types and bounds.                                                       *)
(*                                                                         *)
(* The inductive invariant says that the invocations the bus counts are    *)
(* those on the threads' stacks (Balanced) and that a handler whose        *)
(* unsubscribe returned has none (Quiet).  BeginInvoke cannot start one    *)
(* because such a handler is marked as removed.                            *)
(***************************************************************************)
EXTENDS EventBus, SequenceTheorems, TLAPS

Quiet == \A i \in gone : running[i] = {}
\* A thread waits for a handler it has marked.
Waiting ==
    \A t \in Threads : \A n \in DOMAIN stack[t] :
        stack[t][n].pc = "wait" => stack[t][n].cur \in removed
BusInv == BusType /\ StackType /\ Nested /\ Waiting /\ Balanced /\ Quiet

-----------------------------------------------------------------------------
(* Stacks.                                                                 *)

\* Two stacks agree below depth d.
SameBelow(s, r, d) == \A n \in 1 .. d : s[n] = r[n]

LEMMA ReplaceFrame ==
    ASSUME StackType, NEW t \in Threads, Depth(t) > 0, NEW f \in Frame
    PROVE  /\ Replace(t, f) \in [Threads -> Seq(Frame)]
           /\ Len(Replace(t, f)[t]) = Depth(t)
           /\ Replace(t, f)[t][Depth(t)] = f
           /\ SameBelow(Replace(t, f)[t], stack[t], Depth(t) - 1)
           /\ \A u \in Threads \ {t} : Replace(t, f)[u] = stack[u]
<1>1. stack[t] \in Seq(Frame)
  BY DEF StackType
<1>2. [stack[t] EXCEPT ![Depth(t)] = f] \in Seq(Frame)
      /\ Len([stack[t] EXCEPT ![Depth(t)] = f]) = Depth(t)
      /\ [stack[t] EXCEPT ![Depth(t)] = f][Depth(t)] = f
      /\ SameBelow([stack[t] EXCEPT ![Depth(t)] = f], stack[t], Depth(t) - 1)
  BY <1>1 DEF Depth, SameBelow
<1> QED
  BY <1>2 DEF Replace, StackType

LEMMA PushFrame ==
    ASSUME StackType, NEW t \in Threads, NEW f \in Frame
    PROVE  /\ Push(t, f) \in [Threads -> Seq(Frame)]
           /\ Len(Push(t, f)[t]) = Depth(t) + 1
           /\ Push(t, f)[t][Depth(t) + 1] = f
           /\ SameBelow(Push(t, f)[t], stack[t], Depth(t))
           /\ \A u \in Threads \ {t} : Push(t, f)[u] = stack[u]
<1>1. stack[t] \in Seq(Frame)
  BY DEF StackType
<1>2. /\ Append(stack[t], f) \in Seq(Frame)
      /\ Len(Append(stack[t], f)) = Depth(t) + 1
      /\ Append(stack[t], f)[Depth(t) + 1] = f
      /\ SameBelow(Append(stack[t], f), stack[t], Depth(t))
  BY <1>1 DEF Depth, SameBelow
<1> QED
  BY <1>2 DEF Push, StackType

LEMMA PopFrame ==
    ASSUME StackType, NEW t \in Threads, Depth(t) > 0
    PROVE  /\ Pop(t) \in [Threads -> Seq(Frame)]
           /\ Len(Pop(t)[t]) = Depth(t) - 1
           /\ SameBelow(Pop(t)[t], stack[t], Depth(t) - 1)
           /\ \A u \in Threads \ {t} : Pop(t)[u] = stack[u]
<1>1. stack[t] \in Seq(Frame)
  BY DEF StackType
<1>2. /\ SubSeq(stack[t], 1, Depth(t) - 1) \in Seq(Frame)
      /\ Len(SubSeq(stack[t], 1, Depth(t) - 1)) = Depth(t) - 1
      /\ SameBelow(SubSeq(stack[t], 1, Depth(t) - 1), stack[t], Depth(t) - 1)
  BY <1>1 DEF Depth, SameBelow
<1> QED
  BY <1>2 DEF Pop, StackType

\* A frame that fits Nested wherever it is the innermost one.
GoodFrame(f) == f \in Frame /\ (f.pc \in {"body", "wait"} => f.cur \in Ids)

LEMMA TopIsGood ==
    ASSUME StackType, Nested, NEW t \in Threads, Depth(t) > 0
    PROVE  GoodFrame(Top(t)) /\ Depth(t) \in 1 .. MaxDepth /\ Depth(t) \in DOMAIN stack[t]
<1>1. stack[t] \in Seq(Frame) /\ Depth(t) \in Nat /\ Depth(t) <= MaxDepth
  BY BusAssumption DEF StackType, Depth
<1>2. Depth(t) \in DOMAIN stack[t] /\ Top(t) \in Frame
  BY <1>1 DEF Depth, Top
<1> QED
  BY <1>1, <1>2, BusAssumption DEF GoodFrame, Nested, Top

LEMMA ReplaceKeepsStack ==
    ASSUME StackType, Nested, NEW t \in Threads, Depth(t) > 0, NEW f, GoodFrame(f),
           stack' = Replace(t, f)
    PROVE  StackType' /\ Nested'
<1>1. /\ stack' \in [Threads -> Seq(Frame)]
      /\ Len(stack'[t]) = Depth(t)
      /\ stack'[t][Depth(t)] = f
      /\ SameBelow(stack'[t], stack[t], Depth(t) - 1)
      /\ \A u \in Threads \ {t} : stack'[u] = stack[u]
  BY ReplaceFrame DEF GoodFrame
<1>2. StackType'
  BY <1>1 DEF StackType, Depth
<1>3. ASSUME NEW u \in Threads, NEW n \in DOMAIN stack'[u]
      PROVE  /\ n < Len(stack'[u]) => stack'[u][n].pc = "body"
             /\ stack'[u][n].pc \in {"body", "wait"} => stack'[u][n].cur \in Ids
  <2>1. CASE u # t
    BY <2>1, <1>1 DEF Nested, Depth
  <2>2. CASE u = t
    <3>1. n \in 1 .. Depth(t) /\ Depth(t) \in Nat /\ DOMAIN stack[t] = 1 .. Depth(t)
      BY <2>2, <1>1 DEF StackType, Depth
    <3>2. CASE n = Depth(t)
      BY <3>2, <2>2, <1>1 DEF GoodFrame
    <3>3. CASE n # Depth(t)
      <4>1. stack'[t][n] = stack[t][n] /\ n \in DOMAIN stack[t] /\ n < Depth(t)
        BY <3>1, <3>3, <1>1 DEF SameBelow
      <4> QED
        BY <4>1, <2>2, <1>1 DEF Nested
    <3> QED
      BY <3>2, <3>3
  <2> QED
    BY <2>1, <2>2
<1> QED
  BY <1>2, <1>3 DEF Nested, Depth

LEMMA PushKeepsStack ==
    ASSUME StackType, Nested, NEW t \in Threads, InUserCode(t), Depth(t) < MaxDepth,
           NEW f, GoodFrame(f), stack' = Push(t, f)
    PROVE  StackType' /\ Nested'
<1>1. /\ stack' \in [Threads -> Seq(Frame)]
      /\ Len(stack'[t]) = Depth(t) + 1
      /\ stack'[t][Depth(t) + 1] = f
      /\ SameBelow(stack'[t], stack[t], Depth(t))
      /\ \A u \in Threads \ {t} : stack'[u] = stack[u]
  BY PushFrame DEF GoodFrame
<1>2. Depth(t) \in Nat
  BY DEF StackType, Depth
<1>3. StackType'
  <2>1. ASSUME NEW u \in Threads PROVE Len(stack'[u]) <= MaxDepth
    <3>1. CASE u = t
      BY <3>1, <1>1, <1>2, BusAssumption DEF StackType, Depth
    <3>2. CASE u # t
      BY <3>2, <1>1 DEF StackType, Depth
    <3> QED
      BY <3>1, <3>2
  <2> QED
    BY <2>1, <1>1 DEF StackType, Depth
<1>4. ASSUME NEW u \in Threads, NEW n \in DOMAIN stack'[u]
      PROVE  /\ n < Len(stack'[u]) => stack'[u][n].pc = "body"
             /\ stack'[u][n].pc \in {"body", "wait"} => stack'[u][n].cur \in Ids
  <2>1. CASE u # t
    BY <2>1, <1>1 DEF Nested, Depth
  <2>2. CASE u = t
    <3>1. n \in 1 .. Depth(t) + 1 /\ DOMAIN stack[t] = 1 .. Depth(t)
      BY <2>2, <1>1, <1>2 DEF StackType, Depth
    <3>2. CASE n = Depth(t) + 1
      BY <3>2, <2>2, <1>1 DEF GoodFrame
    <3>3. CASE n # Depth(t) + 1
      <4>1. stack'[t][n] = stack[t][n] /\ n \in DOMAIN stack[t] /\ n <= Depth(t)
        BY <3>1, <3>3, <1>1, <1>2 DEF SameBelow
      <4>2. stack[t][n].pc = "body"
        <5>1. CASE n = Depth(t)
          BY <5>1, <4>1, <3>1, <1>2 DEF InUserCode, At, Top
        <5>2. CASE n < Depth(t)
          BY <5>2, <4>1 DEF Nested
        <5> QED
          BY <5>1, <5>2, <4>1, <1>2, <3>1
      <4> QED
        BY <4>1, <4>2, <2>2 DEF Nested
    <3> QED
      BY <3>2, <3>3
  <2> QED
    BY <2>1, <2>2
<1> QED
  BY <1>3, <1>4 DEF Nested, Depth

LEMMA PopKeepsStack ==
    ASSUME StackType, Nested, NEW t \in Threads, Depth(t) > 0, stack' = Pop(t)
    PROVE  StackType' /\ Nested'
<1>1. /\ stack' \in [Threads -> Seq(Frame)]
      /\ Len(stack'[t]) = Depth(t) - 1
      /\ SameBelow(stack'[t], stack[t], Depth(t) - 1)
      /\ \A u \in Threads \ {t} : stack'[u] = stack[u]
  BY PopFrame
<1>2. Depth(t) \in Nat
  BY DEF StackType, Depth
<1>3. StackType'
  <2>1. ASSUME NEW u \in Threads PROVE Len(stack'[u]) <= MaxDepth
    <3>1. CASE u = t
      BY <3>1, <1>1, <1>2, BusAssumption DEF StackType, Depth
    <3>2. CASE u # t
      BY <3>2, <1>1 DEF StackType, Depth
    <3> QED
      BY <3>1, <3>2
  <2> QED
    BY <2>1, <1>1 DEF StackType, Depth
<1>4. ASSUME NEW u \in Threads, NEW n \in DOMAIN stack'[u]
      PROVE  /\ n < Len(stack'[u]) => stack'[u][n].pc = "body"
             /\ stack'[u][n].pc \in {"body", "wait"} => stack'[u][n].cur \in Ids
  <2>1. CASE u # t
    BY <2>1, <1>1 DEF Nested, Depth
  <2>2. CASE u = t
    <3>1. stack[t] \in Seq(Frame) /\ stack'[t] \in Seq(Frame)
      BY <1>1 DEF StackType
    <3>2. DOMAIN stack'[t] = 1 .. Depth(t) - 1 /\ DOMAIN stack[t] = 1 .. Depth(t)
      BY <3>1, <1>1 DEF Depth
    <3>3. n \in 1 .. Depth(t) - 1
      BY <3>2, <2>2
    <3>4. stack'[t][n] = stack[t][n] /\ n \in DOMAIN stack[t] /\ n < Depth(t)
      BY <3>2, <3>3, <1>1, <1>2 DEF SameBelow
    <3> QED
      BY <3>3, <3>4, <1>1, <1>2, <2>2 DEF Nested
  <2> QED
    BY <2>1, <2>2
<1> QED
  BY <1>3, <1>4 DEF Nested, Depth

-----------------------------------------------------------------------------
(* Waiting.                                                                *)

LEMMA ReplaceKeepsWaiting ==
    ASSUME StackType, Waiting, NEW t \in Threads, Depth(t) > 0, NEW f \in Frame,
           f.pc = "wait" => f.cur \in removed', removed \subseteq removed',
           stack' = Replace(t, f)
    PROVE  Waiting'
<1>1. /\ Len(stack'[t]) = Depth(t)
      /\ stack'[t][Depth(t)] = f
      /\ SameBelow(stack'[t], stack[t], Depth(t) - 1)
      /\ \A u \in Threads \ {t} : stack'[u] = stack[u]
      /\ stack' \in [Threads -> Seq(Frame)]
  BY ReplaceFrame
<1>2. /\ Depth(t) \in Nat
      /\ DOMAIN stack[t] = 1 .. Depth(t) /\ DOMAIN stack'[t] = 1 .. Depth(t)
  BY <1>1 DEF StackType, Depth
<1>3. ASSUME NEW u \in Threads, NEW n \in DOMAIN stack'[u], stack'[u][n].pc = "wait"
      PROVE  stack'[u][n].cur \in removed'
  <2>1. CASE u # t
    BY <2>1, <1>1, <1>3 DEF Waiting
  <2>2. CASE u = t /\ n = Depth(t)
    BY <2>2, <1>1, <1>3
  <2>3. CASE u = t /\ n # Depth(t)
    <3>1. n \in DOMAIN stack[t] /\ stack'[t][n] = stack[t][n]
      BY <1>1, <1>2, <2>3 DEF SameBelow
    <3> QED
      BY <3>1, <2>3, <1>3 DEF Waiting
  <2> QED
    BY <2>1, <2>2, <2>3
<1> QED
  BY <1>3 DEF Waiting

LEMMA PushKeepsWaiting ==
    ASSUME StackType, Waiting, NEW t \in Threads, NEW f \in Frame,
           f.pc = "wait" => f.cur \in removed', removed \subseteq removed',
           stack' = Push(t, f)
    PROVE  Waiting'
<1>1. /\ Len(stack'[t]) = Depth(t) + 1
      /\ stack'[t][Depth(t) + 1] = f
      /\ SameBelow(stack'[t], stack[t], Depth(t))
      /\ \A u \in Threads \ {t} : stack'[u] = stack[u]
      /\ stack' \in [Threads -> Seq(Frame)]
  BY PushFrame
<1>2. /\ Depth(t) \in Nat
      /\ DOMAIN stack[t] = 1 .. Depth(t) /\ DOMAIN stack'[t] = 1 .. Depth(t) + 1
  BY <1>1 DEF StackType, Depth
<1>3. ASSUME NEW u \in Threads, NEW n \in DOMAIN stack'[u], stack'[u][n].pc = "wait"
      PROVE  stack'[u][n].cur \in removed'
  <2>1. CASE u # t
    BY <2>1, <1>1, <1>3 DEF Waiting
  <2>2. CASE u = t /\ n = Depth(t) + 1
    BY <2>2, <1>1, <1>3
  <2>3. CASE u = t /\ n # Depth(t) + 1
    <3>1. n \in DOMAIN stack[t] /\ stack'[t][n] = stack[t][n]
      BY <1>1, <1>2, <2>3 DEF SameBelow
    <3> QED
      BY <3>1, <2>3, <1>3 DEF Waiting
  <2> QED
    BY <2>1, <2>2, <2>3
<1> QED
  BY <1>3 DEF Waiting

LEMMA PopKeepsWaiting ==
    ASSUME StackType, Waiting, NEW t \in Threads, Depth(t) > 0, removed' = removed,
           stack' = Pop(t)
    PROVE  Waiting'
<1>1. /\ Len(stack'[t]) = Depth(t) - 1
      /\ SameBelow(stack'[t], stack[t], Depth(t) - 1)
      /\ \A u \in Threads \ {t} : stack'[u] = stack[u]
      /\ stack' \in [Threads -> Seq(Frame)]
  BY PopFrame
<1>2. /\ Depth(t) \in Nat
      /\ DOMAIN stack[t] = 1 .. Depth(t) /\ DOMAIN stack'[t] = 1 .. Depth(t) - 1
  BY <1>1 DEF StackType, Depth
<1>3. ASSUME NEW u \in Threads, NEW n \in DOMAIN stack'[u], stack'[u][n].pc = "wait"
      PROVE  stack'[u][n].cur \in removed
  <2>1. CASE u # t
    BY <2>1, <1>1, <1>3 DEF Waiting
  <2>2. CASE u = t
    <3>1. n \in DOMAIN stack[t] /\ stack'[t][n] = stack[t][n]
      BY <1>1, <1>2, <2>2 DEF SameBelow
    <3> QED
      BY <3>1, <2>2, <1>3 DEF Waiting
  <2> QED
    BY <2>1, <2>2
<1> QED
  BY <1>3 DEF Waiting

-----------------------------------------------------------------------------
(* Balanced.                                                               *)

\* Replacing the innermost frame of t by f keeps the balance when `running'
\* changes at that invocation only, and to what f says.
LEMMA ReplaceKeepsBalance ==
    ASSUME StackType, Nested, Balanced, NEW t \in Threads, Depth(t) > 0,
           NEW f \in Frame, stack' = Replace(t, f),
           \A i \in Ids, u \in Threads, n \in 1 .. MaxDepth :
             <<u, n>> \in running'[i] <=>
               IF u = t /\ n = Depth(t) THEN f.pc = "body" /\ f.cur = i
               ELSE <<u, n>> \in running[i]
    PROVE  Balanced'
<1>1. /\ Len(stack'[t]) = Depth(t)
      /\ stack'[t][Depth(t)] = f
      /\ SameBelow(stack'[t], stack[t], Depth(t) - 1)
      /\ \A u \in Threads \ {t} : stack'[u] = stack[u]
      /\ stack' \in [Threads -> Seq(Frame)]
  BY ReplaceFrame
<1>2. /\ Depth(t) \in Nat
      /\ DOMAIN stack[t] = 1 .. Depth(t) /\ DOMAIN stack'[t] = 1 .. Depth(t)
  BY <1>1 DEF StackType, Depth
<1>3. ASSUME NEW i \in Ids, NEW u \in Threads, NEW n \in 1 .. MaxDepth
      PROVE  Counted(i, u, n)'
  <2>1. CASE u # t
    <3>1. stack'[u] = stack[u] /\ (<<u, n>> \in running'[i] <=> <<u, n>> \in running[i])
      BY <2>1, <1>1
    <3>2. Counted(i, u, n)
      BY DEF Balanced
    <3> QED
      BY <3>1, <3>2 DEF Counted, InHandler
  <2>2. CASE u = t /\ n = Depth(t)
    BY <2>2, <1>1, <1>2 DEF Counted, InHandler
  <2>3. CASE u = t /\ n # Depth(t)
    <3>1. n \in DOMAIN stack'[t] <=> n \in DOMAIN stack[t]
      BY <1>2
    <3>2. n \in DOMAIN stack[t] => stack'[t][n] = stack[t][n]
      BY <1>1, <1>2, <2>3 DEF SameBelow
    <3>3. <<t, n>> \in running'[i] <=> <<t, n>> \in running[i]
      BY <2>3
    <3> QED
      BY <3>1, <3>2, <3>3, <2>3 DEF Balanced, Counted, InHandler
  <2> QED
    BY <2>1, <2>2, <2>3
<1> QED
  BY <1>3 DEF Balanced

LEMMA PushKeepsBalance ==
    ASSUME StackType, Nested, Balanced, NEW t \in Threads, NEW f \in Frame, f.pc # "body",
           stack' = Push(t, f), running' = running
    PROVE  Balanced'
<1>1. /\ Len(stack'[t]) = Depth(t) + 1
      /\ stack'[t][Depth(t) + 1] = f
      /\ SameBelow(stack'[t], stack[t], Depth(t))
      /\ \A u \in Threads \ {t} : stack'[u] = stack[u]
      /\ stack' \in [Threads -> Seq(Frame)]
  BY PushFrame
<1>2. /\ Depth(t) \in Nat
      /\ DOMAIN stack[t] = 1 .. Depth(t) /\ DOMAIN stack'[t] = 1 .. Depth(t) + 1
  BY <1>1 DEF StackType, Depth
<1>3. ASSUME NEW i \in Ids, NEW u \in Threads, NEW n \in 1 .. MaxDepth
      PROVE  Counted(i, u, n)'
  <2>1. CASE u # t
    BY <2>1, <1>1 DEF Balanced, Counted, InHandler
  <2>2. CASE u = t /\ n = Depth(t) + 1
    BY <2>2, <1>1, <1>2 DEF Balanced, Counted, InHandler
  <2>3. CASE u = t /\ n # Depth(t) + 1
    <3>1. n \in DOMAIN stack'[t] <=> n \in DOMAIN stack[t]
      BY <1>2, <2>3
    <3>2. n \in DOMAIN stack[t] => stack'[t][n] = stack[t][n]
      BY <1>1, <1>2 DEF SameBelow
    <3> QED
      BY <3>1, <3>2, <2>3 DEF Balanced, Counted, InHandler
  <2> QED
    BY <2>1, <2>2, <2>3
<1> QED
  BY <1>3 DEF Balanced

LEMMA PopKeepsBalance ==
    ASSUME StackType, Nested, Balanced, NEW t \in Threads, Depth(t) > 0, Top(t).pc # "body",
           stack' = Pop(t), running' = running
    PROVE  Balanced'
<1>1. /\ Len(stack'[t]) = Depth(t) - 1
      /\ SameBelow(stack'[t], stack[t], Depth(t) - 1)
      /\ \A u \in Threads \ {t} : stack'[u] = stack[u]
      /\ stack' \in [Threads -> Seq(Frame)]
  BY PopFrame
<1>2. /\ Depth(t) \in Nat
      /\ DOMAIN stack[t] = 1 .. Depth(t) /\ DOMAIN stack'[t] = 1 .. Depth(t) - 1
  BY <1>1 DEF StackType, Depth
<1>3. ASSUME NEW i \in Ids, NEW u \in Threads, NEW n \in 1 .. MaxDepth
      PROVE  Counted(i, u, n)'
  <2>1. CASE u # t
    BY <2>1, <1>1 DEF Balanced, Counted, InHandler
  <2>2. CASE u = t /\ n = Depth(t)
    BY <2>2, <1>1, <1>2 DEF Balanced, Counted, InHandler, Top
  <2>3. CASE u = t /\ n # Depth(t)
    <3>1. n \in DOMAIN stack'[t] <=> n \in DOMAIN stack[t]
      BY <1>2, <2>3
    <3>2. n \in DOMAIN stack'[t] => stack'[t][n] = stack[t][n]
      BY <1>1, <1>2 DEF SameBelow
    <3> QED
      BY <3>1, <3>2, <2>3 DEF Balanced, Counted, InHandler
  <2> QED
    BY <2>1, <2>2, <2>3
<1> QED
  BY <1>3 DEF Balanced

-----------------------------------------------------------------------------
(* The steps.                                                              *)

LEMMA InitInv == Init => BusInv
<1> SUFFICES ASSUME Init PROVE BusInv
  OBVIOUS
<1>1. BusType
  BY BusAssumption DEF Init, BusType, Ids
<1>2. StackType /\ Nested /\ Waiting
  BY BusAssumption DEF Init, StackType, Nested, Waiting, Depth
<1>3. Balanced
  BY DEF Init, Balanced, Counted
<1> QED
  BY <1>1, <1>2, <1>3 DEF BusInv, Init, Quiet

\* Subscribing touches neither stacks nor invocations.
LEMMA SubscribeStep ==
    ASSUME BusInv, NEW t \in Threads, NEW y \in Types, Subscribe(t, y)
    PROVE  BusInv'
<1>1. BusType'
  <2>1. made' = made + 1 /\ made' \in 0 .. MaxSubs /\ made \in Nat
    BY BusAssumption DEF BusInv, BusType, Subscribe
  <2>2. \A z \in Types : handlers[z] \in Seq(1 .. made')
    <3>1. 1 .. made \subseteq 1 .. made'
      BY <2>1
    <3> QED
      BY <3>1, SeqMonotonic DEF BusInv, BusType
  <2>3. handlers' \in [Types -> Seq(1 .. made')]
    <3>1. made + 1 \in 1 .. made'
      BY <2>1
    <3>2. Append(handlers[y], made + 1) \in Seq(1 .. made')
      BY <3>1, <2>2
    <3> QED
      BY <3>2, <2>2 DEF BusInv, BusType, Subscribe
  <2>4. removed' \subseteq 1 .. made'
    BY <2>1 DEF BusInv, BusType, Subscribe
  <2> QED
    BY <2>1, <2>3, <2>4 DEF BusInv, BusType, Subscribe
<1>2. StackType' /\ Nested' /\ Waiting' /\ Balanced' /\ Quiet'
  BY DEF BusInv, Subscribe, StackType, Nested, Waiting, Depth, Balanced, Counted, InHandler, Quiet
<1> QED
  BY <1>1, <1>2 DEF BusInv

\* Ids handed out so far are ids.
LEMMA SubscribedAreIds ==
    ASSUME BusType PROVE 1 .. made \subseteq Ids /\ Seq(1 .. made) \subseteq Seq(Ids)
<1>1. 1 .. made \subseteq Ids
  BY BusAssumption DEF BusType, Ids
<1> QED
  BY <1>1, SeqMonotonic

LEMMA PublishStep ==
    ASSUME BusInv, NEW t \in Threads, NEW y \in Types, Publish(t, y)
    PROVE  BusInv'
<1>1. BusType'
  BY BusAssumption DEF BusInv, BusType, Publish
<1>2. StackType' /\ Nested' /\ Waiting' /\ Balanced'
  <2>1. CASE handlers[y] = <<>>
    <3>1. stack' = stack /\ running' = running /\ removed' = removed
      BY <2>1 DEF Publish
    <3> QED
      BY <3>1 DEF BusInv, StackType, Nested, Waiting, Depth, Balanced, Counted, InHandler
  <2>2. CASE handlers[y] # <<>>
    <3> DEFINE f == PublishFrame(handlers[y])
    <3>1. handlers[y] \in Seq(Ids)
      BY SubscribedAreIds DEF BusInv, BusType
    <3>2. f \in Frame /\ f.pc = "loop"
      BY <3>1 DEF PublishFrame, Frame
    <3>3. GoodFrame(f) /\ f.pc # "body"
      BY <3>2 DEF GoodFrame
    <3>4. /\ stack' = Push(t, f) /\ running' = running /\ removed' = removed
          /\ InUserCode(t) /\ Depth(t) < MaxDepth
      BY <2>2 DEF Publish
    <3> HIDE DEF f
    <3>5. StackType' /\ Nested'
      BY <3>3, <3>4, PushKeepsStack DEF BusInv
    <3>6. Balanced'
      BY <3>2, <3>3, <3>4, PushKeepsBalance DEF BusInv
    <3>7. Waiting'
      BY <3>2, <3>4, PushKeepsWaiting DEF BusInv
    <3> QED
      BY <3>5, <3>6, <3>7
  <2> QED
    BY <2>1, <2>2
<1>3. Quiet'
  BY DEF BusInv, Quiet, Publish
<1> QED
  BY <1>1, <1>2, <1>3 DEF BusInv

\* A handler that is gone is removed, and a removed one is not started.
LEMMA BeginInvokeStep ==
    ASSUME BusInv, NEW t \in Threads, BeginInvoke(t)
    PROVE  BusInv'
<1> DEFINE i == Head(Top(t).todo)
<1>1. Depth(t) > 0 /\ Top(t).pc = "loop" /\ Top(t).todo # <<>>
  BY DEF BeginInvoke, At
<1>2. GoodFrame(Top(t)) /\ Depth(t) \in 1 .. MaxDepth
  BY <1>1, TopIsGood DEF BusInv
<1>3. Top(t) \in Frame /\ Top(t).todo \in Seq(Ids)
  BY <1>2 DEF GoodFrame, Frame
<1>4. i \in Ids /\ Tail(Top(t).todo) \in Seq(Ids)
  BY <1>1, <1>3
<1>5. running \in [Ids -> SUBSET Invocations]
  BY DEF BusInv, BusType
<1>6. CASE i \in removed
  <2> DEFINE f == [Top(t) EXCEPT !.todo = Tail(@)]
  <2>1. f \in Frame /\ f.pc = "loop"
    BY <1>1, <1>3, <1>4 DEF Frame
  <2>2. stack' = Replace(t, f) /\ running' = running /\ removed' = removed
    BY <1>6 DEF BeginInvoke
  <2> HIDE DEF f
  <2>3. GoodFrame(f)
    BY <2>1 DEF GoodFrame
  <2>4. StackType' /\ Nested'
    BY <2>2, <2>3, <1>1, ReplaceKeepsStack DEF BusInv
  <2>5. \A j \in Ids, u \in Threads, n \in 1 .. MaxDepth :
          <<u, n>> \in running'[j] <=>
            IF u = t /\ n = Depth(t) THEN f.pc = "body" /\ f.cur = j ELSE <<u, n>> \in running[j]
    <3> SUFFICES ASSUME NEW j \in Ids, NEW u \in Threads, NEW n \in 1 .. MaxDepth
        PROVE <<u, n>> \in running'[j] <=>
            IF u = t /\ n = Depth(t) THEN f.pc = "body" /\ f.cur = j ELSE <<u, n>> \in running[j]
      OBVIOUS
    <3>1. <<t, Depth(t)>> \notin running[j]
      BY <1>1, <1>2 DEF BusInv, Balanced, Counted, InHandler, Top
    <3> QED
      BY <3>1, <2>1, <2>2
  <2>6. Balanced'
    BY <2>1, <2>2, <2>5, <1>1, ReplaceKeepsBalance DEF BusInv
  <2>7. BusType' /\ Quiet'
    BY <2>2 DEF BusInv, BusType, Quiet, BeginInvoke
  <2>8. Waiting'
    BY <2>1, <2>2, <1>1, ReplaceKeepsWaiting DEF BusInv
  <2> QED
    BY <2>4, <2>6, <2>7, <2>8 DEF BusInv
<1>7. CASE i \notin removed
  <2> DEFINE f == [Top(t) EXCEPT !.pc = "body", !.cur = i, !.todo = Tail(@)]
  <2>1. f \in Frame /\ f.pc = "body" /\ f.cur = i
    BY <1>3, <1>4 DEF Frame
  <2>2. /\ stack' = Replace(t, f)
        /\ running' = [running EXCEPT ![i] = @ \cup {<<t, Depth(t)>>}]
        /\ removed' = removed
    BY <1>7 DEF BeginInvoke
  <2> HIDE DEF f, i
  <2>3. GoodFrame(f)
    BY <2>1, <1>4 DEF GoodFrame
  <2>4. StackType' /\ Nested'
    BY <2>2, <2>3, <1>1, ReplaceKeepsStack DEF BusInv
  <2>5. \A j \in Ids, u \in Threads, n \in 1 .. MaxDepth :
          <<u, n>> \in running'[j] <=>
            IF u = t /\ n = Depth(t) THEN f.pc = "body" /\ f.cur = j ELSE <<u, n>> \in running[j]
    <3> SUFFICES ASSUME NEW j \in Ids, NEW u \in Threads, NEW n \in 1 .. MaxDepth
        PROVE <<u, n>> \in running'[j] <=>
            IF u = t /\ n = Depth(t) THEN f.pc = "body" /\ f.cur = j ELSE <<u, n>> \in running[j]
      OBVIOUS
    <3>1. running'[j] = IF j = i THEN running[j] \cup {<<t, Depth(t)>>} ELSE running[j]
      BY <2>2, <1>4, <1>5
    <3>2. <<t, Depth(t)>> \notin running[j]
      BY <1>1, <1>2 DEF BusInv, Balanced, Counted, InHandler, Top
    <3> QED
      BY <3>1, <3>2, <2>1
  <2>6. Balanced'
    BY <2>1, <2>2, <2>5, <1>1, ReplaceKeepsBalance DEF BusInv
  <2>7. BusType'
    <3>1. <<t, Depth(t)>> \in Invocations
      BY <1>2 DEF Invocations
    <3>2. running' \in [Ids -> SUBSET Invocations]
      BY <3>1, <2>2, <1>4, <1>5
    <3> QED
      BY <3>2 DEF BusInv, BusType, BeginInvoke
  <2>8. Quiet'
    <3>1. i \notin gone
      BY <1>7 DEF BusInv, BusType
    <3>2. gone' = gone /\ gone \subseteq Ids
      BY SubscribedAreIds DEF BusInv, BusType, BeginInvoke
    <3> QED
      BY <3>1, <3>2, <2>2, <1>4, <1>5 DEF BusInv, Quiet
  <2>9. Waiting'
    BY <2>1, <2>2, <1>1, ReplaceKeepsWaiting DEF BusInv
  <2> QED
    BY <2>4, <2>6, <2>7, <2>8, <2>9 DEF BusInv
<1> QED
  BY <1>6, <1>7

LEMMA EndInvokeStep ==
    ASSUME BusInv, NEW t \in Threads, EndInvoke(t)
    PROVE  BusInv'
<1> DEFINE i == Top(t).cur
           left == StopRunning(t, i)
<1>1. Depth(t) > 0 /\ Top(t).pc = "body"
  BY DEF EndInvoke, At
<1>2. GoodFrame(Top(t)) /\ Depth(t) \in 1 .. MaxDepth
  BY <1>1, TopIsGood DEF BusInv
<1>3. Top(t) \in Frame /\ i \in Ids /\ running \in [Ids -> SUBSET Invocations]
  BY <1>1, <1>2 DEF GoodFrame, BusInv, BusType
<1>4. PICK rest \in {Top(t).todo, <<>>} :
        /\ running' = [running EXCEPT ![i] = left]
        /\ stack' = Replace(t, [Top(t) EXCEPT !.pc = IF Drained(i, left) THEN "notify" ELSE "loop",
                                              !.cur = 0, !.todo = rest])
  BY DEF EndInvoke
<1>5. rest \in Seq(Ids)
  <2>1. Top(t).todo \in Seq(Ids) /\ <<>> \in Seq(Ids)
    BY <1>3 DEF Frame
  <2> QED
    BY <2>1, <1>4
<1> DEFINE f == [Top(t) EXCEPT !.pc = IF Drained(i, left) THEN "notify" ELSE "loop",
                               !.cur = 0, !.todo = rest]
<1>6. f \in Frame /\ f.pc \in {"notify", "loop"}
  BY <1>3, <1>5 DEF Frame
<1>7. stack' = Replace(t, f) /\ removed' = removed
  BY <1>4 DEF EndInvoke
<1>8. \A j \in Ids : running'[j] = IF j = i THEN running[j] \ {<<t, Depth(t)>>} ELSE running[j]
  BY <1>3, <1>4 DEF StopRunning
<1> HIDE DEF f, left
<1>9. GoodFrame(f)
  BY <1>6 DEF GoodFrame
<1>10. StackType' /\ Nested'
  BY <1>7, <1>9, <1>1, ReplaceKeepsStack DEF BusInv
<1>11. \A j \in Ids, u \in Threads, n \in 1 .. MaxDepth :
         <<u, n>> \in running'[j] <=>
           IF u = t /\ n = Depth(t) THEN f.pc = "body" /\ f.cur = j ELSE <<u, n>> \in running[j]
  <2> SUFFICES ASSUME NEW j \in Ids, NEW u \in Threads, NEW n \in 1 .. MaxDepth
      PROVE <<u, n>> \in running'[j] <=>
          IF u = t /\ n = Depth(t) THEN f.pc = "body" /\ f.cur = j ELSE <<u, n>> \in running[j]
    OBVIOUS
  <2>1. <<t, Depth(t)>> \in running[j] => j = i
    BY <1>1, <1>2 DEF BusInv, Balanced, Counted, InHandler, Top
  <2> HIDE DEF i
  <2> QED
    BY <2>1, <1>8, <1>6
<1>12. Balanced'
  BY <1>6, <1>7, <1>11, <1>1, ReplaceKeepsBalance DEF BusInv
<1>13. BusType'
  <2>1. running' \in [Ids -> SUBSET Invocations]
    BY <1>3, <1>4 DEF StopRunning, left
  <2> QED
    BY <2>1 DEF BusInv, BusType, EndInvoke
<1>15. Waiting'
  BY <1>6, <1>7, <1>1, ReplaceKeepsWaiting DEF BusInv
<1>14. Quiet'
  <2>1. gone' = gone /\ gone \subseteq Ids
    BY SubscribedAreIds DEF BusInv, BusType, EndInvoke
  <2> QED
    BY <2>1, <1>8 DEF BusInv, Quiet
<1> QED
  BY <1>10, <1>12, <1>13, <1>14, <1>15 DEF BusInv

LEMMA WokenFrame ==
    ASSUME NEW f \in Frame, NEW b \in BOOLEAN
    PROVE  /\ [f EXCEPT !.woken = b] \in Frame
           /\ [f EXCEPT !.woken = b].pc = f.pc
           /\ [f EXCEPT !.woken = b].cur = f.cur
BY DEF Frame

\* A notification changes no program counter but the notifier's.
LEMMA NotifyStep ==
    ASSUME BusInv, NEW t \in Threads, Notify(t)
    PROVE  BusInv'
<1> DEFINE f == [Top(t) EXCEPT !.pc = "loop"]
           s == Replace(t, f)
<1>1. Depth(t) > 0 /\ Top(t).pc = "notify"
  BY DEF Notify, At
<1>2. GoodFrame(Top(t)) /\ Depth(t) \in 1 .. MaxDepth
  BY <1>1, TopIsGood DEF BusInv
<1>3. f \in Frame /\ f.pc = "loop"
  BY <1>2 DEF GoodFrame, Frame
<1> HIDE DEF f
<1>4. /\ s \in [Threads -> Seq(Frame)]
      /\ Len(s[t]) = Depth(t)
      /\ s[t][Depth(t)] = f
      /\ SameBelow(s[t], stack[t], Depth(t) - 1)
      /\ \A u \in Threads \ {t} : s[u] = stack[u]
  BY <1>1, <1>3, ReplaceFrame DEF BusInv
<1> HIDE DEF s
<1>5. stack' = WakeAll(s) /\ running' = running
  BY DEF Notify, s, f
<1>6. ASSUME NEW u \in Threads
      PROVE  /\ DOMAIN stack'[u] = DOMAIN stack[u] /\ Len(stack'[u]) = Len(stack[u])
             /\ stack'[u] \in Seq(Frame)
             /\ \A n \in DOMAIN stack[u] :
                  IF u = t /\ n = Depth(t)
                  THEN stack'[u][n].pc = "loop"
                  ELSE stack'[u][n].pc = stack[u][n].pc /\ stack'[u][n].cur = stack[u][n].cur
  <2>1. stack[u] \in Seq(Frame) /\ s[u] \in Seq(Frame) /\ Len(s[u]) = Len(stack[u])
    BY <1>4 DEF BusInv, StackType, Depth
  <2>2. stack'[u] = [n \in DOMAIN s[u] |-> [s[u][n] EXCEPT !.woken = s[u][n].pc = "wait"]]
    BY <1>5 DEF WakeAll
  <2>3. DOMAIN s[u] = 1 .. Len(stack[u]) /\ DOMAIN stack[u] = 1 .. Len(stack[u])
    BY <2>1
  <2>4. \A n \in DOMAIN s[u] : s[u][n] \in Frame
    BY <2>1
  <2>5. ASSUME NEW n \in DOMAIN s[u]
        PROVE  /\ stack'[u][n] \in Frame
               /\ stack'[u][n].pc = s[u][n].pc /\ stack'[u][n].cur = s[u][n].cur
    <3>1. stack'[u][n] = [s[u][n] EXCEPT !.woken = s[u][n].pc = "wait"] /\ s[u][n] \in Frame
      BY <2>2, <2>4
    <3>2. (s[u][n].pc = "wait") \in BOOLEAN
      OBVIOUS
    <3> QED
      BY <3>1, <3>2, WokenFrame
  <2>6. stack'[u] \in Seq(Frame) /\ Len(stack'[u]) = Len(stack[u])
        /\ DOMAIN stack'[u] = DOMAIN stack[u]
    <3>1. Len(stack[u]) \in Nat
      BY <2>1
    <3>2. stack'[u] \in [1 .. Len(stack[u]) -> Frame]
      <4>1. DOMAIN stack'[u] = 1 .. Len(stack[u])
        BY <2>2, <2>3
      <4>2. stack'[u] = [n \in 1 .. Len(stack[u]) |-> stack'[u][n]]
        BY <2>2, <2>3
      <4> QED
        BY <4>2, <2>3, <2>5
    <3>3. stack'[u] \in Seq(Frame)
      BY <3>1, <3>2, SeqDef
    <3>4. Len(stack'[u]) = Len(stack[u])
      BY <3>1, <3>2, <3>3
    <3> QED
      BY <3>2, <3>3, <3>4, <2>3
  <2>7. ASSUME NEW n \in DOMAIN stack[u], ~(u = t /\ n = Depth(t))
        PROVE  s[u][n] = stack[u][n]
    <3>1. CASE u # t
      BY <3>1, <1>4
    <3>2. CASE u = t
      BY <3>2, <2>7, <2>3, <1>2, <1>4 DEF SameBelow, Depth
    <3> QED
      BY <3>1, <3>2
  <2>8. u = t => s[u][Depth(t)].pc = "loop"
    BY <1>3, <1>4
  <2>9. \A n \in DOMAIN stack[u] :
          IF u = t /\ n = Depth(t)
          THEN stack'[u][n].pc = "loop"
          ELSE stack'[u][n].pc = stack[u][n].pc /\ stack'[u][n].cur = stack[u][n].cur
    BY <2>3, <2>5, <2>7, <2>8
  <2> QED
    BY <2>6, <2>9
<1>7. StackType'
  <2>1. DOMAIN stack' = Threads /\ stack' = [u \in Threads |-> stack'[u]]
    BY <1>5 DEF WakeAll
  <2> QED
    BY <2>1, <1>6 DEF BusInv, StackType, Depth
<1>8. Nested'
  <2> SUFFICES ASSUME NEW u \in Threads, NEW n \in DOMAIN stack'[u]
      PROVE  /\ n < Len(stack'[u]) => stack'[u][n].pc = "body"
             /\ stack'[u][n].pc \in {"body", "wait"} => stack'[u][n].cur \in Ids
    BY DEF Nested, Depth
  <2>1. n \in DOMAIN stack[u] /\ Len(stack'[u]) = Len(stack[u])
    BY <1>6
  <2>2. /\ n < Len(stack[u]) => stack[u][n].pc = "body"
        /\ stack[u][n].pc \in {"body", "wait"} => stack[u][n].cur \in Ids
    BY <2>1 DEF BusInv, Nested, Depth
  <2>3. IF u = t /\ n = Depth(t)
        THEN stack'[u][n].pc = "loop"
        ELSE stack'[u][n].pc = stack[u][n].pc /\ stack'[u][n].cur = stack[u][n].cur
    BY <2>1, <1>6
  <2>4. u = t /\ n = Depth(t) => ~(n < Len(stack'[u]))
    BY <2>1, <1>2 DEF Depth
  <2> QED
    BY <2>1, <2>2, <2>3, <2>4
<1>9. Balanced'
  <2> SUFFICES ASSUME NEW j \in Ids, NEW u \in Threads, NEW n \in 1 .. MaxDepth
      PROVE  Counted(j, u, n)'
    BY DEF Balanced
  <2>1. Counted(j, u, n)
    BY DEF BusInv, Balanced
  <2>2. n \in DOMAIN stack'[u] <=> n \in DOMAIN stack[u]
    BY <1>6
  <2>3. n \in DOMAIN stack[u] =>
          IF u = t /\ n = Depth(t)
          THEN stack'[u][n].pc = "loop"
          ELSE stack'[u][n].pc = stack[u][n].pc /\ stack'[u][n].cur = stack[u][n].cur
    BY <1>6
  <2>4. u = t /\ n = Depth(t) => stack[u][n].pc = "notify"
    BY <1>1 DEF Top
  <2> QED
    BY <2>1, <2>2, <2>3, <2>4, <1>5 DEF Counted, InHandler
<1>10. BusType' /\ Quiet'
  BY DEF Notify, BusInv, BusType, Quiet
<1>11. Waiting'
  <2> SUFFICES ASSUME NEW u \in Threads, NEW n \in DOMAIN stack'[u], stack'[u][n].pc = "wait"
      PROVE  stack'[u][n].cur \in removed'
    BY DEF Waiting
  <2>1. n \in DOMAIN stack[u] /\ removed' = removed
    BY <1>6 DEF Notify
  <2>2. IF u = t /\ n = Depth(t)
        THEN stack'[u][n].pc = "loop"
        ELSE stack'[u][n].pc = stack[u][n].pc /\ stack'[u][n].cur = stack[u][n].cur
    BY <2>1, <1>6
  <2>3. stack[u][n].pc = "wait" => stack[u][n].cur \in removed
    BY <2>1 DEF BusInv, Waiting
  <2> QED
    BY <2>1, <2>2, <2>3
<1> QED
  BY <1>7, <1>8, <1>9, <1>10, <1>11 DEF BusInv

LEMMA EndPublishStep ==
    ASSUME BusInv, NEW t \in Threads, EndPublish(t)
    PROVE  BusInv'
<1>1. /\ Depth(t) > 0 /\ Top(t).pc # "body" /\ stack' = Pop(t)
      /\ running' = running /\ removed' = removed
  BY DEF EndPublish, At
<1>2. StackType' /\ Nested'
  BY <1>1, PopKeepsStack DEF BusInv
<1>3. Waiting'
  BY <1>1, PopKeepsWaiting DEF BusInv
<1>4. Balanced'
  BY <1>1, PopKeepsBalance DEF BusInv
<1>5. BusType' /\ Quiet'
  BY DEF EndPublish, BusInv, BusType, Quiet
<1> QED
  BY <1>2, <1>3, <1>4, <1>5 DEF BusInv

\* Erasing keeps the ids of a type among those handed out.
LEMMA EraseKeepsType ==
    ASSUME BusType, NEW i \in Ids, Erase(i)
    PROVE  handlers' \in [Types -> Seq(1 .. made)] /\ i \in 1 .. made
<1>1. PICK y \in Types : \E n \in DOMAIN handlers[y] :
        /\ handlers[y][n] = i
        /\ handlers' = [handlers EXCEPT ![y] = SubSeq(@, 1, n - 1) \o SubSeq(@, n + 1, Len(@))]
  BY DEF Erase
<1>2. PICK n \in DOMAIN handlers[y] :
        /\ handlers[y][n] = i
        /\ handlers' = [handlers EXCEPT ![y] = SubSeq(@, 1, n - 1) \o SubSeq(@, n + 1, Len(@))]
  BY <1>1
<1> DEFINE ids == handlers[y]
<1>3. ids \in Seq(1 .. made) /\ n \in 1 .. Len(ids) /\ Len(ids) \in Nat
  BY DEF BusType
<1> HIDE DEF ids
<1>4. /\ SubSeq(ids, 1, n - 1) \in Seq(1 .. made)
      /\ SubSeq(ids, n + 1, Len(ids)) \in Seq(1 .. made)
  <2> DEFINE S == 1 .. made
  <2>0. ids \in Seq(S)
    BY <1>3
  <2> HIDE DEF S
  <2>1. \A k \in 1 .. Len(ids) : ids[k] \in S
    BY <2>0
  <2>2. /\ n - 1 \in Int /\ n + 1 \in Int /\ Len(ids) \in Int
        /\ \A k \in 1 .. n - 1 : ids[k] \in S
        /\ \A k \in n + 1 .. Len(ids) : ids[k] \in S
    BY <2>1, <1>3
  <2>3. SubSeq(ids, 1, n - 1) \in Seq(S) /\ SubSeq(ids, n + 1, Len(ids)) \in Seq(S)
    BY <2>2, SubSeqProperties
  <2> QED
    BY <2>3 DEF S
<1>5. SubSeq(ids, 1, n - 1) \o SubSeq(ids, n + 1, Len(ids)) \in Seq(1 .. made)
  BY <1>4
<1>6. handlers' = [handlers EXCEPT ![y] = SubSeq(ids, 1, n - 1) \o SubSeq(ids, n + 1, Len(ids))]
  BY <1>2 DEF ids
<1>7. i \in 1 .. made
  <2> DEFINE S == 1 .. made
  <2>1. ids \in Seq(S)
    BY <1>3
  <2> HIDE DEF S
  <2>2. ids[n] \in S
    BY <2>1, <1>3
  <2> QED
    BY <2>2, <1>2 DEF ids, S
<1> QED
  BY <1>5, <1>6, <1>7 DEF BusType

\* unsubscribe either leaves at once, with no invocation in flight or from inside
\* the handler, or goes to sleep with the handler marked.
LEMMA UnsubscribeStep ==
    ASSUME BusInv, NEW t \in Threads, NEW i \in Ids, Unsubscribe(t, i)
    PROVE  BusInv'
<1>1. /\ InUserCode(t) /\ Erase(i) /\ removed' = removed \cup {i}
      /\ made' = made /\ running' = running /\ published' = published
  BY DEF Unsubscribe, Retire
<1>2. handlers' \in [Types -> Seq(1 .. made)] /\ i \in 1 .. made
  BY <1>1, EraseKeepsType DEF BusInv
<1>4. (gone' = gone \/ gone' = gone \cup {i}) => BusType'
  BY <1>1, <1>2 DEF BusInv, BusType
<1>5. CASE ~Inside(t, i) /\ running[i] # {} /\ Depth(t) < MaxDepth
           /\ stack' = Push(t, WaitFrame(i)) /\ gone' = gone
  <2>1. /\ WaitFrame(i) \in Frame /\ WaitFrame(i).pc = "wait" /\ WaitFrame(i).cur = i
    BY DEF WaitFrame, Frame
  <2> DEFINE f == WaitFrame(i)
  <2>2. f \in Frame /\ f.pc # "body" /\ GoodFrame(f) /\ (f.pc = "wait" => f.cur \in removed')
    BY <2>1, <1>1 DEF GoodFrame
  <2>3. stack' = Push(t, f)
    BY <1>5
  <2> HIDE DEF f
  <2>4. StackType' /\ Nested'
    BY <2>2, <2>3, <1>1, <1>5, PushKeepsStack DEF BusInv
  <2>5. Waiting'
    BY <2>2, <2>3, <1>1, PushKeepsWaiting DEF BusInv
  <2>6. Balanced'
    BY <2>2, <2>3, <1>1, PushKeepsBalance DEF BusInv
  <2>7. Quiet'
    BY <1>1, <1>5 DEF BusInv, Quiet
  <2> QED
    BY <2>4, <2>5, <2>6, <2>7, <1>4, <1>5 DEF BusInv
<1>6. CASE /\ stack' = stack
           /\ gone' = gone \/ (gone' = gone \cup {i} /\ running[i] = {})
  <2>1. StackType' /\ Nested' /\ Balanced' /\ Waiting'
    BY <1>1, <1>6 DEF BusInv, StackType, Nested, Waiting, Depth, Balanced, Counted, InHandler
  <2>2. Quiet'
    BY <1>1, <1>6 DEF BusInv, Quiet
  <2> QED
    BY <2>1, <2>2, <1>4, <1>6 DEF BusInv
<1> QED
  BY <1>5, <1>6 DEF Unsubscribe

LEMMA WakeStep ==
    ASSUME BusInv, NEW t \in Threads, Wake(t)
    PROVE  BusInv'
<1>1. /\ Depth(t) > 0 /\ Top(t).pc = "wait"
      /\ running' = running /\ removed' = removed
  BY DEF Wake, At
<1>2. GoodFrame(Top(t)) /\ Depth(t) \in DOMAIN stack[t] /\ Depth(t) \in 1 .. MaxDepth
  BY <1>1, TopIsGood DEF BusInv
<1>3. Top(t).cur \in removed
  BY <1>1, <1>2 DEF BusInv, Waiting, Top
<1>4. CASE running[Top(t).cur] = {}
  <2>1. stack' = Pop(t) /\ gone' = gone \cup {Top(t).cur}
    BY <1>4 DEF Wake
  <2>2. StackType' /\ Nested'
    BY <1>1, <2>1, PopKeepsStack DEF BusInv
  <2>3. Waiting'
    BY <1>1, <2>1, PopKeepsWaiting DEF BusInv
  <2>4. Balanced'
    BY <1>1, <2>1, PopKeepsBalance DEF BusInv
  <2>5. BusType'
    BY <2>1, <1>3 DEF Wake, BusInv, BusType
  <2>6. Quiet'
    BY <2>1, <1>1, <1>4 DEF BusInv, Quiet
  <2> QED
    BY <2>2, <2>3, <2>4, <2>5, <2>6 DEF BusInv
<1>5. CASE running[Top(t).cur] # {}
  <2> DEFINE f == [Top(t) EXCEPT !.woken = FALSE]
  <2>1. f \in Frame /\ f.pc = "wait" /\ f.cur = Top(t).cur
    BY <1>1, <1>2, WokenFrame DEF GoodFrame
  <2>2. stack' = Replace(t, f) /\ gone' = gone
    BY <1>5 DEF Wake
  <2>3. GoodFrame(f)
    BY <2>1, <1>1, <1>2 DEF GoodFrame
  <2> HIDE DEF f
  <2>4. StackType' /\ Nested'
    BY <2>2, <2>3, <1>1, ReplaceKeepsStack DEF BusInv
  <2>5. Waiting'
    BY <2>1, <2>2, <1>1, <1>3, ReplaceKeepsWaiting DEF BusInv
  <2>6. \A j \in Ids, u \in Threads, n \in 1 .. MaxDepth :
          <<u, n>> \in running'[j] <=>
            IF u = t /\ n = Depth(t) THEN f.pc = "body" /\ f.cur = j ELSE <<u, n>> \in running[j]
    <3> SUFFICES ASSUME NEW j \in Ids, NEW u \in Threads, NEW n \in 1 .. MaxDepth
        PROVE <<u, n>> \in running'[j] <=>
            IF u = t /\ n = Depth(t) THEN f.pc = "body" /\ f.cur = j ELSE <<u, n>> \in running[j]
      OBVIOUS
    <3>1. <<t, Depth(t)>> \notin running[j]
      BY <1>1, <1>2 DEF BusInv, Balanced, Counted, InHandler, Top
    <3> QED
      BY <3>1, <2>1, <1>1
  <2>7. Balanced'
    BY <2>1, <2>2, <2>6, <1>1, ReplaceKeepsBalance DEF BusInv
  <2>8. BusType' /\ Quiet'
    BY <2>2, <1>1 DEF Wake, BusInv, BusType, Quiet
  <2> QED
    BY <2>4, <2>5, <2>7, <2>8 DEF BusInv
<1> QED
  BY <1>4, <1>5

LEMMA StutterStep == ASSUME BusInv, UNCHANGED vars PROVE BusInv'
BY DEF vars, BusInv, BusType, StackType, Nested, Waiting, Depth, Balanced, Counted, InHandler, Quiet

-----------------------------------------------------------------------------
(* The theorems.                                                           *)

\* The invocations counted are those running, a waiting thread has marked its
\* handler, and a handler whose unsubscribe returned has none in flight.
THEOREM BusInvariant == Spec => []BusInv
<1>1. Init => BusInv
  BY InitInv
<1>2. BusInv /\ [Next]_vars => BusInv'
  <2> SUFFICES ASSUME BusInv, [Next]_vars PROVE BusInv'
    OBVIOUS
  <2>1. ASSUME NEW t \in Threads, Bus(t) PROVE BusInv'
    BY <2>1, BeginInvokeStep, EndInvokeStep, NotifyStep, EndPublishStep, WakeStep DEF Bus
  <2>2. ASSUME NEW t \in Threads, NEW y \in Types, Subscribe(t, y) \/ Publish(t, y) PROVE BusInv'
    BY <2>2, SubscribeStep, PublishStep
  <2>3. ASSUME NEW t \in Threads, NEW i \in Ids, Unsubscribe(t, i) PROVE BusInv'
    BY <2>3, UnsubscribeStep
  <2>4. CASE UNCHANGED vars
    BY <2>4, StutterStep
  <2> QED
    BY <2>1, <2>2, <2>3, <2>4 DEF Next
<1> QED
  BY <1>1, <1>2, PTL DEF Spec

\* Every state of the bus is one of its type, frames nest inside handlers only.
THEOREM BusTypeCorrect == Spec => []TypeOK
<1>1. BusInv => TypeOK
  BY DEF BusInv, TypeOK
<1> QED
  BY <1>1, BusInvariant, PTL

\* InvokeGuard: in_flight and the running list are the invocations on the stacks.
THEOREM InvocationsBalanced == Spec => []Balanced
<1>1. BusInv => Balanced
  BY DEF BusInv
<1> QED
  BY <1>1, BusInvariant, PTL

\* The unsubscribe barrier: no thread is inside a handler whose unsubscribe has
\* returned, for any threads, event types, subscriptions and depth of nesting,
\* and whether or not a handler may drop another handler's token.
THEOREM BarrierHolds == Spec => []Barrier
<1>1. BusInv => Barrier
  <2> SUFFICES ASSUME BusInv, NEW i \in gone, NEW t \in Threads, NEW n \in DOMAIN stack[t]
      PROVE  ~InHandler(t, n, i)
    BY DEF Barrier
  <2>1. i \in Ids
    BY SubscribedAreIds DEF BusInv, BusType
  <2>2. n \in 1 .. MaxDepth
    BY BusAssumption DEF BusInv, StackType, Depth
  <2> QED
    BY <2>1, <2>2 DEF BusInv, Quiet, Balanced, Counted
<1> QED
  BY <1>1, BusInvariant, PTL
=============================================================================
