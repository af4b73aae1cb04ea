------------------------------- MODULE EventBus -------------------------------
(***************************************************************************)
(* EventBus (core/include/devmgr/runtime/event_bus.hpp): publish/subscribe *)
(* with an unsubscribe barrier.                                            *)
(*                                                                         *)
(* Each critical section of the bus mutex is one step.  Between two of     *)
(* them a thread is inside publish's loop, inside a handler, or asleep on  *)
(* `drained_'; a handler may use the bus again, so every thread has a      *)
(* stack of frames.  A thread outside any frame, or whose top frame is     *)
(* inside a handler, runs user code and may call the bus.                  *)
(*                                                                         *)
(* Abstraction: an invocation is named by its thread and its depth on that *)
(* thread's stack; `running' holds the invocations in flight, which is     *)
(* both the code's counter and its vector of thread ids.  Event payloads   *)
(* are left out.                                                           *)
(***************************************************************************)
EXTENDS Naturals, Sequences, FiniteSets

CONSTANTS
    Threads,
    Types,          \* event types
    MaxSubs,        \* bound: subscriptions ever made
    MaxPublishes,   \* bound: publish calls
    MaxDepth,       \* bound: frames on one thread's stack
    CrossReset      \* whether a handler may drop another handler's token

ASSUME BusAssumption ==
    /\ MaxSubs \in Nat /\ MaxPublishes \in Nat /\ MaxDepth \in Nat
    /\ CrossReset \in BOOLEAN

VARIABLES
    handlers,   \* handlers_: type -> ids subscribed to it, oldest first
    made,       \* number of ids handed out (nextId_ - 1)
    removed,    \* ids whose entry has `removed' set
    running,    \* id -> invocations in flight
    stack,      \* thread -> its frames, innermost last
    gone,       \* history: ids whose unsubscribe returned after the barrier
    published   \* publish calls so far

vars == <<handlers, made, removed, running, stack, gone, published>>

Ids == 1 .. MaxSubs
Invocations == Threads \X (1 .. MaxDepth)

\* publish: "loop" between two handlers, "body" inside one, "notify" between
\* endInvoke's unlock and its notify_all.  unsubscribe: "wait" on drained_.
Frame == [pc : {"loop", "body", "notify", "wait"}, todo : Seq(Ids), cur : Ids \cup {0},
          woken : BOOLEAN]

PublishFrame(ids) == [pc |-> "loop", todo |-> ids, cur |-> 0, woken |-> FALSE]
WaitFrame(i) == [pc |-> "wait", todo |-> <<>>, cur |-> i, woken |-> FALSE]

Depth(t) == Len(stack[t])
Top(t) == stack[t][Depth(t)]
At(t, pc) == Depth(t) > 0 /\ Top(t).pc = pc

\* The stack of thread t with its innermost frame replaced, or popped.
Replace(t, f) == [stack EXCEPT ![t] = [@ EXCEPT ![Depth(t)] = f]]
Push(t, f) == [stack EXCEPT ![t] = Append(@, f)]
Pop(t) == [stack EXCEPT ![t] = SubSeq(@, 1, Depth(t) - 1)]

\* Thread t runs user code: its own, or a handler's body.
InUserCode(t) == Depth(t) = 0 \/ At(t, "body")

Init ==
    /\ handlers = [y \in Types |-> <<>>]
    /\ made = 0
    /\ removed = {} /\ gone = {}
    /\ running = [i \in Ids |-> {}]
    /\ stack = [t \in Threads |-> <<>>]
    /\ published = 0

Subscribe(t, y) ==
    /\ InUserCode(t) /\ made < MaxSubs
    /\ made' = made + 1
    /\ handlers' = [handlers EXCEPT ![y] = Append(@, made + 1)]
    /\ UNCHANGED <<removed, running, stack, gone, published>>

\* publish takes a copy of the type's handlers and lets go of the mutex.
Publish(t, y) ==
    /\ InUserCode(t) /\ Depth(t) < MaxDepth /\ published < MaxPublishes
    /\ published' = published + 1
    /\ stack' = IF handlers[y] = <<>> THEN stack ELSE Push(t, PublishFrame(handlers[y]))
    /\ UNCHANGED <<handlers, made, removed, running, gone>>

\* Mutant: the recheck of `removed' is left out.
BeginInvokeUnchecked(t) ==
    /\ At(t, "loop") /\ Top(t).todo # <<>>
    /\ LET i == Head(Top(t).todo)
       IN /\ running' = [running EXCEPT ![i] = @ \cup {<<t, Depth(t)>>}]
          /\ stack' = Replace(t, [Top(t) EXCEPT !.pc = "body", !.cur = i, !.todo = Tail(@)])
    /\ UNCHANGED <<handlers, made, removed, gone, published>>

\* beginInvoke, which skips a handler unsubscribed since the copy was taken.
BeginInvoke(t) ==
    /\ At(t, "loop") /\ Top(t).todo # <<>>
    /\ LET i == Head(Top(t).todo)
       IN IF i \in removed
          THEN /\ stack' = Replace(t, [Top(t) EXCEPT !.todo = Tail(@)])
               /\ UNCHANGED running
          ELSE /\ running' = [running EXCEPT ![i] = @ \cup {<<t, Depth(t)>>}]
               /\ stack' = Replace(t, [Top(t) EXCEPT !.pc = "body", !.cur = i, !.todo = Tail(@)])
    /\ UNCHANGED <<handlers, made, removed, gone, published>>

\* Mutant: the drained test is taken before the invocation is taken out.
DrainedBefore(i, left) == i \in removed /\ running[i] = {}

\* endInvoke notifies when the last invocation of a removed handler ends.
Drained(i, left) == i \in removed /\ left = {}
StopRunning(t, i) == running[i] \ {<<t, Depth(t)>>}

\* The handler returns, or throws: InvokeGuard runs endInvoke either way, but an
\* exception leaves publish without invoking the rest.
EndInvoke(t) ==
    /\ At(t, "body")
    /\ \E rest \in {Top(t).todo, <<>>} :
         LET i == Top(t).cur
             left == StopRunning(t, i)
         IN /\ running' = [running EXCEPT ![i] = left]
            /\ stack' = Replace(t, [Top(t) EXCEPT !.pc = IF Drained(i, left) THEN "notify" ELSE "loop",
                                                  !.cur = 0, !.todo = rest])
    /\ UNCHANGED <<handlers, made, removed, gone, published>>

WakeAll(s) ==
    [t \in Threads |-> [n \in DOMAIN s[t] |-> [s[t][n] EXCEPT !.woken = s[t][n].pc = "wait"]]]

Notify(t) ==
    /\ At(t, "notify")
    /\ stack' = WakeAll(Replace(t, [Top(t) EXCEPT !.pc = "loop"]))
    /\ UNCHANGED <<handlers, made, removed, running, gone, published>>

EndPublish(t) ==
    /\ At(t, "loop") /\ Top(t).todo = <<>>
    /\ stack' = Pop(t)
    /\ UNCHANGED <<handlers, made, removed, running, gone, published>>

\* Thread t is inside a callback of handler i.
Inside(t, i) == \E n \in DOMAIN stack[t] : <<t, n>> \in running[i]

\* Subscription::reset, once per token.  Inside i's own callback it returns at
\* once; otherwise it sleeps until no invocation of i is in flight.
MayReset(t, i) == Depth(t) = 0 \/ Inside(t, i) \/ CrossReset

Retire(i) == removed' = removed \cup {i}

\* vec.erase at the position of i.
Erase(i) ==
    \E y \in Types : \E n \in DOMAIN handlers[y] :
        /\ handlers[y][n] = i
        /\ handlers' = [handlers EXCEPT ![y] = SubSeq(@, 1, n - 1) \o SubSeq(@, n + 1, Len(@))]

Unsubscribe(t, i) ==
    /\ InUserCode(t) /\ MayReset(t, i)
    /\ Erase(i) /\ Retire(i)
    /\ \/ /\ ~Inside(t, i) /\ running[i] # {} /\ Depth(t) < MaxDepth
          /\ stack' = Push(t, WaitFrame(i)) /\ gone' = gone
       \/ ~Inside(t, i) /\ running[i] = {} /\ stack' = stack /\ gone' = gone \cup {i}
       \/ Inside(t, i) /\ UNCHANGED <<stack, gone>>
    /\ UNCHANGED <<made, running, published>>

\* drained_.wait wakes up and looks at its predicate.
Wake(t) ==
    /\ At(t, "wait") /\ Top(t).woken
    /\ IF running[Top(t).cur] = {}
       THEN stack' = Pop(t) /\ gone' = gone \cup {Top(t).cur}
       ELSE stack' = Replace(t, [Top(t) EXCEPT !.woken = FALSE]) /\ gone' = gone
    /\ UNCHANGED <<handlers, made, removed, running, published>>

\* What a thread inside the bus does; a handler's body ends.
Bus(t) == BeginInvoke(t) \/ EndInvoke(t) \/ Notify(t) \/ EndPublish(t) \/ Wake(t)

Next ==
    \E t \in Threads :
        \/ Bus(t)
        \/ \E y \in Types : Subscribe(t, y) \/ Publish(t, y)
        \/ \E i \in Ids : Unsubscribe(t, i)

Spec == Init /\ [][Next]_vars

\* Threads run, and every handler ends.
FairSpec == Spec /\ \A t \in Threads : WF_vars(Bus(t))

-----------------------------------------------------------------------------
(* Properties.                                                             *)

BusType ==
    /\ made \in 0 .. MaxSubs
    /\ handlers \in [Types -> Seq(1 .. made)]
    /\ removed \subseteq 1 .. made /\ gone \subseteq removed
    /\ running \in [Ids -> SUBSET Invocations]
    /\ published \in 0 .. MaxPublishes
StackType ==
    /\ stack \in [Threads -> Seq(Frame)]
    /\ \A t \in Threads : Depth(t) <= MaxDepth
\* Only the innermost frame of a thread can be outside a handler's body.
Nested ==
    \A t \in Threads : \A n \in DOMAIN stack[t] :
        /\ n < Depth(t) => stack[t][n].pc = "body"
        /\ stack[t][n].pc \in {"body", "wait"} => stack[t][n].cur \in Ids
TypeOK == BusType /\ StackType /\ Nested

\* The barrier: once unsubscribe has returned (not from inside the handler's own
\* callback), no thread is inside the handler, however deep, and none ever
\* will be, so the subscriber may be destroyed.
InHandler(t, n, i) == stack[t][n].pc = "body" /\ stack[t][n].cur = i
Barrier ==
    \A i \in gone : \A t \in Threads : \A n \in DOMAIN stack[t] : ~InHandler(t, n, i)

\* InvokeGuard: inFlight and running are the invocations actually on the
\* stacks, whatever threw: none is lost, and none is left behind to make an
\* unsubscribe wait for ever.
Counted(i, t, n) == <<t, n>> \in running[i] <=> (n \in DOMAIN stack[t] /\ InHandler(t, n, i))
Balanced == \A i \in Ids, t \in Threads, n \in 1 .. MaxDepth : Counted(i, t, n)

\* Unsubscribing ends: no wake-up is lost between endInvoke's unlock and its
\* notify_all, and nothing but another handler's token can close a circle.
UnsubscribeReturns == \A t \in Threads : At(t, "wait") ~> ~At(t, "wait")
=============================================================================
