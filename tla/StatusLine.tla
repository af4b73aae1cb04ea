----------------------------- MODULE StatusLine ------------------------------
(***************************************************************************)
(* StatusLineVM over a DelayedScheduler: every message replaces the one on *)
(* the line and schedules its own removal.  The timer thread takes what is *)
(* due in one batch and runs it afterwards, so a removal may be beyond     *)
(* cancellation and still to come: generations and the count of            *)
(* outstanding removals are what makes this safe.                          *)
(*                                                                         *)
(* The timer also runs the flush of HotplugService, whose entries carry a  *)
(* device instead of a generation.                                         *)
(***************************************************************************)
EXTENDS Naturals, Sequences, FiniteSets, SequencesExt

CONSTANTS
    MaxMessages,    \* bound: messages ever shown
    Devs            \* the devices

ASSUME StatusLineAssumption == MaxMessages \in Nat /\ Devs \cap Nat = {}

VARIABLES
    line,           \* StatusLineVM
    timer           \* DelayedScheduler

statusVars == <<line, timer>>

InitStatus ==
    /\ line = [text |-> 0, generation |-> 0, handle |-> 0, outstanding |-> 0, state |-> "open"]
    /\ timer = [queue |-> <<>>, batch |-> <<>>, stopping |-> FALSE]

Queued(entry) == \E i \in DOMAIN timer.queue : timer.queue[i] = entry
\* cancel erases the entry of its handle, the last that was scheduled.
Without(entry) ==
    RemoveAt(timer.queue, CHOOSE i \in DOMAIN timer.queue :
        /\ timer.queue[i] = entry
        /\ \A j \in DOMAIN timer.queue : timer.queue[j] = entry => j <= i)

-----------------------------------------------------------------------------
(* DelayedScheduler.                                                       *)

\* Mutant: nothing is queued after shutdown.
ScheduleDropped(queue, entry) == IF timer.stopping THEN queue ELSE Append(queue, entry)

\* schedule, after shutdown too: a later cancel has to find the entry.
Schedule(queue, entry) == Append(queue, entry)

\* run: everything due is taken at once; entries fall due in the order of the queue.
TimerTake ==
    /\ ~timer.stopping /\ timer.batch = <<>>
    /\ \E n \in 1..Len(timer.queue) :
         timer' = [timer EXCEPT !.batch = SubSeq(timer.queue, 1, n),
                                !.queue = SubSeq(timer.queue, n + 1, Len(timer.queue))]
    /\ UNCHANGED line

\* shutdown: the batch in hand is finished before the thread is joined.
TimerJoined == timer.stopping /\ timer.batch = <<>>

-----------------------------------------------------------------------------
(* StatusLineVM.                                                           *)

\* setMessage: the removal of the message that was shown is cancelled, or it stays
\* outstanding until it has run.
SetMessage ==
    LET cancelled == line.handle # 0 /\ Queued(line.handle)
        next == line.generation + 1
        before == IF cancelled THEN Without(line.handle) ELSE timer.queue
    IN  /\ line.generation < MaxMessages
        /\ line' = [line EXCEPT
             !.text = next, !.generation = next, !.handle = next,
             !.outstanding = @ + 1 - (IF cancelled THEN 1 ELSE 0)]
        /\ timer' = [timer EXCEPT !.queue = Schedule(before, next)]

\* Mutant: a superseded removal is not told from the current one.
ClearFiredAny ==
    /\ timer.batch # <<>> /\ Head(timer.batch) \in Nat
    /\ line' = [line EXCEPT !.text = 0, !.handle = 0, !.outstanding = @ - 1]
    /\ timer' = [timer EXCEPT !.batch = Tail(@)]

\* onClearFired: a superseded removal only stops being outstanding.
ClearFired ==
    /\ timer.batch # <<>> /\ Head(timer.batch) \in Nat
    /\ line' = IF Head(timer.batch) = line.generation
               THEN [line EXCEPT !.text = 0, !.handle = 0, !.outstanding = @ - 1]
               ELSE [line EXCEPT !.outstanding = @ - 1]
    /\ timer' = [timer EXCEPT !.batch = Tail(@)]

\* ~StatusLineVM cancels the last removal, ...
CloseLine ==
    /\ line.state = "open"
    /\ LET cancelled == line.handle # 0 /\ Queued(line.handle) IN
         /\ line' = [line EXCEPT !.state = "closing", !.generation = @ + 1,
                                 !.outstanding = @ - (IF cancelled THEN 1 ELSE 0)]
         /\ timer' = [timer EXCEPT !.queue = IF cancelled THEN Without(line.handle) ELSE @]

\* ... and waits until none is outstanding.
LineClosed == line.state = "closing" /\ line.outstanding = 0

\* The removals in a sequence of entries, each named by its message.
Removals(entries) == {entries[i] : i \in DOMAIN entries} \cap Nat

\* A removal is outstanding while it is still to run or to be cancelled.
StatusTypeOK ==
    /\ line.text \in 0..MaxMessages /\ line.generation \in 0..(MaxMessages + 1)
    /\ line.handle \in 0..MaxMessages /\ line.state \in {"open", "closing"}
    /\ line.outstanding = Cardinality(Removals(timer.queue)) + Cardinality(Removals(timer.batch))
    /\ line.text # 0 => line.text = line.handle
=============================================================================
