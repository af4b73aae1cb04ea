------------------------------- MODULE Monitor --------------------------------
(***************************************************************************)
(* UdevHotplugMonitor: a netlink socket, an eventfd that wakes the reader, *)
(* and the reader thread that receives messages and runs the callback.     *)
(*                                                                         *)
(* One owner drives start() and stop(), as the class demands and as both   *)
(* composition roots do.  No callback of the program calls stop(), so the  *)
(* reentrant stop is left out.                                             *)
(***************************************************************************)
EXTENDS Naturals, Sequences

VARIABLES
    netlink,        \* messages received by the socket and not by the reader
    reader,         \* the reader thread: pc, and the message it delivers
    handles,        \* monitor_, udev_ and wakeFd_ are open
    stopRequested,  \* stopRequested_
    wake,           \* the eventfd is readable
    owner           \* where the owner is in the lifecycle

monitor == <<netlink, reader, handles, stopRequested, wake, owner>>

NoReader == [pc |-> "none"]
Ended == reader.pc \in {"none", "done"}

\* started_ changes with the handles: both are set by start() and cleared by the
\* stop() that claimed the cleanup.
Started == handles

InitMonitor ==
    /\ netlink = <<>> /\ reader = NoReader
    /\ handles = FALSE /\ stopRequested = FALSE /\ wake = FALSE
    /\ owner = "starting"

\* A uevent: the kernel drops it when nobody listens any more.
Send(m) == netlink' = IF Ended THEN netlink ELSE Append(netlink, m)

-----------------------------------------------------------------------------
(* start() and stop().                                                     *)

\* Opening a handle fails, and what was opened is released: the program goes on
\* without events; or the reader is started.
MonitorStart ==
    /\ owner = "starting"
    /\ owner' = "running"
    /\ \/ UNCHANGED <<reader, handles, stopRequested>>
       \/ /\ handles' = TRUE /\ stopRequested' = FALSE
          /\ reader' = [pc |-> "poll"]
    /\ UNCHANGED <<netlink, wake>>

StopRequest ==
    /\ owner = "running"
    /\ IF Started
       THEN owner' = "wake" /\ stopRequested' = TRUE
       ELSE owner' = "cancel" /\ UNCHANGED stopRequested
    /\ UNCHANGED <<netlink, reader, handles, wake>>

\* Mutant: the flag alone is to stop the reader.
Written == FALSE
WakeWritten == TRUE

StopWrite ==
    /\ owner = "wake"
    /\ wake' = WakeWritten
    /\ owner' = "join"
    /\ UNCHANGED <<netlink, reader, handles, stopRequested>>

\* Mutant: the handles are released without waiting for the reader.
NotJoined == TRUE
Joined == Ended

\* reader_.join(), then freeResources().
StopJoin ==
    /\ owner = "join" /\ Joined
    /\ handles' = FALSE /\ wake' = FALSE /\ netlink' = <<>>
    /\ owner' = "cancel"
    /\ UNCHANGED <<reader, stopRequested>>

-----------------------------------------------------------------------------
(* The reader.                                                             *)

\* The loop looks at the flag before it polls again.
Again == IF stopRequested THEN [pc |-> "done"] ELSE [pc |-> "poll"]

\* poll: a wake-up comes first; then an overrun of the socket's buffer, which ends
\* the reader for good; then a message.
ReaderPoll ==
    /\ reader.pc = "poll"
    /\ \/ wake /\ reader' = [pc |-> "done"]
       \/ ~wake /\ netlink # <<>> /\ reader' = [pc |-> "drain"]
    /\ UNCHANGED <<netlink, handles, stopRequested, wake, owner>>

Overrun ==
    /\ reader.pc = "poll" /\ ~wake /\ netlink # <<>>
    /\ reader' = [pc |-> "done"]
    /\ UNCHANGED <<netlink, handles, stopRequested, wake, owner>>

\* drainEvents leaves at the end of the queue, and as soon as a stop is requested.
ReaderDrained ==
    /\ reader.pc = "drain"
    /\ stopRequested \/ netlink = <<>>
    /\ reader' = Again
    /\ UNCHANGED <<netlink, handles, stopRequested, wake, owner>>

\* A message is received and its device mapped: one of states is what that reads.
ReaderReceive(states) ==
    /\ reader.pc = "drain" /\ ~stopRequested /\ netlink # <<>>
    /\ \E v \in states :
         reader' = [pc |-> "deliver", device |-> Head(netlink).device, state |-> v]
    /\ netlink' = Tail(netlink)
    /\ UNCHANGED <<handles, stopRequested, wake, owner>>

\* callback_ returns.
ReaderDelivered ==
    /\ reader.pc = "deliver"
    /\ reader' = [pc |-> "drain"]
    /\ UNCHANGED <<netlink, handles, stopRequested, wake, owner>>
=============================================================================
