--------------------------- MODULE ProcessorQueue ---------------------------
(***************************************************************************)
(* The packet queue of a processor (Hardware/ProcessorQueue.cpp).  It does *)
(* not store its packets, only their number, the time stamps of the oldest *)
(* and of the newest, and the packet being sent; the time stamps between   *)
(* are interpolated as packets leave.                                      *)
(*                                                                         *)
(* A queue q is a record: count, oldest, newest, update (update_required)  *)
(* and, of the packet being sent, stamp, size and left (flit_left).        *)
(***************************************************************************)
EXTENDS Integers

NewQueue == [count |-> 0, oldest |-> 0, newest |-> 0, update |-> FALSE,
             stamp |-> 0, size |-> 0, left |-> 0]

Push(q, t) ==
    IF q.count = 0
    THEN [q EXCEPT !.count = 1, !.oldest = t, !.newest = t, !.update = TRUE]
    ELSE [q EXCEPT !.count = @ + 1, !.oldest = IF t < @ THEN t ELSE @,
                                    !.newest = IF t > @ THEN t ELSE @]

\* A mutation of UpdateFrontPacket: the packet gets the newest time stamp.
UpdateFrontPacketNewest(q, size) ==
    [q EXCEPT !.stamp = q.newest, !.size = size, !.left = size, !.update = FALSE]

UpdateFrontPacket(q, size) ==
    [q EXCEPT !.stamp = q.oldest, !.size = size, !.left = size, !.update = FALSE]

\* A mutation of Pop: the packet stays in the count.
PopKept(q) ==
    [q EXCEPT !.oldest = @ + (q.newest - q.oldest) \div q.count,
              !.update = q.count > 1 \/ @]

Pop(q) ==
    [q EXCEPT !.oldest = @ + (q.newest - q.oldest) \div q.count,
              !.count = @ - 1, !.update = q.count > 1 \/ @]

\* Processor::GetQueueFront: the front packet is drawn when it is first needed.
GetQueueFront(q, sizes) ==
    IF q.count = 0 \/ ~q.update THEN {q} ELSE {UpdateFrontPacket(q, size) : size \in sizes}

\* Processor::PopFlit.
PopFlit(q) == IF q.left = 1 THEN Pop([q EXCEPT !.left = 0]) ELSE [q EXCEPT !.left = @ - 1]
=============================================================================
