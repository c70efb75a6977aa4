----------------------------- MODULE FlitTracer -----------------------------
(***************************************************************************)
(* The flit tracer (Metrics/FlitTracer.cpp): processors register each flit *)
(* they send, routers report where they have seen it, and the report tells *)
(* the path of every flit sent in the configured interval.                 *)
(*                                                                         *)
(* A tracer t has offset (IDOffset) and history (FlitHistory), a sequence  *)
(* of [flit, path].  A story is found by the identifier in the flit: the   *)
(* identifiers of the stories follow one another from the offset, which    *)
(* moves when a flit without a story is registered.                        *)
(***************************************************************************)
EXTENDS Integers, Sequences

CONSTANTS StoryStart, StoryEnd      \* the interval, a negative bound is no bound

NewTracer == [offset |-> 0, history |-> <<>>]

InInterval(time) == (StoryStart < 0 \/ time >= StoryStart) /\ (StoryEnd < 0 \/ time <= StoryEnd)

\* The identifier Register gives a flit sent at this time, and what it does to
\* the tracer.
NewID(t, time) == IF InInterval(time) THEN t.offset + Len(t.history) ELSE t.offset

Register(t, flit, time) ==
    IF InInterval(time)
    THEN [t EXCEPT !.history = Append(@, [flit |-> flit, path |-> <<>>])]
    ELSE [t EXCEPT !.offset = @ + 1]

\* A mutation of Story: the offset is not taken off.
StoryAbsolute(t, id) == IF id >= Len(t.history) THEN 0 ELSE id + 1

\* The story an identifier is taken for, counted from 1, or 0.  The unsigned
\* difference to a smaller identifier is beyond any story.
Story(t, id) ==
    IF id - t.offset >= Len(t.history) \/ id < t.offset THEN 0 ELSE id - t.offset + 1

Remember(t, id, router) ==
    IF Story(t, id) = 0 THEN t
    ELSE [t EXCEPT !.history[Story(t, id)].path = Append(@, router)]
=============================================================================
