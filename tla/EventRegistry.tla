--------------------------- MODULE EventRegistry ---------------------------
(***************************************************************************)
(* The event registry of crates/kirk-events/src/lib.rs.  Anyone who holds  *)
(* a clone may register handlers, fire events and ask for a stop.  One     *)
(* task, started with start(), takes the queued dispatches one by one and  *)
(* runs the handlers that were registered when the event was fired.        *)
(*                                                                         *)
(* A dispatch is identified by its position in the order of the fire()     *)
(* calls that enqueued one.  What a handler does is left to the module     *)
(* that extends this one: RunHandler(h, ok) is the step in which handler h *)
(* finishes for the dispatch in progress, well or with an error (a panic   *)
(* in a handler is turned into an error by run_owned and JoinSet).         *)
(***************************************************************************)
EXTENDS Integers, Sequences, FiniteSets, SequencesExt

CONSTANT INTERNAL_ERROR   \* the event that receives the handlers' failures

VARIABLES
    events,   \* Inner.events: event name -> [handlers, ordered]
    queue,    \* Inner.tx / rx: dispatches and stop sentinels
    pump,     \* the task that runs start()
    fired,    \* history: every dispatch enqueued so far
    taken,    \* history: the number of dispatches taken from the queue
    ran,      \* history: the handlers that ended, of the last dispatch taken
    stops     \* history: the number of stop() calls

evVars == <<events, queue, pump, fired, taken, ran, stops>>

StopItem == [kind |-> "stop"]
Dispatch(id, ev, hs, ord, arg) ==
    [kind |-> "dispatch", id |-> id, ev |-> ev, hs |-> hs, ordered |-> ord, arg |-> arg]
NoItem == [kind |-> "none"]

(***************************************************************************)
(* The map of registrations, and what the calls make of it.  The first     *)
(* registration of a name decides whether its handlers run in order.       *)
(***************************************************************************)
new == [name \in {INTERNAL_ERROR} |-> [handlers |-> <<>>, ordered |-> FALSE]]

register(evs, name, h, ord) ==
    LET entry == IF name \in DOMAIN evs THEN evs[name]
                 ELSE [handlers |-> <<>>, ordered |-> ord]
    IN  [n \in DOMAIN evs \union {name} |->
            IF n = name THEN [entry EXCEPT !.handlers = Append(@, h)] ELSE evs[n]]

\* The handlers other than h, in their order.  A function, which the proofs
\* can unfold, where TLC would be as content with SelectSeq.
retain(handlers, h) ==
    LET kept[i \in 0..Len(handlers)] ==
            IF i = 0 THEN <<>>
            ELSE IF handlers[i] = h THEN kept[i - 1] ELSE Append(kept[i - 1], handlers[i])
    IN  kept[Len(handlers)]

unregister(evs, name, h) ==
    IF name \notin DOMAIN evs THEN evs
    ELSE [evs EXCEPT ![name].handlers = retain(@, h)]

unregisterAll(evs, names) ==
    [name \in DOMAIN evs \ names |-> evs[name]]

(***************************************************************************)
(* fire(): the handlers are those of this moment.  An event nobody handles *)
(* is dropped without a trace.                                             *)
(***************************************************************************)
Handled(name) == name \in DOMAIN events /\ events[name].handlers # <<>>

fire(name, arg) ==
    IF Handled(name)
    THEN LET item == Dispatch(Len(fired) + 1, name, events[name].handlers,
                              events[name].ordered, arg)
         IN  /\ queue' = Append(queue, item)
             /\ fired' = Append(fired, item)
    ELSE UNCHANGED <<queue, fired>>

stop ==
    /\ queue' = Append(queue, StopItem)
    /\ stops' = stops + 1

(***************************************************************************)
(* start(): take items until a stop sentinel, then only what is already    *)
(* queued, up to the end of the queue or to another sentinel.              *)
(***************************************************************************)
Idle == [pc |-> "off", item |-> NoItem, todo |-> <<>>, failed |-> 0, errs |-> <<>>]

Executing == pump.item # NoItem

\* Everything the dispatch in progress started has been joined.
Joined == pump.todo = <<>> /\ pump.failed = 0 /\ pump.errs = <<>>

start ==
    /\ pump.pc = "off"
    /\ pump' = [pump EXCEPT !.pc = "recv"]
    /\ UNCHANGED <<events, queue, fired, taken, ran, stops>>

Take(item) ==
    /\ queue' = Tail(queue)
    /\ pump' = [pump EXCEPT !.item = item, !.todo = item.hs]
    /\ taken' = taken + 1 /\ ran' = <<>>

\* recv().await of the first loop.
Recv ==
    /\ pump.pc = "recv" /\ ~Executing /\ queue # <<>>
    /\ IF Head(queue).kind = "stop"
       THEN /\ queue' = Tail(queue)
            /\ pump' = [pump EXCEPT !.pc = "drain"]
            /\ UNCHANGED <<taken, ran>>
       ELSE Take(Head(queue))
    /\ UNCHANGED <<events, fired, stops>>

\* Mutant: the stop sentinel ends start() at once, nothing is drained.
TryRecvNoDrain ==
    /\ pump.pc = "drain" /\ ~Executing
    /\ pump' = [pump EXCEPT !.pc = "off"]
    /\ UNCHANGED <<events, queue, fired, taken, ran, stops>>

\* try_recv() of the second loop.
TryRecv ==
    /\ pump.pc = "drain" /\ ~Executing
    /\ IF queue = <<>>
       THEN pump' = [pump EXCEPT !.pc = "off"] /\ UNCHANGED <<queue, taken, ran>>
       ELSE IF Head(queue).kind = "stop"
       THEN pump' = [pump EXCEPT !.pc = "off"] /\ queue' = Tail(queue) /\ UNCHANGED <<taken, ran>>
       ELSE Take(Head(queue))
    /\ UNCHANGED <<events, fired, stops>>

(***************************************************************************)
(* execute(): in order, one handler after the other and each failure       *)
(* reported before the next handler; otherwise all handlers at once, their *)
(* failures reported as they are joined.                                   *)
(***************************************************************************)
MayRun(i) ==
    /\ i \in 1..Len(pump.todo)
    /\ pump.item.ordered => i = 1 /\ pump.failed = 0 /\ pump.errs = <<>>

RunHandler(i, ok) ==
    /\ Executing /\ MayRun(i)
    /\ ran' = Append(ran, pump.todo[i])
    /\ pump' = [pump EXCEPT !.todo = RemoveAt(@, i),
                            !.failed = IF ok THEN @ ELSE @ + 1]
    /\ UNCHANGED <<events, queue, fired, taken, stops>>

\* report_error(): the handlers of INTERNAL_ERROR, unless the failure is theirs.
ReportError ==
    /\ Executing /\ pump.failed > 0 /\ pump.errs = <<>>
    /\ pump' = [pump EXCEPT !.failed = @ - 1,
                            !.errs = IF pump.item.ev # INTERNAL_ERROR /\ Handled(INTERNAL_ERROR)
                                     THEN events[INTERNAL_ERROR].handlers ELSE <<>>]
    /\ UNCHANGED <<events, queue, fired, taken, ran, stops>>

\* One handler of INTERNAL_ERROR ends; what it returns is ignored.
RunErrorHandler ==
    /\ pump.errs # <<>>
    /\ pump' = [pump EXCEPT !.errs = Tail(@)]
    /\ UNCHANGED <<events, queue, fired, taken, ran, stops>>

\* Mutant: the next item is taken while spawned handlers still run.
HandleEndUnjoined ==
    /\ Executing /\ (pump.item.ordered => Joined) /\ pump.errs = <<>>
    /\ pump' = [pump EXCEPT !.item = NoItem, !.todo = <<>>, !.failed = 0]
    /\ UNCHANGED <<events, queue, fired, taken, ran, stops>>

\* handle() returns true and the loop goes on.
HandleEnd ==
    /\ Executing /\ Joined
    /\ pump' = [pump EXCEPT !.item = NoItem]
    /\ UNCHANGED <<events, queue, fired, taken, ran, stops>>

\* Everything the pump does by itself, the handlers aside.
PumpStep == Recv \/ TryRecv \/ ReportError \/ RunErrorHandler \/ HandleEnd
============================================================================
