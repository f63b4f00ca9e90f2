----------------------------- MODULE LtxChannel -----------------------------
(***************************************************************************)
(* The LTX channel: the slot pool of crates/kirk-com-ltx/src/channel.rs,   *)
(* the multiplexing client of ltx.rs and the request state machines of     *)
(* request.rs.  Clones of the channel share the connection and the slots;  *)
(* commands, probes and stop() interleave, and a call may be dropped at    *)
(* any await.                                                              *)
(*                                                                         *)
(* Frames are [op, slot, who]: `who` is the call the executor answers, a   *)
(* history the client does not see.  The executor is external: it answers  *)
(* a batch in order when it is written, refuses a command on a busy slot,  *)
(* and ends commands later.  Its output stays in the FIFO when a           *)
(* connection ends.  Left out: the cwd and env requests that may come      *)
(* before the command in its batch, which complete at their echo; LOG      *)
(* frames, which are accepted when a RESULT is; encoding and size limits:  *)
(* a frame that cannot be decoded is an ERROR frame here.                  *)
(***************************************************************************)
EXTENDS Integers, Sequences, FiniteSets, SequencesExt

CONSTANTS
    LtCmds,     \* calls that may be run_command()
    LtProbes,   \* calls that may be ping() or fetch_file()
    LtSlots,    \* MAX_SLOTS
    LtMaxConns, \* bound: connections opened
    LtLoads     \* bound: how many probes and stop()s there may be, [probes, stops]

\* communicate() and stop() are calls of their own, and "none" is no call.
ASSUME LtxAssumption ==
    /\ LtSlots \in Nat \ {0} /\ LtMaxConns \in Nat
    /\ (LtCmds \union LtProbes) \cap {"comm", "stop", "none"} = {}

VARIABLES
    ltLtx,    \* LtxChannel.ltx: number of the published connection, 0 when none
    ltConn,   \* connection -> [running, desynced, fatal, pending, replies, next_id]
    ltSlots,  \* slots reserved
    ltCall,   \* call -> [op, pc, conn, slot, ids, reqs, got]; got is who the
              \*         replies came from, of stop() the commands it kills
    ltDone,   \* [probes, stops]: the calls made so far
    ltPeer,   \* the executor: "up", "hung" or "dead"
    ltRuns,   \* slot -> the call whose command the executor runs, or "none"
    ltOut,    \* frames in the output FIFO
    ltMissed, \* history: connections where record_fatal() found the state locked
    ltStray   \* history: commands that reached the executor after their connection ended,
              \*          and "comm" when the answer to a handshake given up stays behind

ltVars == <<ltLtx, ltConn, ltSlots, ltCall, ltDone, ltPeer, ltRuns, ltOut, ltMissed, ltStray>>

LtCalls == LtCmds \union LtProbes \union {"comm", "stop"}
LtNoSlot == LtSlots
LtNew == [op |-> "none", pc |-> "new", conn |-> 0, slot |-> LtNoSlot, ids |-> {}, reqs |-> <<>>,
          got |-> {}]

LtInit ==
    /\ ltLtx = 0 /\ ltConn = <<>> /\ ltSlots = {} /\ ltDone = [probes |-> 0, stops |-> 0]
    /\ ltCall = [c \in LtCalls |-> LtNew]
    /\ ltPeer = "up" /\ ltRuns = [s \in 0..(LtSlots - 1) |-> "none"] /\ ltOut = <<>>
    /\ ltMissed = {} /\ ltStray = {}

\* A connection whose poll task has ended: nothing of it is read any more.
LtClosed == [running |-> FALSE, desynced |-> FALSE, fatal |-> FALSE, pending |-> {},
             replies |-> {}, next_id |-> 0]

Connected(g) == ltConn[g].running
LtActive == ltLtx # 0 /\ Connected(ltLtx)

(***************************************************************************)
(* request.rs: what a request makes of a frame.                            *)
(***************************************************************************)
LtRequest(kind, slot) == [kind |-> kind, slot |-> slot, echoed |-> FALSE, got |-> {}]

frame_targets_slot(req, f) == req.kind \in {"EXEC", "KILL"} => f.slot = req.slot

\* Mutant: a result is taken before the echo of the command.
feedUnechoed(req, f) ==
    LET Stays(r) == [res |-> "none", req |-> r]
        Replies(r) == [res |-> "reply", req |-> r]
    IN  IF ~frame_targets_slot(req, f) THEN Stays(req)
        ELSE CASE f.op = req.kind /\ req.kind \in {"VERSION", "KILL", "GET_FILE"} -> Replies(req)
               [] f.op = req.kind /\ req.kind \in {"PING", "EXEC"} -> Stays([req EXCEPT !.echoed = TRUE])
               [] req.kind = "GET_FILE" /\ f.op = "DATA" -> Stays([req EXCEPT !.got = @ \union {f.who}])
               [] req.kind = "EXEC" /\ f.op = "RESULT" -> Replies([req EXCEPT !.got = @ \union {f.who}])
               [] req.kind = "PING" /\ f.op = "PONG" -> Replies(req)
               [] OTHER -> Stays(req)

\* ENV, CWD and SET_FILE complete at their echo, like KILL.
feed(req, f) ==
    LET Stays(r) == [res |-> "none", req |-> r]
        Replies(r) == [res |-> "reply", req |-> r]
        Echoed(answer) == IF req.echoed THEN answer ELSE [res |-> "error", req |-> req]
        Taken == [req EXCEPT !.got = @ \union {f.who}]
    IN  IF ~frame_targets_slot(req, f) THEN Stays(req)
        ELSE CASE f.op = req.kind /\ req.kind \in {"VERSION", "KILL", "GET_FILE"} -> Replies(req)
               [] f.op = req.kind /\ req.kind \in {"PING", "EXEC"} -> Stays([req EXCEPT !.echoed = TRUE])
               [] req.kind = "GET_FILE" /\ f.op = "DATA" -> Stays(Taken)
               [] req.kind = "EXEC" /\ f.op = "RESULT" -> Echoed(Replies(Taken))
               [] req.kind = "PING" /\ f.op = "PONG" -> Echoed(Replies(req))
               [] OTHER -> Stays(req)

(***************************************************************************)
(* The executor.                                                           *)
(***************************************************************************)
Frame(op, slot, who) == [op |-> op, slot |-> slot, who |-> who]

Result(s) == <<Frame("RESULT", s, ltRuns[s])>>

\* What the executor prints for one request; a command may be refused, a file missing.
Answers(req, who) ==
    CASE req.kind = "PING" -> {<<Frame("PING", LtNoSlot, who), Frame("PONG", LtNoSlot, who)>>}
      [] req.kind = "GET_FILE" -> {<<Frame("ERROR", LtNoSlot, who)>>, <<Frame("DATA", LtNoSlot, who), Frame("GET_FILE", LtNoSlot, who)>>}
      [] req.kind = "EXEC" ->
            {<<Frame("ERROR", LtNoSlot, who)>>}
              \union IF ltRuns[req.slot] = "none" THEN {<<Frame("EXEC", req.slot, who)>>} ELSE {}
      [] req.kind = "KILL" /\ ltRuns[req.slot] # "none" ->
            {<<Frame("KILL", req.slot, who)>> \o Result(req.slot)}
      [] OTHER -> {<<Frame(req.kind, req.slot, who)>>}

\* The answers, one after the other, behind what is in the FIFO.
Printed(out, answers) ==
    LET upTo[k \in 0..Len(answers)] == IF k = 0 THEN out ELSE upTo[k - 1] \o answers[k]
    IN  upTo[Len(answers)]

\* The executor answers a whole batch.
Serve(c) ==
    \E answers \in [1..Len(ltCall[c].reqs) -> UNION {Answers(ltCall[c].reqs[k], c) : k \in 1..Len(ltCall[c].reqs)}] :
        /\ \A k \in 1..Len(ltCall[c].reqs) : answers[k] \in Answers(ltCall[c].reqs[k], c)
        /\ ltOut' = Printed(ltOut, answers)
        /\ ltRuns' = [s \in DOMAIN ltRuns |->
             IF \E k \in DOMAIN answers : answers[k] = <<Frame("EXEC", s, c)>> THEN c
             ELSE IF \E k \in DOMAIN answers : answers[k] = <<Frame("KILL", s, c)>> \o Result(s)
                  THEN "none" ELSE ltRuns[s]]

LtPeerFinish(s) ==
    /\ ltPeer = "up" /\ ltRuns[s] # "none"
    /\ ltOut' = ltOut \o Result(s)
    /\ ltRuns' = [ltRuns EXCEPT ![s] = "none"]
    /\ UNCHANGED <<ltLtx, ltConn, ltSlots, ltCall, ltDone, ltPeer, ltMissed, ltStray>>

\* The executor stops answering, or ends.
LtPeerFails ==
    /\ ltPeer = "up" /\ ltPeer' \in {"hung", "dead"}
    /\ ltRuns' = [s \in DOMAIN ltRuns |-> "none"]
    /\ UNCHANGED <<ltLtx, ltConn, ltSlots, ltCall, ltDone, ltOut, ltMissed, ltStray>>

(***************************************************************************)
(* ltx.rs: the poll task.                                                  *)
(***************************************************************************)
\* A call other than the poll task may hold the state mutex at this moment.
StateBusy(g) == \E c \in LtCalls : ltCall[c].conn = g /\ ltCall[c].pc \in {"send", "wait"}

\* record_fatal(): try_lock(); the message is lost when it fails.
record_fatal(g) ==
    \/ ltConn' = [ltConn EXCEPT ![g].fatal = TRUE] /\ UNCHANGED ltMissed
    \/ StateBusy(g) /\ ltMissed' = ltMissed \union {g} /\ UNCHANGED ltConn

\* dispatch(): every pending request is fed the frame, in the order of the
\* queue, which is that of the ids, up to the first that refuses it.
Dispatched(conn, f) ==
    LET Refused == {p \in conn.pending : feed(p.req, f).res = "error"}
        Reached == {p \in conn.pending : \A q \in Refused : p.id < q.id}
        Done == {p \in Reached : feed(p.req, f).res = "reply"}
        After(p) == [p EXCEPT !.req = feed(p.req, f).req]
    IN  [conn EXCEPT !.pending = (@ \ Reached) \union {After(p) : p \in Reached \ Done},
                     !.replies = @ \union {After(p) : p \in Done},
                     !.fatal = @ \/ Refused # {}]

\* poll_loop(): one frame, while nothing fatal is known.
LtPoll(g) ==
    /\ Connected(g) /\ ~ltConn[g].fatal /\ ltOut # <<>>
    /\ ltOut' = Tail(ltOut)
    /\ IF Head(ltOut).op = "ERROR" THEN record_fatal(g)
       ELSE /\ ltConn' = [ltConn EXCEPT ![g] = Dispatched(@, Head(ltOut))]
            /\ UNCHANGED ltMissed
    /\ UNCHANGED <<ltLtx, ltSlots, ltCall, ltDone, ltPeer, ltRuns, ltStray>>

\* The task ends after a fatal error, or at the end of the output, where a
\* missed record_fatal() does no harm.
LtPollEnd(g) ==
    /\ Connected(g)
    /\ ltConn[g].fatal \/ (ltPeer = "dead" /\ ltOut = <<>>)
    /\ ltConn' = [ltConn EXCEPT ![g] = LtClosed]
    /\ UNCHANGED <<ltLtx, ltSlots, ltCall, ltDone, ltPeer, ltRuns, ltOut, ltMissed, ltStray>>

(***************************************************************************)
(* ltx.rs: send() and gather(), for any call.                              *)
(***************************************************************************)
\* Where a call goes when its requests are answered, or cannot be.
LtEndWith(c, res, got) ==
    ltCall' = [ltCall EXCEPT ![c] = [LtNew EXCEPT !.op = ltCall[c].op, !.pc = res,
                                                  !.conn = ltCall[c].conn * (IF c = "comm" THEN 1 ELSE 0),
                                                  !.slot = ltCall[c].slot, !.got = got]]
LtEnd(c, res) == LtEndWith(c, res, ltCall[c].got)

LtFailed(g) == ltConn[g].fatal \/ ltConn[g].desynced \/ ~Connected(g)

\* Under the write lock: ids are given out and the requests are pending.
LtRegister(c) ==
    LET g == ltCall[c].conn
        conn == ltConn[g]
        reqs == ltCall[c].reqs
    IN  /\ ltCall[c].pc = "send"
        /\ \A d \in LtCalls : ~(ltCall[d].conn = g /\ ltCall[d].pc = "write")
        /\ \/ /\ ~(conn.desynced \/ conn.fatal)
              /\ ltConn' = [ltConn EXCEPT ![g].pending = @ \union
                     {[id |-> conn.next_id + k, req |-> reqs[k]] : k \in 1..Len(reqs)},
                                          ![g].next_id = @ + Len(reqs)]
              /\ ltCall' = [ltCall EXCEPT ![c].pc = "write",
                                          ![c].ids = (conn.next_id + 1)..(conn.next_id + Len(reqs))]
           \/ LtFailed(g) /\ LtEnd(c, "err") /\ UNCHANGED ltConn
        /\ UNCHANGED <<ltLtx, ltSlots, ltDone, ltPeer, ltRuns, ltOut, ltMissed, ltStray>>

\* write_infile(): complete, or not, and then SendGuard gives the stream up.  A
\* write that waits for room in the FIFO does not look at the connection again.
LtWrite(c) ==
    /\ ltCall[c].pc = "write"
    /\ \/ /\ ltPeer # "dead" /\ ltCall' = [ltCall EXCEPT ![c].pc = "wait"]
          /\ IF ltPeer = "up" THEN Serve(c) ELSE UNCHANGED <<ltRuns, ltOut>>
          /\ ltStray' = IF ltCall[c].op = "EXEC" /\ ~Connected(ltCall[c].conn) THEN ltStray \union {c}
                        ELSE ltStray
          /\ UNCHANGED ltConn
       \/ /\ LtEnd(c, "err")
          /\ ltConn' = [ltConn EXCEPT ![ltCall[c].conn].desynced = TRUE]
          /\ UNCHANGED <<ltRuns, ltOut, ltStray>>
    /\ UNCHANGED <<ltLtx, ltSlots, ltDone, ltPeer, ltMissed>>

\* Mutant: gather() looks only for the error, not for the end of the connection.
LtGatherUnaware(c) ==
    LET g == ltCall[c].conn
        mine == {r \in ltConn[g].replies : r.id \in ltCall[c].ids}
    IN  /\ ltCall[c].pc = "wait"
        /\ \/ /\ ltConn[g].fatal /\ LtEnd(c, "err") /\ UNCHANGED ltConn
           \/ /\ ~LtFailed(g) /\ Cardinality(mine) = Cardinality(ltCall[c].ids)
              /\ ltConn' = [ltConn EXCEPT ![g].replies = @ \ mine]
              /\ LtEndWith(c, "ok", IF c = "stop" THEN ltCall[c].got ELSE UNION {r.req.got : r \in mine})
        /\ UNCHANGED <<ltLtx, ltSlots, ltDone, ltPeer, ltRuns, ltOut, ltMissed, ltStray>>

\* One look of gather(): an error, or all the replies.
LtGather(c) ==
    LET g == ltCall[c].conn
        mine == {r \in ltConn[g].replies : r.id \in ltCall[c].ids}
    IN  /\ ltCall[c].pc = "wait"
        /\ \/ LtFailed(g) /\ LtEnd(c, "err") /\ UNCHANGED ltConn
           \/ /\ ~LtFailed(g) /\ Cardinality(mine) = Cardinality(ltCall[c].ids)
              /\ ltConn' = [ltConn EXCEPT ![g].replies = @ \ mine]
              /\ LtEndWith(c, "ok", IF c = "stop" THEN ltCall[c].got ELSE UNION {r.req.got : r \in mine})
        /\ UNCHANGED <<ltLtx, ltSlots, ltDone, ltPeer, ltRuns, ltOut, ltMissed, ltStray>>

LtSend(c, g, slot, reqs, got) ==
    ltCall' = [ltCall EXCEPT ![c] = [op |-> reqs[1].kind, pc |-> "send", conn |-> g, slot |-> slot, ids |-> {},
                                     reqs |-> reqs, got |-> got]]

\* The call is dropped: what it registered stays, a write cut short gives the
\* stream up, and the slot of a command is not released.
LtDrop(c) ==
    /\ ltCall[c].pc \in {"send", "write", "wait"} /\ c # "comm"
    /\ IF c = "stop" THEN ltCall' = [ltCall EXCEPT ![c] = LtNew] ELSE LtEnd(c, "dropped")
    /\ ltConn' = IF ltCall[c].pc = "write" THEN [ltConn EXCEPT ![ltCall[c].conn].desynced = TRUE]
                 ELSE ltConn
    /\ UNCHANGED <<ltLtx, ltSlots, ltDone, ltPeer, ltRuns, ltOut, ltMissed, ltStray>>

(***************************************************************************)
(* channel.rs: run_command(), ping() and fetch_file().                     *)
(***************************************************************************)
\* One more call of that kind, within one of the loads.
LtCount(kind) ==
    /\ ltDone' = [ltDone EXCEPT ![kind] = @ + 1]
    /\ \E load \in LtLoads : ltDone'.probes <= load.probes /\ ltDone'.stops <= load.stops

LtBegin(c) ==
    /\ ltCall[c].pc = "new"
    /\ IF ~LtActive THEN LtEnd(c, "err") /\ UNCHANGED <<ltSlots, ltDone>>
       ELSE \/ /\ c \in LtProbes /\ LtCount("probes")
               /\ \E op \in {"PING", "GET_FILE"} :
                     LtSend(c, ltLtx, LtNoSlot, <<LtRequest(op, LtNoSlot)>>, {})
               /\ UNCHANGED ltSlots
            \/ /\ c \in LtCmds /\ ltSlots = 0..(LtSlots - 1)   \* no execution slot available
               /\ LtEnd(c, "err") /\ UNCHANGED <<ltSlots, ltDone>>
            \/ \E s \in (0..(LtSlots - 1)) \ ltSlots :
                 /\ c \in LtCmds
                 /\ \A lower \in 0..(s - 1) : lower \in ltSlots
                 /\ ltSlots' = ltSlots \union {s}
                 /\ LtSend(c, ltLtx, s, <<LtRequest("EXEC", s)>>, {})
                 /\ UNCHANGED ltDone
    /\ UNCHANGED <<ltLtx, ltConn, ltPeer, ltRuns, ltOut, ltMissed, ltStray>>

\* The outcome is known; the slot is released.
release_slot(c) ==
    /\ c \in LtCmds /\ ltCall[c].pc \in {"ok", "err"} /\ ltCall[c].slot # LtNoSlot
    /\ ltSlots' = ltSlots \ {ltCall[c].slot}
    /\ ltCall' = [ltCall EXCEPT ![c].slot = LtNoSlot]
    /\ UNCHANGED <<ltLtx, ltConn, ltDone, ltPeer, ltRuns, ltOut, ltMissed, ltStray>>

(***************************************************************************)
(* channel.rs: communicate() and stop(), which never overlap.              *)
(***************************************************************************)
LtConnect ==
    /\ ltCall["comm"].pc = "new" /\ ltCall["stop"].pc = "new" /\ ~LtActive
    /\ Len(ltConn) < LtMaxConns
    /\ ltConn' = Append(ltConn, [running |-> TRUE, desynced |-> FALSE, fatal |-> FALSE,
                                 pending |-> {}, replies |-> {}, next_id |-> 0])
    /\ LtSend("comm", Len(ltConn) + 1, LtNoSlot, <<LtRequest("VERSION", LtNoSlot)>>, {})
    /\ UNCHANGED <<ltLtx, ltSlots, ltDone, ltPeer, ltRuns, ltOut, ltMissed, ltStray>>

\* The poll task is aborted; what it had read of the output is gone.
LtDisconnect(g) ==
    /\ ltConn' = [ltConn EXCEPT ![g] = LtClosed]
    /\ ltOut' \in IF Connected(g) THEN {ltOut, <<>>} ELSE {ltOut}

\* The handshake succeeded, and the connection is published; or not, also
\* because communicate() is dropped.
LtHandshake ==
    LET g == ltCall["comm"].conn
    IN  /\ \/ /\ ltCall["comm"].pc = "ok"
              /\ ltLtx' = g /\ UNCHANGED <<ltConn, ltOut, ltStray>>
           \/ /\ ltCall["comm"].pc \in {"err", "send", "write", "wait"}
              /\ LtDisconnect(g) /\ UNCHANGED ltLtx
              /\ ltStray' = IF \E k \in DOMAIN ltOut' : ltOut'[k].op = "VERSION"
                            THEN ltStray \union {"comm"} ELSE ltStray
        /\ ltCall' = [ltCall EXCEPT !["comm"] = LtNew]
        /\ UNCHANGED <<ltSlots, ltDone, ltPeer, ltRuns, ltMissed>>

\* stop(): KILL for every reserved slot, in any order.
kill_in_flight ==
    /\ ltCall["stop"].pc = "new" /\ ltCall["comm"].pc = "new" /\ LtActive
    /\ LtCount("stops")
    /\ IF ltSlots = {} THEN LtEnd("stop", "ok")
       ELSE \E slots \in [1..Cardinality(ltSlots) -> ltSlots] :
               /\ IsInjective(slots)
               /\ LtSend("stop", ltLtx, LtNoSlot, [k \in DOMAIN slots |-> LtRequest("KILL", slots[k])],
                         {c \in LtCmds : ltCall[c].pc = "wait"})
    /\ UNCHANGED <<ltLtx, ltConn, ltSlots, ltPeer, ltRuns, ltOut, ltMissed, ltStray>>

\* The kills are answered and the slots free, or the connection is gone:
\* disconnect.  When the kills failed stop() gives up, still connected.
LtStopEnd ==
    /\ \/ /\ ltCall["stop"].pc = "ok" /\ (ltSlots = {} \/ ~LtActive)
          /\ ltLtx' = 0
          /\ IF ltLtx = 0 THEN UNCHANGED <<ltConn, ltOut>> ELSE LtDisconnect(ltLtx)
       \/ /\ ltCall["stop"].pc = "err" /\ UNCHANGED <<ltLtx, ltConn, ltOut>>
    /\ ltCall' = [ltCall EXCEPT !["stop"] = LtNew]
    /\ UNCHANGED <<ltSlots, ltDone, ltPeer, ltRuns, ltMissed, ltStray>>

\* What the runtime does by itself: calls and the poll task.  Nothing is assumed
\* of the executor beyond its immediate answers.
LtStep ==
    \/ \E c \in LtCalls : LtRegister(c) \/ LtWrite(c) \/ LtGather(c)
    \/ \E c \in LtCmds : release_slot(c)
    \/ \E g \in 1..Len(ltConn) : LtPoll(g) \/ LtPollEnd(g)
    \/ LtStopEnd

LtNext ==
    \/ LtStep
    \/ LtConnect \/ LtHandshake \/ kill_in_flight \/ LtPeerFails
    \/ \E c \in LtCmds \union LtProbes : LtBegin(c)
    \/ \E c \in LtCalls : LtDrop(c)
    \/ \E s \in 0..(LtSlots - 1) : LtPeerFinish(s)

(***************************************************************************)
(* Properties.                                                             *)
(***************************************************************************)
LtTypeOK ==
    /\ ltLtx \in 0..Len(ltConn)
    /\ ltSlots \subseteq 0..(LtSlots - 1)
    /\ ltDone.probes \in Nat /\ ltDone.stops \in Nat
    /\ \A c \in LtCalls :
        /\ ltCall[c].pc \in {"new", "send", "write", "wait", "ok", "err", "dropped"}
        /\ ltCall[c].conn \in 0..Len(ltConn) /\ ltCall[c].slot \in 0..LtSlots

\* A command that succeeded has the result and the output of its own execution,
\* and of no other.
LtxOwnResult ==
    \A c \in LtCmds : ltCall[c].op = "EXEC" /\ ltCall[c].pc = "ok" => ltCall[c].got = {c}

\* That holds however slots are reused, connections replaced over the same FIFO,
\* and commands of failed connections still running, with two exceptions.  Of a
\* command written after its connection ended the next connection takes echo and
\* result for those of the command that has its slot by then.  And the answer to
\* a handshake given up is taken for that of the next, which then does not wait
\* until the echoes of earlier commands are read.
LtxOwnUnlessStray == ltStray = {} => LtxOwnResult

\* A command dropped at its await keeps its slot.
LtLeaked == \E c \in LtCmds : ltCall[c].pc = "dropped" /\ ltCall[c].slot \in ltSlots

\* A command that was not with the executor when stop() sent the kills, but
\* holds a slot: stop() waits for its end.
LtLate == \E c \in LtCmds : ltCall[c].slot \in ltSlots /\ c \notin ltCall["stop"].got

\* A call waits on a connection that is closed, broken or in error; or stop() is
\* in progress, although no slot leaked or was taken after the kills, the
\* executor answers, and no error of it was missed.
LtStuck ==
    \/ \E c \in LtCalls : IF ltCall[c].pc = "wait" THEN LtFailed(ltCall[c].conn) ELSE FALSE
    \/ /\ ltCall["stop"].pc # "new"
       /\ ~(LtLeaked \/ LtLate \/ ltPeer # "up" \/ ltMissed # {})

\* "a missed update only delays the error by one frame" (record_fatal()): the
\* error of a missed update is known in the end, or the connection is closed.
LtxErrorOnlyDelayed ==
    \A g \in 1..LtMaxConns :
        (g \in ltMissed) ~> (IF g \in DOMAIN ltConn THEN ltConn[g].fatal \/ ~Connected(g) ELSE FALSE)
=============================================================================
