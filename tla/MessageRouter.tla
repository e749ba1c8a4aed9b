---------------------------- MODULE MessageRouter ----------------------------
(***************************************************************************)
(* MessageRouter (aruntime/comm/router.py): the mailbox of one agent, its  *)
(* unacknowledged and dead messages, the connections its successive worker *)
(* processes open, and the coroutines that write messages to them.  All    *)
(* state is kept per agent, so one agent is the general case.              *)
(*                                                                         *)
(* The router suspends only where it waits for a connection's lock (which  *)
(* send_event shares) or for a drain, so a coroutine's progress is its     *)
(* record in sends and everything between two suspensions is one action.   *)
(***************************************************************************)
EXTENDS Queues, Integers, Functions

CONSTANTS
    MaxMessages,   \* bound: messages sent to the agent, numbered by created_at
    MaxConns,      \* bound: connections its workers open, numbered in order
    MailboxMax,    \* AGENTD_MAILBOX_MAX, 0 for no limit
    MaxRestarts    \* bound: restarts of the daemon

ASSUME BoundsAreTyped ==
    MaxMessages \in Nat /\ MaxConns \in Nat /\ MailboxMax \in Nat /\ MaxRestarts \in Nat

Msgs == 1..MaxMessages
Conns == 1..MaxConns
NoConn == 0

VARIABLES
    mailbox,    \* _mailboxes[agent]
    dead,       \* _dead_letters[agent], as a set
    unacked,    \* _unacked, in insertion order
    processed,  \* _processed[agent]
    stored,     \* stored[m]: the row of m in mailbox_messages: none, mail or dead
    current,    \* _connections[agent], or NoConn
    queued,     \* queued[c]: what register has still to send on c
    sends,      \* calls of _send_to_writer: [msg, conn, by, retry, written]
    handlers,   \* connections whose handler in the daemon is running
    alive,      \* connections whose worker process is alive
    wire,       \* wire[c]: messages written to c and not yet read by the worker
    acks,       \* acks[c]: acknowledgements not yet read by the handler of c
    opened,     \* connections opened so far
    sent,       \* messages routed so far
    offered,    \* history: offered[c]: messages written to connection c
    received,   \* history: messages a client has received
    restarts    \* restarts of the daemon so far

boxVars == <<mailbox, dead, unacked, processed, stored>>
connVars == <<current, queued, sends, handlers>>
history == <<offered, received>>
workerVars == <<alive, wire, acks, opened>>
vars == <<boxVars, connVars, workerVars, sent, history, restarts>>

Init ==
    /\ mailbox = <<>> /\ unacked = <<>>
    /\ dead = {} /\ processed = {}
    /\ stored = [m \in Msgs |-> "none"]
    /\ current = NoConn
    /\ queued = [c \in Conns |-> <<>>]
    /\ sends = {} /\ handlers = {} /\ alive = {}
    /\ wire = [c \in Conns |-> {}]
    /\ acks = [c \in Conns |-> {}]
    /\ opened = 0 /\ sent = 0 /\ restarts = 0
    /\ offered = [c \in Conns |-> {}]
    /\ received = {}

-----------------------------------------------------------------------------
(* Seeded variants: rows are never deleted; acknowledged messages are      *)
(* queued like any other.                                                  *)
ForgetNothing(S) == stored
IsDuplicateNever(m) == FALSE

(* delete_mailbox_messages.                                                *)
Forget(S) == [m \in Msgs |-> IF m \in S THEN "none" ELSE stored[m]]

(* _enqueue_locked.  A full mailbox gives its oldest message to the dead   *)
(* letters; that message stays in unacked.                                 *)
Full == MailboxMax > 0 /\ Len(mailbox) >= MailboxMax
IsDuplicate(m) == m \in processed
Enqueue(m) ==
    LET kept == IF Full THEN Tail(mailbox) ELSE mailbox
        lost == IF Full THEN {Head(mailbox)} ELSE {} IN
    IF IsDuplicate(m) THEN UNCHANGED boxVars
    ELSE /\ mailbox' = Append(kept, m)
         /\ dead' = dead \union lost
         /\ unacked' = IF m \in Range(unacked) THEN unacked ELSE Append(unacked, m)
         /\ stored' = [x \in Msgs |-> IF x = m THEN "mail" ELSE IF x \in lost THEN "dead" ELSE stored[x]]
         /\ UNCHANGED processed

(* A call of _send_to_writer(m, c), made by the handler of connection by   *)
(* or, if that is NoConn, by route; retry says it is the second one.       *)
Call(m, c, by, retry) == [msg |-> m, conn |-> c, by |-> by, retry |-> retry, written |-> FALSE]

(* route.                                                                  *)
Route(m) ==
    /\ m = sent + 1
    /\ sent' = m
    /\ IF current = NoConn
       THEN Enqueue(m) /\ UNCHANGED sends
       ELSE sends' = sends \union {Call(m, current, NoConn, FALSE)} /\ UNCHANGED boxVars
    /\ UNCHANGED <<current, queued, handlers, workerVars, history, restarts>>

(* _send_to_writer has the connection's lock and writes; what is written   *)
(* to a worker that is gone reaches nobody.                                *)
Write(s) ==
    /\ ~s.written
    /\ \A o \in sends : o.conn = s.conn => ~o.written
    /\ sends' = (sends \ {s}) \union {[s EXCEPT !.written = TRUE]}
    /\ wire' = [wire EXCEPT ![s.conn] = IF s.conn \in alive THEN @ \union {s.msg} ELSE @]
    /\ offered' = [offered EXCEPT ![s.conn] = @ \union {s.msg}]
    /\ UNCHANGED <<boxVars, current, queued, handlers, alive, acks, opened, sent, received, restarts>>

(* drain returns.                                                          *)
SendOk(s) ==
    /\ s.written
    /\ sends' = sends \ {s}
    /\ UNCHANGED <<boxVars, current, queued, handlers, workerVars, sent, history, restarts>>

(* Seeded variant: a message whose retry fails is given up.                *)
RetryOrDrop(s, now) ==
    IF now # NoConn /\ ~s.retry
    THEN sends' = (sends \ {s}) \union {Call(s.msg, now, s.by, TRUE)} /\ UNCHANGED boxVars
    ELSE sends' = sends \ {s} /\ IF s.retry THEN UNCHANGED boxVars ELSE Enqueue(s.msg)

(* _requeue_after_send_failure, when now is the connection that is left:   *)
(* one retry on it if it is newer, and the mailbox otherwise.              *)
RetryOrRequeue(s, now) ==
    IF now # NoConn /\ ~s.retry
    THEN sends' = (sends \ {s}) \union {Call(s.msg, now, s.by, TRUE)} /\ UNCHANGED boxVars
    ELSE sends' = sends \ {s} /\ Enqueue(s.msg)

(* write or drain raises: the connection is unregistered if it is still    *)
(* the current one.  The stream's error also ends reading from it.         *)
SendFails(s) ==
    LET now == IF current = s.conn THEN NoConn ELSE current IN
    /\ s.conn \notin alive
    /\ current' = now
    /\ RetryOrRequeue(s, now)
    /\ acks' = [acks EXCEPT ![s.conn] = {}]
    /\ UNCHANGED <<queued, handlers, alive, wire, opened, sent, history, restarts>>

(* send_event fails on a connection whose worker is gone.                  *)
SendEventFails ==
    /\ current # NoConn /\ current \notin alive
    /\ acks' = [acks EXCEPT ![current] = {}]
    /\ current' = NoConn
    /\ UNCHANGED <<boxVars, queued, sends, handlers, alive, wire, opened, sent, history, restarts>>

-----------------------------------------------------------------------------
(* Seeded variant: only the mailbox is replayed.                           *)
ReplayMailbox(c) == mailbox

(* What a new connection is to be sent: the mailbox, then whatever else is *)
(* unacknowledged.                                                         *)
Replay(c) == mailbox \o Outside(unacked, Range(mailbox))

(* register: the messages leave the mailbox and the store before the first *)
(* of them is sent.  A worker connects only after the previous one's end.  *)
Register(c) ==
    /\ c = opened + 1 /\ alive = {}
    /\ opened' = c
    /\ alive' = {c}
    /\ handlers' = handlers \union {c}
    /\ current' = c
    /\ queued' = [queued EXCEPT ![c] = Replay(c)]
    /\ mailbox' = <<>>
    /\ stored' = Forget(Range(Replay(c)))
    /\ UNCHANGED <<dead, unacked, processed, sends, wire, acks, sent, history, restarts>>

Flushing(c) == queued[c] # <<>> \/ \E s \in sends : s.by = c

(* The next message of register's loop.                                    *)
Flush(c) ==
    /\ queued[c] # <<>> /\ \A s \in sends : s.by # c
    /\ sends' = sends \union {Call(Head(queued[c]), c, c, FALSE)}
    /\ queued' = [queued EXCEPT ![c] = Tail(@)]
    /\ UNCHANGED <<boxVars, current, handlers, workerVars, sent, history, restarts>>

(* ack.                                                                    *)
Acknowledge(m) ==
    /\ unacked' = Outside(unacked, {m})
    /\ processed' = processed \union {m}
    /\ stored' = Forget({m})
    /\ UNCHANGED <<mailbox, dead>>

(* _on_agent_message_ack, read by the handler once register has returned.  *)
Ack(c, m) ==
    /\ c \in handlers /\ ~Flushing(c) /\ m \in acks[c]
    /\ acks' = [acks EXCEPT ![c] = @ \ {m}]
    /\ Acknowledge(m)
    /\ UNCHANGED <<connVars, alive, wire, opened, sent, history, restarts>>

(* The handler reaches the end of the stream, or an error: unregister.     *)
EndConnection(c) ==
    /\ c \in handlers \ alive /\ ~Flushing(c)
    /\ handlers' = handlers \ {c}
    /\ current' = IF current = c THEN NoConn ELSE current
    /\ acks' = [acks EXCEPT ![c] = {}]
    /\ UNCHANGED <<boxVars, queued, sends, alive, wire, opened, sent, history, restarts>>

(* receive with a limit of k.                                              *)
Receive(k) ==
    LET got == Range(SubSeq(mailbox, 1, k)) \ processed IN
    /\ k \in 1..Len(mailbox)
    /\ mailbox' = SubSeq(mailbox, k + 1, Len(mailbox))
    /\ stored' = Forget(got)
    /\ received' = received \union got
    /\ UNCHANGED <<dead, unacked, processed, connVars, workerVars, sent, offered, restarts>>

-----------------------------------------------------------------------------
(* The worker reads a message and acknowledges it.                         *)
WorkerRead(c, m) ==
    /\ c \in alive /\ m \in wire[c]
    /\ wire' = [wire EXCEPT ![c] = @ \ {m}]
    /\ acks' = [acks EXCEPT ![c] = @ \union {m}]
    /\ UNCHANGED <<boxVars, connVars, alive, opened, sent, history, restarts>>

(* The worker exits, crashes or is stopped; what it had not read is lost.  *)
WorkerEnds(c) ==
    /\ c \in alive
    /\ alive' = {}
    /\ wire' = [wire EXCEPT ![c] = {}]
    /\ UNCHANGED <<boxVars, connVars, acks, opened, sent, history, restarts>>

(* load_mailbox_messages.                                                  *)
Restored == InOrder({m \in Msgs : stored[m] = "mail"})

(* The daemon stops and starts again: startup and restore_mailbox bring    *)
(* back the stored messages that are not dead, and nothing else.           *)
RestartDaemon ==
    /\ restarts < MaxRestarts
    /\ restarts' = restarts + 1
    /\ mailbox' = Restored
    /\ dead' = {} /\ unacked' = <<>> /\ processed' = {}
    /\ current' = NoConn
    /\ queued' = [c \in Conns |-> <<>>]
    /\ sends' = {} /\ handlers' = {} /\ alive' = {}
    /\ wire' = [c \in Conns |-> {}]
    /\ acks' = [c \in Conns |-> {}]
    /\ UNCHANGED <<stored, opened, sent, history>>

Next ==
    \/ \E m \in Msgs : Route(m)
    \/ \E s \in sends : Write(s) \/ SendOk(s) \/ SendFails(s)
    \/ SendEventFails
    \/ \E c \in Conns :
        \/ Register(c) \/ Flush(c) \/ EndConnection(c) \/ WorkerEnds(c)
        \/ \E m \in Msgs : Ack(c, m) \/ WorkerRead(c, m)
    \/ \E k \in 1..Len(mailbox) : Receive(k)
    \/ RestartDaemon

Spec == Init /\ [][Next]_vars
-----------------------------------------------------------------------------
(* Every variable has its type, and only connections of living workers     *)
(* carry unread messages.                                                  *)
TypeOK ==
    /\ mailbox \in Seq(Msgs) /\ unacked \in Seq(Msgs)
    /\ dead \subseteq Msgs /\ processed \subseteq Msgs /\ received \subseteq Msgs
    /\ stored \in [Msgs -> {"none", "mail", "dead"}]
    /\ current \in Conns \union {NoConn}
    /\ queued \in [Conns -> Seq(Msgs)]
    /\ sends \subseteq [msg : Msgs, conn : Conns, by : Conns \union {NoConn}, retry : BOOLEAN, written : BOOLEAN]
    /\ handlers \subseteq 1..opened /\ alive \subseteq {opened}
    /\ wire \in [Conns -> SUBSET Msgs] /\ acks \in [Conns -> SUBSET Msgs] /\ offered \in [Conns -> SUBSET Msgs]
    /\ \A c \in Conns \ alive : wire[c] = {}
    /\ opened \in 0..MaxConns /\ sent \in 0..MaxMessages /\ restarts \in 0..MaxRestarts

(* What a coroutine of the router is about to send.                        *)
InHand == {s.msg : s \in sends} \union UNION {Range(queued[c]) : c \in Conns}

(* The messages the router has in its keeping, or has handed to a worker's *)
(* connection or to a client.                                              *)
Known == Range(mailbox) \union Range(unacked) \union dead \union InHand
             \union (UNION {offered[c] : c \in Conns}) \union received

(* As long as the daemon runs, no step loses a message that was routed,    *)
(* however sends fail and connections replace one another.                 *)
KeepsMessages ==
    [][restarts' = restarts => Known \union ((1..sent') \ (1..sent)) \subseteq Known']_vars

(* While a worker is connected, register has offered it, or is about to    *)
(* offer it, every unacknowledged message; an exception is one that went   *)
(* back to the mailbox, was received there by a client or overflowed it.   *)
UnackedIsOffered ==
    current # NoConn =>
        Range(unacked) \subseteq offered[current] \union InHand \union Range(mailbox) \union received \union dead

(* An acknowledged message is never tracked as unacknowledged again: a     *)
(* send that fails after the acknowledgement does not requeue it.          *)
AckedIsNotReplayed == processed \intersect Range(unacked) = {}

(* A restart brings back only messages that were in the mailbox: none that *)
(* was received, acknowledged or given to a connection has kept its row.   *)
RestartRevivesNothing == {m \in Msgs : stored[m] = "mail"} \subseteq Range(mailbox)

=============================================================================
