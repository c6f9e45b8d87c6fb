------------------------------ MODULE LiveTicks ------------------------------
(***************************************************************************)
(* personal-trading-phase1/app/live_runtime.py: how a received tick becomes *)
(* a row.  The process that holds the advisory lock appends every event to *)
(* a Redis stream; its batch writer reads the stream as one consumer,      *)
(* commits a batch to PostgreSQL and only then acknowledges it.  A process *)
(* may die, the server may drop the session that holds the lock (a second  *)
(* process then starts while the first still runs), and every call to      *)
(* PostgreSQL or Redis may fail before or after it took effect.            *)
(*                                                                         *)
(* Events are numbered in the order of received_at.                        *)
(***************************************************************************)
EXTENDS Integers, FiniteSets, FiniteSetsExt

CONSTANTS
  Owners,         \* live processes
  Nobody,
  BatchSize,      \* 100 entries
  \* bounds of the model, not of the code
  MaxEvents, MaxTickFaults

ASSUME TicksAssumption ==
  /\ IsFiniteSet(Owners) /\ Nobody \notin Owners
  /\ {BatchSize, MaxEvents} \subseteq Nat \ {0} /\ MaxTickFaults \in Nat

VARIABLES
  emitted,    \* events received so far: 1 .. emitted
  stream,     \* entries of theta:live:pending
  delivered,  \* the pending entries list of the consumer group
  db,         \* LiveTick
  cursor, \* LiveCheckpoint.received_at
  owner,      \* holder of advisory lock 73462004
  writer,     \* batch_writer of each process
  overlapped, \* history: a process started while a superseded one still ran
  tickFaults

tickVars == <<emitted, stream, delivered, db, cursor, owner, writer, overlapped, tickFaults>>

-----------------------------------------------------------------------------

Off == [pc |-> "off", pending |-> TRUE, replay |-> FALSE, batch |-> {}]
Started == [Off EXCEPT !.pc = "read"]

TicksInit ==
  /\ emitted = 0 /\ stream = {} /\ delivered = {} /\ db = {} /\ cursor = 0
  /\ owner = Nobody
  /\ writer = [p \in Owners |-> Off]
  /\ overlapped = FALSE
  /\ tickFaults = 0

TickFault == tickFaults < MaxTickFaults /\ tickFaults' = tickFaults + 1
Running(p) == writer[p].pc # "off"
Least(S, n) == {e \in S : Cardinality({x \in S : x < e}) < n}   \* the n oldest entries

-----------------------------------------------------------------------------

\* main, run_owned: the process that gets the lock starts its feeds and writer.
Acquire(p) ==
  /\ owner = Nobody /\ ~Running(p)
  /\ owner' = p
  /\ writer' = [writer EXCEPT ![p] = Started]
  /\ overlapped' = (overlapped \/ \E q \in Owners : Running(q))
  /\ UNCHANGED <<emitted, stream, delivered, db, cursor, tickFaults>>

\* The server drops the session and its lock; the process goes on until its
\* next ownership check.
LoseLock(p) ==
  /\ owner = p /\ TickFault
  /\ owner' = Nobody
  /\ UNCHANGED <<overlapped, emitted, stream, delivered, db, cursor, writer>>

\* The process dies, is cancelled, or finds its lock gone.
Leave(p) ==
  /\ Running(p)
  /\ \/ owner # p /\ UNCHANGED tickFaults
     \/ TickFault
  /\ owner' = IF owner = p THEN Nobody ELSE owner
  /\ writer' = [writer EXCEPT ![p] = Off]
  /\ UNCHANGED <<overlapped, emitted, stream, delivered, db, cursor>>

\* event: XADD, in the task of the feed.
Emit(p) ==
  /\ Running(p) /\ emitted < MaxEvents
  /\ emitted' = emitted + 1
  /\ stream' = stream \cup {emitted + 1}
  /\ UNCHANGED <<overlapped, delivered, db, cursor, owner, writer, tickFaults>>

\* What was delivered and not acknowledged: batches of this or another life.
ReadPending(p) ==
  LET entries == Least(delivered \cap stream, BatchSize) IN
  /\ writer[p].pc = "read" /\ writer[p].pending
  /\ writer' = [writer EXCEPT ![p] =
       IF entries # {} THEN [@ EXCEPT !.pc = "persist", !.replay = TRUE, !.batch = entries]
       ELSE [@ EXCEPT !.pending = FALSE]]
  /\ UNCHANGED <<overlapped, emitted, stream, delivered, db, cursor, owner, tickFaults>>

\* New entries join the batch; it is written when it is full or its time is up.
ReadNew(p) ==
  LET w == writer[p]
      entries == Least(stream \ delivered, Max({1, BatchSize - Cardinality(w.batch)}))
      batch == w.batch \cup entries
  IN
  /\ w.pc = "read" /\ ~w.pending
  /\ batch # {}
  /\ delivered' = delivered \cup entries
  /\ \/ /\ Cardinality(batch) < BatchSize /\ entries # {}
        /\ writer' = [writer EXCEPT ![p].batch = batch]
     \/ writer' = [writer EXCEPT ![p] = [@ EXCEPT !.pc = "persist", !.replay = FALSE, !.batch = batch]]
  /\ UNCHANGED <<overlapped, emitted, stream, db, cursor, owner, tickFaults>>

Greatest(old, batch) == Max({old} \cup batch)
NewCursor(old, batch) == Greatest(old, batch)

\* batch.clear(); pending = True
Reread(w) == [w EXCEPT !.pc = "read", !.pending = TRUE, !.replay = FALSE, !.batch = {}]
AfterFailure(w) == Reread(w)

\* persist_batch: the ticks and their cursor in one commit; a failure is
\* reported whether or not the commit took place.
Persist(p) ==
  LET w == writer[p] IN
  /\ w.pc = "persist"
  /\ \/ /\ db' = db \cup w.batch /\ cursor' = NewCursor(cursor, w.batch)
        /\ \/ writer' = [writer EXCEPT ![p].pc = "ack"] /\ UNCHANGED tickFaults
           \/ TickFault /\ writer' = [writer EXCEPT ![p] = AfterFailure(w)]
     \/ /\ TickFault /\ writer' = [writer EXCEPT ![p] = AfterFailure(w)]
        /\ UNCHANGED <<db, cursor>>
  /\ UNCHANGED <<overlapped, emitted, stream, delivered, owner>>

AllDelivered(w) == delivered                \* bug: every pending entry is acknowledged
Acknowledged(w) == w.batch

\* XACK and XDEL in one transaction of Redis.
Ack(p) ==
  LET w == writer[p]
      next == IF w.replay THEN Reread(w) ELSE [w EXCEPT !.pc = "read", !.batch = {}]
  IN
  /\ w.pc = "ack"
  /\ \/ /\ stream' = stream \ Acknowledged(w) /\ delivered' = delivered \ Acknowledged(w)
        /\ \/ writer' = [writer EXCEPT ![p] = next] /\ UNCHANGED tickFaults
           \/ TickFault /\ writer' = [writer EXCEPT ![p] = AfterFailure(w)]
     \/ /\ TickFault /\ writer' = [writer EXCEPT ![p] = AfterFailure(w)]
        /\ UNCHANGED <<stream, delivered>>
  /\ UNCHANGED <<overlapped, emitted, db, cursor, owner>>

-----------------------------------------------------------------------------

Writer(p) == ReadPending(p) \/ ReadNew(p) \/ Persist(p) \/ Ack(p)
TicksNext ==
  \E p \in Owners : Acquire(p) \/ LoseLock(p) \/ Leave(p) \/ Emit(p) \/ Writer(p)

TicksSpec == TicksInit /\ [][TicksNext]_tickVars

-----------------------------------------------------------------------------

\* An event leaves the stream only when it is in the database, whoever reads
\* it and whatever fails ("DB first, Redis ACK after commit").
NoTickLost == \A e \in 1 .. emitted : e \in stream \cup db

\* The restart cursor is the newest stored tick: replays and the batches of a
\* superseded process never move it back, and nothing puts it ahead.
CursorBacked == cursor = Max({0} \cup db)

\* Database and cursor agree with the stream whatever was acknowledged.
TicksSafe == NoTickLost /\ CursorBacked

\* Every received event is stored in the end, through any failure and restart,
\* as long as processes follow each other ("Uncommitted messages remain in the
\* stream PEL for next owner startup").
EveryTickStored == \A e \in 1 .. MaxEvents : (e <= emitted) ~> (e \in db \/ overlapped)

\* The same when they overlap.  Entries that a superseded process reads after
\* its successor has replayed the pending ones wait for the next restart.
NoTickStranded == \A e \in 1 .. MaxEvents : (e <= emitted) ~> (e \in db)
=============================================================================
