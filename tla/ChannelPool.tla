----------------------------- MODULE ChannelPool -----------------------------
(***************************************************************************)
(* The pool of amqp channels that the threads of one process publish push  *)
(* messages through.  A thread takes a channel under a lock, publishes     *)
(* without it, and after an exception replaces the connection and the pool *)
(* without it as well.  A step is a critical section, or one call to the   *)
(* broker outside of one.                                                  *)
(***************************************************************************)
EXTENDS Threads

CONSTANTS
  Senders,   \* the threads of the process
  PoolSize,  \* CHANNEL_POOL_SIZE
  MaxFaults  \* bound: connections dropped or refused, messages refused, channels not closed

ASSUME ChannelPoolAssumption ==
  /\ PoolSize \in Nat \ {0} /\ MaxFaults \in Nat
  /\ IsFiniteSet(Senders) /\ None \notin Senders

\* Objects in use at a time: the pools, which two threads may fill together, and
\* what is held.  An identity is used again after its object is out of reach.
Connections == 1 .. Cardinality(Senders) * (PoolSize * Cardinality(Senders) + 3)
Channels == 1 .. Cardinality(Senders) * (PoolSize * Cardinality(Senders) + 1)

VARIABLES
  current,   \* AmqpPublisher._channels_manager: named by the thread that made it
  pool,      \* _channels of each manager
  connection,\* _connection of each
  lock,      \* _lock of each: the thread that holds it
  channels,  \* the Channel objects
  up,        \* connections that are open
  faults,    \* so far
  sendStep, send  \* where each thread stands, and its local variables

channelPoolVars ==
  <<current, pool, connection, lock, channels, up, faults, sendStep, send>>

PublishSteps == {"idle", "create", "get", "use", "done", "failed",  \* publish
              "connect", "close", "reset", "fill"}               \* establish_connection

Channel == [conn : Connections \cup {0}, open : BOOLEAN, busy : BOOLEAN]
NoChannel == [conn |-> 0, open |-> FALSE, busy |-> FALSE]

\* mgr: the manager a method of which runs.  channel: the acquired channel.
\* filled: channels appended.  retry: the parameter of publish.
Send == [mgr : Senders \cup {None}, channel : Channels \cup {0},
         filled : 0 .. PoolSize, retry : BOOLEAN]
NewSend(m, retry) == [mgr |-> m, channel |-> 0, filled |-> 0, retry |-> retry]
NoSend == NewSend(None, FALSE)

ChannelPoolTypeOK ==
  /\ current \in Senders \cup {None}
  /\ pool \in [Senders -> SUBSET Channels]
  /\ connection \in [Senders -> Connections \cup {0}]
  /\ lock \in [Senders -> Senders \cup {None}]
  /\ channels \in [Channels -> Channel]
  /\ up \subseteq Connections
  /\ faults \in 0 .. MaxFaults
  /\ sendStep \in [Senders -> PublishSteps]
  /\ send \in [Senders -> Send]

ChannelPoolInit ==
  /\ current = None
  /\ pool = [s \in Senders |-> {}]
  /\ connection = [s \in Senders |-> 0]
  /\ lock = [s \in Senders |-> None]
  /\ channels = [c \in Channels |-> NoChannel]
  /\ up = {} /\ faults = 0
  /\ sendStep = [s \in Senders |-> "idle"]
  /\ send = [s \in Senders |-> NoSend]

-----------------------------------------------------------------------------
(* Operators named ...Broken are the code with one plausible mistake in it; *)
(* no action uses them.  They show that a property notices the mistake.      *)

SendGoto(s, step) == sendStep' = [sendStep EXCEPT ![s] = step]
SetSend(s, v) == send' = [send EXCEPT ![s] = v]
SendFinish(s) == SendGoto(s, "idle") /\ SetSend(s, NoSend)

Smallest(set) == {n \in set : \A m \in set : n <= m}

InPool == UNION {pool[s] : s \in Senders}
Held == {send[s].channel : s \in Senders} \ {0}
ConnsInUse == {connection[s] : s \in Senders} \cup {channels[c].conn : c \in InPool \cup Held}
\* A new object gets the smallest identity that is not in use.
FreshChannel == Smallest(Channels \ (InPool \cup Held))
FreshConnection == Smallest(Connections \ ConnsInUse)

Fault == faults < MaxFaults /\ faults' = faults + 1

NewChannel(conn) == [conn |-> conn, open |-> TRUE, busy |-> FALSE]
Usable(c) == channels[c].open /\ channels[c].conn \in up
Idle(m) == {c \in pool[m] : ~channels[c].busy}

-----------------------------------------------------------------------------
(* AmqpPublisher.publish. *)

\* self._channels_manager is looked at without a lock.
Publish(s) ==
  /\ sendStep[s] = "idle"
  /\ SetSend(s, NewSend(current, TRUE))
  /\ SendGoto(s, IF current = None THEN "create" ELSE "get")
  /\ UNCHANGED <<current, pool, connection, lock, channels, up, faults>>

\* ChannelsManager(config): nobody else sees its connection and channels before it
\* is assigned, perhaps in place of another thread's.
CreateManager(s) ==
  /\ sendStep[s] = "create"
  /\ \/ \E new \in SUBSET (Channels \ (InPool \cup Held)), k \in FreshConnection :
          /\ Cardinality(new) = PoolSize
          /\ \A c \in Channels \ (InPool \cup Held \cup new), d \in new : d < c
          /\ pool' = [pool EXCEPT ![s] = new]
          /\ channels' = [c \in Channels |->
               IF c \in new THEN NewChannel(k) ELSE channels[c]]
          /\ connection' = [connection EXCEPT ![s] = k]
          /\ up' = up \cup {k}
          /\ current' = s
          /\ SetSend(s, [send[s] EXCEPT !.mgr = s])
          /\ SendGoto(s, "get")
          /\ UNCHANGED faults
     \/ /\ Fault /\ SendFinish(s)
        /\ UNCHANGED <<current, pool, connection, channels, up>>
  /\ UNCHANGED lock

\* get_channel, when init_pool finds the connection open, or has just made it.
GetChannel(s) ==
  LET m == send[s].mgr IN
  /\ sendStep[s] = "get"
  /\ \/ lock[m] = s
     \/ lock[m] = None /\ connection[m] \in up
  /\ \E c \in Idle(m) :
       /\ channels' = [channels EXCEPT ![c].busy = TRUE]
       /\ SetSend(s, [send[s] EXCEPT !.channel = c])
  /\ lock' = [lock EXCEPT ![m] = None]
  /\ SendGoto(s, "use")
  /\ UNCHANGED <<current, pool, connection, up, faults>>

\* init_pool finds it closed: establish_connection within the lock.
ReconnectLocked(s) ==
  LET m == send[s].mgr IN
  /\ sendStep[s] = "get"
  /\ lock[m] = None /\ connection[m] \notin up
  /\ lock' = [lock EXCEPT ![m] = s]
  /\ SendGoto(s, "connect")
  /\ UNCHANGED <<current, pool, connection, channels, up, faults, send>>

\* The pool it made was replaced by another thread meanwhile: sleep, and try again.
NothingIdle(s) ==
  LET m == send[s].mgr IN
  /\ sendStep[s] = "get" /\ lock[m] = s /\ Idle(m) = {}
  /\ lock' = [lock EXCEPT ![m] = None]
  /\ UNCHANGED <<current, pool, connection, channels, up, faults, sendStep, send>>

\* basic.publish; the broker may also refuse, or not confirm.
BasicPublish(s) ==
  /\ sendStep[s] = "use"
  /\ \/ Usable(send[s].channel) /\ SendGoto(s, "done") /\ UNCHANGED faults
     \/ ~Usable(send[s].channel) /\ SendGoto(s, "failed") /\ UNCHANGED faults
     \/ Usable(send[s].channel) /\ SendGoto(s, "failed") /\ Fault
  /\ UNCHANGED <<current, pool, connection, lock, channels, up, send>>

\* release_channel, of the manager there is by now.  It does nothing for a channel
\* that is no longer in the pool.
FreeChannel(s) ==
  LET c == send[s].channel IN
  channels' = IF c \in pool[current] THEN [channels EXCEPT ![c].busy = FALSE]
              ELSE IF c \in InPool THEN channels
              ELSE [channels EXCEPT ![c] = NoChannel]

ReleaseChannelBroken(s) ==
  /\ sendStep[s] = "done" /\ lock[current] = None
  /\ SendFinish(s)
  /\ UNCHANGED <<current, pool, connection, lock, channels, up, faults>>

ReleaseChannel(s) ==
  /\ sendStep[s] = "done" /\ lock[current] = None
  /\ FreeChannel(s)
  /\ SendFinish(s)
  /\ UNCHANGED <<current, pool, connection, lock, up, faults>>

\* After an exception: release_channel, and on to establish_connection, unlocked.
ReleaseFailedBroken(s) ==
  /\ sendStep[s] = "failed" /\ lock[current] = None
  /\ SetSend(s, [send[s] EXCEPT !.channel = 0, !.mgr = current])
  /\ SendGoto(s, "connect")
  /\ UNCHANGED <<current, pool, connection, lock, channels, up, faults>>

ReleaseFailed(s) ==
  /\ sendStep[s] = "failed" /\ lock[current] = None
  /\ FreeChannel(s)
  /\ SetSend(s, [send[s] EXCEPT !.channel = 0, !.mgr = current])
  /\ SendGoto(s, "connect")
  /\ UNCHANGED <<current, pool, connection, lock, up, faults>>

-----------------------------------------------------------------------------
(* ChannelsManager.establish_connection. *)

Locked(s) == lock[send[s].mgr] = s

\* An exception leaves the lock, if it was taken, and ends publish.
Raise(s) ==
  /\ lock' = IF Locked(s) THEN [lock EXCEPT ![send[s].mgr] = None] ELSE lock
  /\ SendFinish(s)

Connect(s) ==
  /\ sendStep[s] = "connect"
  /\ \/ /\ \E k \in FreshConnection :
             /\ connection' = [connection EXCEPT ![send[s].mgr] = k]
             /\ up' = (up \cap ConnsInUse) \cup {k}
        /\ SendGoto(s, "close")
        /\ UNCHANGED <<lock, send, faults>>
     \/ /\ Fault /\ Raise(s)
        /\ UNCHANGED <<connection, up>>
  /\ UNCHANGED <<current, pool, channels>>

\* Every channel of the pool, whether or not a thread is using it.
CloseChannels(s) ==
  /\ sendStep[s] = "close"
  /\ channels' = [c \in Channels |->
       IF c \in pool[send[s].mgr] THEN [channels[c] EXCEPT !.open = FALSE] ELSE channels[c]]
  /\ SendGoto(s, "reset")
  /\ UNCHANGED <<current, pool, connection, lock, up, faults, send>>

\* One of them does not close: the pool stays, with the new connection.
CloseFails(s) ==
  /\ sendStep[s] = "close" /\ Fault
  /\ \E closed \in SUBSET pool[send[s].mgr] :
       /\ closed # {}
       /\ channels' = [c \in Channels |->
            IF c \in closed THEN [channels[c] EXCEPT !.open = FALSE] ELSE channels[c]]
  /\ Raise(s)
  /\ UNCHANGED <<current, pool, connection, up>>

ResetPool(s) ==
  /\ sendStep[s] = "reset"
  /\ pool' = [pool EXCEPT ![send[s].mgr] = {}]
  /\ channels' = [c \in Channels |->
       IF c \in pool[send[s].mgr] \ Held THEN NoChannel ELSE channels[c]]
  /\ SetSend(s, [send[s] EXCEPT !.filled = 0])
  /\ SendGoto(s, "fill")
  /\ UNCHANGED <<current, connection, lock, up, faults>>

\* The connection and the list are read again for each channel.  After the last,
\* get_channel goes on within the lock; publish tries once more, or gives up.
AppendChannel(s) ==
  LET m == send[s].mgr  n == send[s].filled + 1 IN
  /\ sendStep[s] = "fill" /\ connection[m] \in up
  /\ \E c \in FreshChannel :
       /\ channels' = [channels EXCEPT ![c] = NewChannel(connection[m])]
       /\ pool' = [pool EXCEPT ![m] = @ \cup {c}]
  /\ IF n < PoolSize
     THEN SetSend(s, [send[s] EXCEPT !.filled = n]) /\ UNCHANGED sendStep
     ELSE IF Locked(s)
     THEN SetSend(s, [send[s] EXCEPT !.filled = 0]) /\ SendGoto(s, "get")
     ELSE IF send[s].retry
     THEN SetSend(s, NewSend(current, FALSE)) /\ SendGoto(s, "get")
     ELSE SendFinish(s)
  /\ UNCHANGED <<current, connection, lock, up, faults>>

\* Channel() raises, because the connection has dropped or the broker refuses: the
\* pool stays as far as it is filled.  No bound is needed: it ends the call of publish.
AppendFails(s) ==
  /\ sendStep[s] = "fill"
  /\ Raise(s)
  /\ UNCHANGED <<current, pool, connection, channels, up, faults>>

-----------------------------------------------------------------------------

ConnectionDrops(k) ==
  /\ k \in up \cap ConnsInUse /\ Fault
  /\ up' = up \ {k}
  /\ UNCHANGED <<current, pool, connection, lock, channels, sendStep, send>>

SendWork(s) ==
  \/ CreateManager(s) \/ BasicPublish(s) \/ ReleaseChannel(s) \/ ReleaseFailed(s)
  \/ Connect(s) \/ CloseChannels(s) \/ CloseFails(s) \/ ResetPool(s)
  \/ AppendChannel(s) \/ AppendFails(s) \/ NothingIdle(s)

GetOn(s) == GetChannel(s) \/ ReconnectLocked(s)

ChannelPoolNext ==
  \/ \E s \in Senders : Publish(s) \/ SendWork(s) \/ GetOn(s)
  \/ \E k \in Connections : ConnectionDrops(k)

ChannelPoolSpec == ChannelPoolInit /\ [][ChannelPoolNext]_channelPoolVars

-----------------------------------------------------------------------------
(* Properties. *)

\* No two threads publish on one channel, and a channel of the pool that is busy is
\* in some thread's hands: whatever becomes of connections and pools, none is lost.
ChannelsExclusive ==
  /\ \A s, t \in Senders : s # t /\ send[s].channel # 0 => send[s].channel # send[t].channel
  /\ \A m \in Senders : \A c \in pool[m] :
       current = m /\ channels[c].busy => c \in Held

\* The pool of m has fewer channels than it should, the connection is open, so that
\* init_pool does nothing, and no thread is replacing them.
ShortPool(m) ==
  /\ Cardinality(pool[m]) < PoolSize /\ connection[m] \in up
  /\ \A t \in Senders :
       sendStep[t] \in {"connect", "close", "reset", "fill"} => send[t].mgr # m

\* init_pool "recreates it on error" and release_channel gives the channel "back to
\* the pool": a call of publish ends, with the message sent or given up, also when
\* connection and pool are replaced under its feet; unless it polls the pool of a
\* manager that another thread has replaced, or a pool that a channel that could not
\* be opened has left short.
PublishEndsUnlessDeserted ==
  \A s \in Senders :
    sendStep[s] # "idle" ~>
      \/ sendStep[s] = "idle"
      \/ sendStep[s] = "get" /\ (send[s].mgr # current \/ ShortPool(send[s].mgr))
=============================================================================
