---------------------------- MODULE RolloutRecorder ----------------------------
(***************************************************************************)
(* The recorder of a thread's rollout file (core/src/rollout/recorder.rs): *)
(* a writer task behind a channel of commands.  A fresh thread has no file *)
(* until someone asks for it (Persist); what is recorded before waits in a *)
(* buffer.  The writer ends at its first I/O error, and whatever is in its *)
(* buffer and channel is gone with it; callers are released either way.    *)
(*                                                                         *)
(* The actions of the callers take the caller as a parameter and are used  *)
(* by the modules that extend this one; `log' and the positions in the     *)
(* commands are bookkeeping for the properties.                            *)
(***************************************************************************)
EXTENDS Naturals, Sequences

CONSTANTS Callers,      \* tasks that wait for the recorder
          NoCaller      \* a command whose caller has been dropped

ASSUME RecorderAssumption == NoCaller \notin Callers

VARIABLES channel,      \* RolloutCmds the writer has not received
          writer,       \* "deferred" (no file yet), "opening", "open", "ended"
          buffered,     \* buffered_items
          writing,      \* items of the command in progress, not written yet
          serving,      \* the Persist in progress, if any
          file,         \* the items in the file, the SessionMeta line left out
          meta,         \* the SessionMeta line has been written
          waiting,      \* callers that wait for an ack
          log,          \* the items accepted and not lost
          acked,        \* history variables: how much of log had been queued before
          committed,    \* a command that returned Ok, and one the open file had served;
          lost          \* acknowledged items died with the writer or the process

promises == <<acked, committed, lost>>
recorder == <<channel, writer, buffered, writing, serving, file, meta,
              waiting, log, promises>>

Alive == writer # "ended"
Idle == writing = <<>> /\ serving = {} /\ writer # "opening"

RecorderInit ==
    /\ channel = <<>> /\ buffered = <<>> /\ writing = <<>> /\ file = <<>>
    /\ writer = "deferred" /\ meta = FALSE
    /\ serving = {} /\ waiting = {}
    /\ log = <<>> /\ acked = 0 /\ committed = 0 /\ lost = FALSE

-----------------------------------------------------------------------------
(* Callers. *)

\* RolloutRecorder::record_items, with one item: the send fails, and is only
\* logged, once the writer has ended.
RecordItems(e) ==
    /\ IF Alive
         THEN /\ log' = Append(log, e)
              /\ channel' = Append(channel, [op |-> "AddItems", item |-> e,
                                             upto |-> Len(log) + 1])
         ELSE UNCHANGED <<log, channel>>
    /\ UNCHANGED <<writer, buffered, writing, serving, file, meta, waiting,
                   promises>>

\* persist() and flush(): queue the command and wait for its ack.
Request(c, op) ==
    /\ IF Alive
         THEN /\ channel' = Append(channel, [op |-> op, from |-> c,
                                             upto |-> Len(log)])
              /\ waiting' = waiting \cup {c}
         ELSE UNCHANGED <<channel, waiting>>
    /\ UNCHANGED <<writer, buffered, writing, serving, file, meta, log, promises>>

CommandOf(c) ==
    {i \in DOMAIN channel : channel[i].op # "AddItems" /\ channel[i].from = c}

\* The future of a caller is dropped while it waits: the command stays.
Forget(c) ==
    /\ channel' = [i \in DOMAIN channel |->
                     IF i \in CommandOf(c)
                       THEN [channel[i] EXCEPT !.from = NoCaller]
                       ELSE channel[i]]
    /\ serving' = {[cmd EXCEPT !.from = IF @ = c THEN NoCaller ELSE @] :
                      cmd \in serving}
    /\ waiting' = waiting \ {c}
    /\ UNCHANGED <<writer, buffered, writing, file, meta, log, promises>>

-----------------------------------------------------------------------------
(* The writer task. *)

\* How many items have been acknowledged, and how many of them with the file open.
LargerOf(m, n) == IF m > n THEN m ELSE n
Ack(c) == waiting' = waiting \ {c}
Promise(n) == acked' = LargerOf(acked, n)
Commit(n) == Promise(n) /\ committed' = LargerOf(committed, n) /\ UNCHANGED lost

\* What is not in the file is gone, items with an ack (positions up to n) included.
Lose(n) ==
    /\ channel' = <<>> /\ buffered' = <<>> /\ writing' = <<>>
    /\ serving' = {} /\ waiting' = {}
    /\ log' = file
    /\ lost' = (lost \/ n > Len(file))

\* rollout_writer returns with an error, after an ack to the command that met it:
\* the receiver is dropped, and with it the commands in the channel and their
\* acks, so that whoever waits for them gets an error.
\* Mutant: the receiver outlives the writer, and keeps what is in the channel.
End_KeepsReceiver(n) ==
    /\ writer' = "ended"
    /\ buffered' = <<>> /\ writing' = <<>> /\ serving' = {}
    /\ waiting' = {c \in waiting : CommandOf(c) # {}}
    /\ log' = file
    /\ lost' = (lost \/ n > Len(file))
    /\ acked' = n
    /\ UNCHANGED <<channel, file, meta>>
End(n) ==
    /\ writer' = "ended"
    /\ Lose(n)
    /\ acked' = n
    /\ UNCHANGED <<file, meta>>

Receive(op) ==
    /\ Alive /\ Idle
    /\ channel # <<>> /\ Head(channel).op = op

\* RolloutCmd::AddItems.
ReceiveItems ==
    /\ Receive("AddItems")
    /\ channel' = Tail(channel)
    /\ \/ /\ writer = "deferred"
          /\ buffered' = Append(buffered, Head(channel).item)
          /\ UNCHANGED writing
       \/ /\ writer = "open"
          /\ writing' = <<Head(channel).item>>
          /\ UNCHANGED buffered
    /\ UNCHANGED <<writer, serving, file, meta, waiting, log, promises>>

\* RolloutCmd::Persist: nothing to do if the file is open.
ReceivePersist ==
    /\ Receive("Persist")
    /\ channel' = Tail(channel)
    /\ \/ /\ writer = "deferred"
          /\ writer' = "opening"
          /\ serving' = {Head(channel)}
          /\ UNCHANGED <<waiting, promises>>
       \/ /\ writer = "open"
          /\ Ack(Head(channel).from)
          /\ Commit(Head(channel).upto)
          /\ UNCHANGED <<writer, serving>>
    /\ UNCHANGED <<buffered, writing, file, meta, log>>

\* RolloutCmd::Flush: acknowledged without a file, too.
ReceiveFlush ==
    /\ Receive("Flush")
    /\ channel' = Tail(channel)
    /\ Ack(Head(channel).from)
    /\ \/ writer = "open" /\ Commit(Head(channel).upto)
       \/ writer = "deferred" /\ Promise(Head(channel).upto) /\ UNCHANGED <<committed, lost>>
    /\ UNCHANGED <<writer, buffered, writing, serving, file, meta, log>>

\* Mutant: the ack does not wait for the buffered items.
Persisted_Early ==
    IF serving # {}
      THEN /\ serving' = {}
           /\ \E cmd \in serving : Ack(cmd.from) /\ Commit(cmd.upto)
      ELSE UNCHANGED <<serving, waiting, promises>>

\* The end of a Persist that had to open the file.
Persisted ==
    IF writing' = <<>> /\ serving # {}
      THEN /\ serving' = {}
           /\ \E cmd \in serving : Ack(cmd.from) /\ Commit(cmd.upto)
      ELSE UNCHANGED <<serving, waiting, promises>>

\* Mutant: what was recorded before the file existed is forgotten.
OpenFile_NoBuffer ==
    /\ writer = "opening"
    /\ writer' = "open" /\ meta' = TRUE
    /\ writing' = <<>> /\ buffered' = <<>>
    /\ UNCHANGED <<channel, file, log>>
    /\ Persisted

\* open_log_file and write_session_meta; the buffer is written next.
OpenFile ==
    /\ writer = "opening"
    /\ writer' = "open" /\ meta' = TRUE
    /\ writing' = buffered /\ buffered' = <<>>
    /\ UNCHANGED <<channel, file, log>>
    /\ Persisted

\* write_rollout_item: one line, written and flushed.
WriteItem ==
    /\ writing # <<>>
    /\ file' = Append(file, Head(writing))
    /\ writing' = Tail(writing)
    /\ UNCHANGED <<channel, writer, buffered, meta, log>>
    /\ Persisted

\* Opening or writing fails: a Persist is acknowledged all the same.
WriteFails ==
    /\ writer = "opening" \/ writing # <<>>
    /\ \/ \E cmd \in serving : End(LargerOf(acked, cmd.upto))
       \/ serving = {} /\ End(acked)
    /\ UNCHANGED committed

\* Flushing fails, and is acknowledged; each line was flushed when it was written.
FlushFails ==
    /\ Receive("Flush") /\ writer = "open"
    /\ End(LargerOf(acked, Head(channel).upto))
    /\ committed' = LargerOf(committed, Head(channel).upto)

Writer == ReceiveItems \/ ReceivePersist \/ ReceiveFlush \/ OpenFile \/ WriteItem
          \/ WriteFails \/ FlushFails

-----------------------------------------------------------------------------
(* The process dies and the thread is resumed from its file; there has to be *)
(* a SessionMeta line to know it by (get_rollout_history).                   *)

Reopen ==
    /\ meta
    /\ writer' = "open"
    /\ Lose(acked)
    /\ UNCHANGED <<file, meta, acked, committed>>

-----------------------------------------------------------------------------
(* Properties. *)

\* What the writer has acknowledged with the file open is in the file and stays
\* there, later errors included: a client that re-reads the rollout finds it, and so
\* does a resumed thread.  Whatever else was acknowledged, as a Flush without a file
\* is, is in the file or on its way until the writer or the process ends
\* (recorder.rs:752-811).
AckedIsDurable ==
    /\ committed <= Len(file)
    /\ ~lost => acked <= Len(file) + Len(writing) + Len(buffered)

\* "Flush all queued writes and wait until they are committed by the writer task"
\* (recorder.rs:503): the same of every call that returned Ok.
AckedIsCommitted == acked <= Len(file)

\* Whoever waits for the recorder waits for a command that a living writer still has:
\* on every path, errors included, a command that is done with has let its caller go,
\* by its ack or by dropping it.  The submission loop flushes before it reports an
\* abort (recorder.rs:493-512, 794-811).
WaitersServed ==
    \A c \in waiting :
        /\ Alive
        /\ CommandOf(c) # {} \/ \E cmd \in serving : cmd.from = c

\* The rollout is an append-only log.
Log == INSTANCE DurableLog WITH disk <- file
ImplementsLog == Log!Spec
=============================================================================
