----------------------------- MODULE ThreadHistory -----------------------------
(***************************************************************************)
(* The conversation of a thread: the history the model is prompted with    *)
(* (core/src/context_manager), the rollout it is recorded in               *)
(* (RolloutRecorder), and what changes both: turns that record their       *)
(* items, compaction, rollback, the marker of an interrupted turn, and a   *)
(* crash, after which the history is reconstructed from the file           *)
(* (codex.rs: reconstruct_history_from_rollout).                           *)
(*                                                                         *)
(* Three tasks of a session touch the history: the running turn, the tail  *)
(* of a turn that has already left active_turn (on_task_finished), and the *)
(* submission loop.  Each puts an item into the history under the state    *)
(* lock and then, in a second step, hands it to the recorder.              *)
(***************************************************************************)
EXTENDS RolloutRecorder, FiniteSets, SequencesExt

CONSTANTS Inputs,           \* user messages
          Calls,            \* ids of tool calls
          None,
          Size, Room,       \* tokens of a message, COMPACT_USER_MESSAGE_MAX_TOKENS
          MaxRollback,      \* bounds: rollbacks and how many turns they drop,
          MaxCompact,       \* compactions,
          MaxSwitch,        \* changes of the model,
          MaxCrash,         \* crashes,
          MaxEvents         \* all of these together

ASSUME CallersAssumption == Callers = {"turn", "tail", "loop"}

-----------------------------------------------------------------------------
(* Items. *)

Item(k, i) == [kind |-> k, id |-> i]
Message(u) == Item("user", u)
Context    == Item("context", None)     \* build_initial_context
Marker     == Item("marker", None)      \* <turn_aborted>
Switch     == Item("switch", None)      \* <model_switch>
Reappended == Item("reappended", None)  \* the same, put back by a local compaction
Draft      == Item("assistant", None)   \* what the model answered to a compaction
Summary    == Item("summary", None)     \* the user message made of it
Opaque     == Item("compaction", None)  \* a Compaction item of the server
Call(c)    == Item("call", c)
Output(c)  == Item("output", c)

Items == [kind : {"user"}, id : Inputs]
         \cup [kind : {"context", "marker", "switch", "reappended", "assistant",
                       "summary", "compaction"}, id : {None}]
         \cup [kind : {"call", "output"}, id : Calls]

\* is_user_turn_boundary, parse_turn_item: messages of the user, among them the
\* summaries; prefixes of the session (context, marker) are not.
UserMessages == [kind : {"user"}, id : Inputs]
UserTurns == UserMessages \cup {Summary}

\* Where the items of a kind are, and these items alone.
Places(items, S) ==
    LET places[n \in 0..Len(items)] ==
          IF n = 0 THEN <<>>
          ELSE IF items[n] \in S THEN Append(places[n - 1], n)
          ELSE places[n - 1]
    IN  places[Len(items)]
Keep(items, S) ==
    LET places == Places(items, S) IN [k \in DOMAIN places |-> items[places[k]]]

-----------------------------------------------------------------------------
(* ContextManager. *)

\* drop_last_n_user_turns: cut before the n-th user turn from the end, or the first.
DropLastTurns(items, n) ==
    LET turns == Places(items, UserTurns)
        cut == turns[IF n >= Len(turns) THEN 1 ELSE Len(turns) - n + 1]
    IN  IF turns = <<>> THEN items ELSE SubSeq(items, 1, cut - 1)

\* ensure_call_outputs_present: an "aborted" output right after every call that
\* has none.
Unanswered(items) ==
    {p \in DOMAIN items : items[p].kind = "call"
                          /\ ~Contains(items, Output(items[p].id))}
EnsureCallOutputs(items) ==
    LET ensured[n \in 0..Len(items)] ==
          IF n = 0 THEN <<>>
          ELSE ensured[n - 1] \o IF n \in Unanswered(items)
                                   THEN <<items[n], Output(items[n].id)>>
                                   ELSE <<items[n]>>
    IN  ensured[Len(items)]

\* remove_orphan_outputs.
IsOrphan(items, i) == i.kind = "output" /\ ~Contains(items, Call(i.id))
RemoveOrphans(items) == Keep(items, {i \in Items : ~IsOrphan(items, i)})

\* normalize_history, as for_prompt applies it to a copy.
ForPrompt(items) == RemoveOrphans(EnsureCallOutputs(items))

\* Mutant: an output stays behind when its call is trimmed.
RemoveFirstItem_Alone(items) == IF items = <<>> THEN items ELSE Tail(items)

\* remove_first_item, with which a compaction trims the prompt that is too long:
\* the other half of a pair goes, too.
Counterpart(i) == IF i.kind = "call" THEN Output(i.id) ELSE Call(i.id)
RemoveFirstItem(items) ==
    IF items = <<>> THEN items
    ELSE LET first == Head(items)
             rest == Tail(items)
             pair == {p \in DOMAIN rest : rest[p] = Counterpart(first)}
         IN  IF first.kind \in {"call", "output"} /\ pair # {}
               THEN RemoveAt(rest, CHOOSE p \in pair : \A q \in pair : p <= q)
               ELSE rest

-----------------------------------------------------------------------------
(* Compaction. *)

\* The newest messages of the user, as many as the newer ones leave room for; the
\* oldest of them is cut to what is left.
TokensAfter(users, n) ==
    FoldSeq(LAMBDA message, total : Size[message.id] + total, 0,
            SubSeq(users, n + 1, Len(users)))
WithinRoom(users) ==
    LET dropped == {n \in DOMAIN users : TokensAfter(users, n) >= Room}
    IN  SubSeq(users, Cardinality(dropped) + 1, Len(users))

\* build_compacted_history: the context, messages of the user, the summary.
LocallyCompacted(items) ==
    <<Context>> \o WithinRoom(Keep(items, UserMessages)) \o <<Summary>>

\* The answer of the compaction endpoint (external: those of the user's messages it
\* kept, and an opaque item) after process_compacted_history has put the context
\* before the last message.
RemotelyCompacted(items, kept) ==
    LET users == Keep(items, kept)
    IN  IF users = <<>> THEN <<Opaque, Context>>
        ELSE Front(users) \o <<Context, Last(users), Opaque>>

\* extract_trailing_model_switch_update_for_compaction_request: a change of the model
\* since the last turn of the user is not shown to the compaction, but put back.
TrailingSwitch(items) ==
    \E p \in DOMAIN items : /\ items[p] \in {Switch, Reappended}
                            /\ \A q \in p..Len(items) : items[q] \notin UserTurns

-----------------------------------------------------------------------------
(* The rollout and its replay. *)

Compacted(items) == [kind |-> "compacted", replacement |-> items]
RolledBack(n) == [kind |-> "rollback", turns |-> n]

Entries == Items \cup [kind : {"compacted"}, replacement : Seq(Items) \cup {None}]
                 \cup [kind : {"rollback"}, turns : Nat \ {0}]

ASSUME NoneAssumption ==
    None \notin Inputs /\ None \notin Entries /\ None \notin Seq(Items)

\* reconstruct_history_from_rollout.
ReplayItem(items, e) ==
    CASE e.kind = "compacted" -> IF e.replacement = None
                                   THEN LocallyCompacted(items)
                                   ELSE e.replacement
      [] e.kind = "rollback" -> DropLastTurns(items, e.turns)
      [] OTHER -> Append(items, e)
Replay(rollout) ==
    LET replayed[n \in 0..Len(rollout)] ==
          IF n = 0 THEN <<>> ELSE ReplayItem(replayed[n - 1], rollout[n])
    IN  replayed[Len(rollout)]

\* Mutant: rollback markers are not applied.
UserPositions_Raw(rollout) == Places(rollout, UserMessages)

\* user_message_positions_in_rollout: the messages that rollbacks have left.
CountItem(positions, e, p) ==
    CASE e.kind = "user" -> Append(positions, p)
      [] e.kind = "rollback" -> SubSeq(positions, 1, Len(positions) - e.turns)
      [] OTHER -> positions
UserPositions(rollout) ==
    LET positions[n \in 0..Len(rollout)] ==
          IF n = 0 THEN <<>> ELSE CountItem(positions[n - 1], rollout[n], n)
    IN  positions[Len(rollout)]

\* truncate_rollout_before_nth_user_message_from_start, counting from zero.
TruncateBefore(rollout, n) ==
    LET positions == UserPositions(rollout)
    IN  IF Len(positions) <= n THEN <<>>
        ELSE SubSeq(rollout, 1, positions[n + 1] - 1)

-----------------------------------------------------------------------------
(* The session. *)

VARIABLES history,      \* ContextManager.items
          seeded,       \* initial_context_seeded
          remote,       \* the provider compacts remotely
          active,       \* active_turn is Some
          task,         \* what the running task does: "regular" or "compact"
          at,           \* where each caller is
          hold,         \* the item it has put into the history, not yet recorded
          copy,         \* the copy of the history it will put back
          arg,          \* leftover input of the tail, num_turns of the loop, and
                        \* the change of the model that a compaction will put back
          prompt,       \* the input of the running turn, until it is recorded
          inflight,     \* calls of the request in progress, not answered yet
          used,         \* inputs and calls that have been made
          count,        \* rollbacks, compactions, switches and crashes so far
          raced,        \* history variables: tasks have got in between each
          before        \* other's two steps; the history each message came after

ghosts == <<raced, before>>
session == <<history, seeded, remote, active, task, at, hold, copy, arg, prompt,
             inflight, used, count, ghosts>>
vars == <<recorder, session>>

Init ==
    /\ RecorderInit
    /\ history = <<Context>> /\ seeded = TRUE       \* InitialHistory::New
    /\ remote \in BOOLEAN
    /\ active = FALSE /\ task = "regular"
    /\ at = [c \in Callers |-> IF c = "loop" THEN "starting" ELSE "idle"]
    /\ hold = [c \in Callers |-> IF c = "loop" THEN Context ELSE None]
    /\ copy = [c \in Callers |-> None]
    /\ arg = [c \in Callers |-> None] /\ prompt = None
    /\ inflight = {} /\ used = {}
    /\ count = [rollbacks |-> 0, compactions |-> 0, switches |-> 0, crashes |-> 0]
    /\ raced = FALSE
    /\ before = [u \in Inputs |-> None]

\* The bounds leave room for one more.
More(kind, max) ==
    /\ count[kind] < max
    /\ count.rollbacks + count.compactions + count.switches + count.crashes < MaxEvents

\* A caller acts when it has nothing to hand over and nothing to wait for.
Free(c) == hold[c] = None /\ c \notin waiting
At(c, pc) == Free(c) /\ at[c] = pc

\* Somebody else is between reading or changing the history and recording it.
Midway(c) == \E d \in Callers \ {c} : hold[d] # None \/ copy[d] # None
Race(c) == raced' = (raced \/ Midway(c))

\* record_into_history; RecordHeld does the second half of
\* record_conversation_items.
PutInHistory(c, i) ==
    /\ history' = Append(history, i)
    /\ hold' = [hold EXCEPT ![c] = i]
    /\ Race(c)
    /\ before' = IF i \in UserMessages THEN [before EXCEPT ![i.id] = history] ELSE before

RecordHeld(c) ==
    /\ hold[c] # None
    /\ RecordItems(hold[c])
    /\ hold' = [hold EXCEPT ![c] = None]
    /\ Race(c)
    /\ UNCHANGED <<history, seeded, remote, active, task, at, copy, arg, prompt,
                   inflight, used, count, before>>

\* flush_rollout and ensure_rollout_materialized, and where the caller goes on.
AfterAck == [starting |-> "idle", seeding |-> "spawn", marking |-> "idle",
             rolledback |-> "idle", prompted |-> "run"]
AwaitRecorder(c) ==
    /\ Free(c) /\ at[c] \in DOMAIN AfterAck
    /\ Request(c, IF at[c] = "prompted" THEN "Persist" ELSE "Flush")
    /\ at' = [at EXCEPT ![c] = AfterAck[at[c]]]
    /\ UNCHANGED <<history, seeded, remote, active, task, hold, copy, arg, prompt,
                   inflight, used, count, ghosts>>

-----------------------------------------------------------------------------
(* The submission loop. *)

\* seed_initial_context_if_needed, before the first turn of a resumed thread.
SeedContext ==
    /\ At("loop", "idle") /\ ~active /\ ~seeded
    /\ seeded' = TRUE
    /\ PutInHistory("loop", Context)
    /\ at' = [at EXCEPT !["loop"] = "seeding"]
    /\ UNCHANGED <<recorder, remote, active, task, copy, arg, prompt, inflight, used,
                   count>>

\* A user message that found no turn to steer, with another model than the turn before
\* (build_model_instructions_update_item); its turn is spawned next.
SwitchModel ==
    /\ Free("loop") /\ at["loop"] \in {"idle", "spawn"}
    /\ ~active /\ seeded /\ \E u \in Inputs : u \notin used
    /\ More("switches", MaxSwitch)
    /\ count' = [count EXCEPT !.switches = @ + 1]
    /\ PutInHistory("loop", Switch)
    /\ at' = [at EXCEPT !["loop"] = "switched"]
    /\ UNCHANGED <<recorder, seeded, remote, active, task, copy, arg, prompt, inflight,
                   used>>

\* spawn_task with a user message.
StartTurn(u) ==
    /\ Free("loop") /\ at["loop"] \in {"idle", "spawn", "switched"}
    /\ ~active /\ seeded /\ u \notin used
    /\ active' = TRUE /\ task' = "regular"
    /\ used' = used \cup {u}
    /\ prompt' = u
    /\ at' = [at EXCEPT !["loop"] = "idle", !["turn"] = "presampling"]
    /\ UNCHANGED <<recorder, history, seeded, remote, hold, copy, arg, inflight, count,
                   ghosts>>

\* The running task is aborted, its future dropped where it is.
DropTurn ==
    /\ Forget("turn")
    /\ copy' = [copy EXCEPT !["turn"] = None]
    /\ arg' = [arg EXCEPT !["turn"] = None]
    /\ prompt' = None
    /\ inflight' = {}

\* Op::Compact: spawn_task aborts the running turn, if any (Replaced).
StartCompact ==
    /\ Free("loop") /\ at["loop"] \in {"idle", "spawn"}
    /\ seeded /\ More("compactions", MaxCompact)
    /\ count' = [count EXCEPT !.compactions = @ + 1]
    /\ DropTurn
    /\ hold' = [hold EXCEPT !["turn"] = None]
    /\ raced' = (raced \/ hold["turn"] # None)
    /\ active' = TRUE /\ task' = "compact"
    /\ at' = [at EXCEPT !["loop"] = "idle", !["turn"] = "compact"]
    /\ UNCHANGED <<history, seeded, remote, used, before>>

\* Op::Interrupt: abort_all_tasks and the marker.
Interrupt ==
    /\ At("loop", "idle") /\ active
    /\ active' = FALSE
    /\ DropTurn
    /\ history' = Append(history, Marker)
    /\ hold' = [hold EXCEPT !["turn"] = None, !["loop"] = Marker]
    /\ raced' = (raced \/ hold["turn"] # None \/ hold["tail"] # None)
    /\ at' = [at EXCEPT !["loop"] = "marking", !["turn"] = "idle"]
    /\ UNCHANGED <<seeded, remote, task, used, count, before>>

\* thread_rollback: no turn may be active; the history is copied, and the copy
\* with the last turns dropped is put back after the lock was released.
BeginRollback(n) ==
    /\ At("loop", "idle") /\ ~active
    /\ More("rollbacks", MaxRollback)
    /\ count' = [count EXCEPT !.rollbacks = @ + 1]
    /\ copy' = [copy EXCEPT !["loop"] = DropLastTurns(history, n)]
    /\ arg' = [arg EXCEPT !["loop"] = n]
    /\ Race("loop")
    /\ at' = [at EXCEPT !["loop"] = "rolling"]
    /\ UNCHANGED <<recorder, history, seeded, remote, active, task, hold, prompt,
                   inflight, used, before>>

\* Mutant: the marker does not reach the rollout.
EndRollback_NotRecorded ==
    /\ At("loop", "rolling")
    /\ history' = copy["loop"]
    /\ copy' = [copy EXCEPT !["loop"] = None]
    /\ arg' = [arg EXCEPT !["loop"] = None]
    /\ Race("loop")
    /\ at' = [at EXCEPT !["loop"] = "rolledback"]
    /\ UNCHANGED <<recorder, seeded, remote, active, task, hold, prompt, inflight, used,
                   count, before>>

EndRollback ==
    /\ At("loop", "rolling")
    /\ history' = copy["loop"]
    /\ hold' = [hold EXCEPT !["loop"] = RolledBack(arg["loop"])]
    /\ copy' = [copy EXCEPT !["loop"] = None]
    /\ arg' = [arg EXCEPT !["loop"] = None]
    /\ Race("loop")
    /\ at' = [at EXCEPT !["loop"] = "rolledback"]
    /\ UNCHANGED <<recorder, seeded, remote, active, task, prompt, inflight, used, count,
                   before>>

-----------------------------------------------------------------------------
(* The running turn. *)

\* record_user_prompt_and_emit_turn_item, after run_pre_sampling_compact.
RecordPrompt ==
    /\ At("turn", "presampling")
    /\ PutInHistory("turn", Message(prompt))
    /\ prompt' = None
    /\ at' = [at EXCEPT !["turn"] = "prompted"]
    /\ UNCHANGED <<recorder, seeded, remote, active, task, copy, arg, inflight, used,
                   count>>

\* Pending input that steer_input left for the turn, between two requests.
PollInput(u) ==
    /\ At("turn", "run") /\ inflight = {} /\ u \notin used
    /\ used' = used \cup {u}
    /\ PutInHistory("turn", Message(u))
    /\ at' = [at EXCEPT !["turn"] = "prompted"]
    /\ UNCHANGED <<recorder, seeded, remote, active, task, copy, arg, prompt, inflight,
                   count>>

\* A call of the model, and its output when the tool has ended.
RecordCall(c) ==
    /\ At("turn", "run") /\ c \notin used
    /\ used' = used \cup {c}
    /\ inflight' = inflight \cup {c}
    /\ PutInHistory("turn", Call(c))
    /\ UNCHANGED <<recorder, seeded, remote, active, task, at, copy, arg, prompt, count>>

RecordOutput(c) ==
    /\ At("turn", "run") /\ c \in inflight
    /\ inflight' = inflight \ {c}
    /\ PutInHistory("turn", Output(c))
    /\ UNCHANGED <<recorder, seeded, remote, active, task, at, copy, arg, prompt, used,
                   count>>

\* The stream breaks: the tool futures are dropped, and the request is made again
\* with the prompt it had.
RetryRequest ==
    /\ At("turn", "run") /\ inflight # {}
    /\ inflight' = {}
    /\ UNCHANGED <<recorder, history, seeded, remote, active, task, at, hold, copy,
                   arg, prompt, used, count, ghosts>>

\* run_auto_compact, before the prompt is recorded or between two requests.
AutoCompact ==
    /\ Free("turn") /\ at["turn"] \in {"presampling", "run"} /\ inflight = {}
    /\ More("compactions", MaxCompact)
    /\ count' = [count EXCEPT !.compactions = @ + 1]
    /\ at' = [at EXCEPT !["turn"] = "compact"]
    /\ UNCHANGED <<recorder, history, seeded, remote, active, task, hold, copy,
                   arg, prompt, inflight, used, ghosts>>

\* run_compact_task_inner: the request for a summary, and drain_to_completed, which
\* puts the answer into the history only.
RequestSummary ==
    /\ At("turn", "compact") /\ ~remote
    /\ arg' = [arg EXCEPT !["turn"] = IF TrailingSwitch(history) THEN Switch ELSE None]
    /\ at' = [at EXCEPT !["turn"] = "requested"]
    /\ UNCHANGED <<recorder, history, seeded, remote, active, task, hold, copy, prompt,
                   inflight, used, count, ghosts>>

RecordDraft ==
    /\ At("turn", "requested")
    /\ history' = Append(history, Draft)
    /\ Race("turn")
    /\ at' = [at EXCEPT !["turn"] = "drafted"]
    /\ UNCHANGED <<recorder, seeded, remote, active, task, hold, copy, arg, prompt,
                   inflight, used, count, before>>

\* The compacted history is made of a copy taken after the request, or before it if
\* the server compacts.
CopyLocally ==
    /\ At("turn", "drafted")
    /\ copy' = [copy EXCEPT !["turn"] =
                   LocallyCompacted(history)
                   \o IF arg["turn"] = Switch THEN <<Reappended>> ELSE <<>>]
    /\ arg' = [arg EXCEPT !["turn"] = None]
    /\ Race("turn")
    /\ at' = [at EXCEPT !["turn"] = "replacing"]
    /\ UNCHANGED <<recorder, history, seeded, remote, active, task, hold, prompt,
                   inflight, used, count, before>>

CopyRemotely ==
    /\ At("turn", "compact") /\ remote
    /\ \E kept \in SUBSET (Range(history) \intersect UserTurns) :
          copy' = [copy EXCEPT !["turn"] =
                     RemotelyCompacted(history, kept)
                     \o IF TrailingSwitch(history) THEN <<Switch>> ELSE <<>>]
    /\ Race("turn")
    /\ at' = [at EXCEPT !["turn"] = "replacing"]
    /\ UNCHANGED <<recorder, history, seeded, remote, active, task, hold, arg, prompt,
                   inflight, used, count, before>>

ReplaceHistory ==
    /\ At("turn", "replacing")
    /\ history' = copy["turn"]
    /\ hold' = [hold EXCEPT !["turn"] =
                   Compacted(IF remote THEN copy["turn"] ELSE None)]
    /\ copy' = [copy EXCEPT !["turn"] = None]
    /\ Race("turn")
    /\ at' = [at EXCEPT !["turn"] = CASE task = "compact" -> "done"
                                     [] task # "compact" /\ prompt # None -> "presampling"
                                     [] OTHER -> "run"]
    /\ UNCHANGED <<recorder, seeded, remote, active, task, arg, prompt, inflight, used,
                   count, before>>

\* on_task_finished: the turn leaves active_turn, perhaps with input that
\* arrived after its last poll.  It may end early, with calls unanswered, with a
\* compaction that has failed, or before it has recorded its prompt.
FinishTurn ==
    /\ Free("turn") /\ active
    /\ at["turn"] \in {"presampling", "run", "compact", "requested", "drafted", "replacing",
                      "done"}
    /\ at["turn"] = "replacing" => remote
    /\ active' = FALSE
    /\ inflight' = {} /\ prompt' = None
    /\ copy' = [copy EXCEPT !["turn"] = None]
    /\ \/ /\ at' = [at EXCEPT !["turn"] = "idle"]
          /\ arg' = [arg EXCEPT !["turn"] = None]
          /\ UNCHANGED used
       \/ /\ at["tail"] = "idle"
          /\ \E u \in Inputs \ used :
                /\ used' = used \cup {u}
                /\ arg' = [arg EXCEPT !["turn"] = None, !["tail"] = u]
          /\ at' = [at EXCEPT !["turn"] = "idle", !["tail"] = "leftover"]
    /\ UNCHANGED <<recorder, history, seeded, remote, task, hold, count, ghosts>>

RecordLeftover ==
    /\ At("tail", "leftover")
    /\ PutInHistory("tail", Message(arg["tail"]))
    /\ arg' = [arg EXCEPT !["tail"] = None]
    /\ at' = [at EXCEPT !["tail"] = "idle"]
    /\ UNCHANGED <<recorder, seeded, remote, active, task, copy, prompt, inflight, used,
                   count>>

-----------------------------------------------------------------------------

\* The process dies; the thread is resumed from its file (record_initial_history,
\* InitialHistory::Resumed), perhaps with another provider.
CrashAndResume ==
    /\ More("crashes", MaxCrash)
    /\ Reopen
    /\ count' = [count EXCEPT !.crashes = @ + 1]
    /\ history' = Replay(file) /\ seeded' = FALSE
    /\ remote' \in BOOLEAN
    /\ active' = FALSE /\ task' = "regular"
    /\ at' = [c \in Callers |-> IF c = "loop" THEN "starting" ELSE "idle"]
    /\ hold' = [c \in Callers |-> None]
    /\ copy' = [c \in Callers |-> None]
    /\ arg' = [c \in Callers |-> None] /\ prompt' = None
    /\ inflight' = {}
    /\ UNCHANGED <<used, ghosts>>

Loop == SeedContext \/ SwitchModel \/ (\E u \in Inputs : StartTurn(u)) \/ StartCompact
        \/ Interrupt \/ (\E n \in 1..2 : BeginRollback(n)) \/ EndRollback

Turn == RecordPrompt \/ (\E u \in Inputs : PollInput(u))
        \/ (\E c \in Calls : RecordCall(c) \/ RecordOutput(c))
        \/ RetryRequest \/ AutoCompact \/ RequestSummary \/ RecordDraft
        \/ CopyLocally \/ CopyRemotely \/ ReplaceHistory \/ FinishTurn

Next ==
    \/ Loop \/ Turn \/ RecordLeftover
    \/ \E c \in Callers : RecordHeld(c) \/ AwaitRecorder(c)
    \/ Writer /\ UNCHANGED session
    \/ CrashAndResume

Spec == Init /\ [][Next]_vars

-----------------------------------------------------------------------------
(* Properties. *)

\* Nobody is between its two steps.
Quiet == \A c \in Callers : hold[c] = None /\ copy[c] = None

\* A thread that is resumed shows the model the conversation the live one had,
\* through any sequence of turns, compactions, rollbacks and interrupts whose
\* steps were not interleaved.  Two things the live history alone has: the draft of a
\* failed compaction, and the model switch that a local compaction puts back
\* (compact.rs:213-231).
Recorded(items) == Keep(items, Items \ {Draft, Reappended})
ResumesAsSeen ==
    Quiet /\ Alive /\ ~raced => Recorded(Replay(log)) = Recorded(history)

\* Whatever has been cut, compacted, aborted or lost, a prompt answers every
\* call once, after it, keeps everything else in order, and trimming the oldest
\* item leaves no output without its call (normalize.rs panics on one in debug
\* builds).
Answered(items) ==
    /\ \A p \in DOMAIN items : items[p].kind = "call" =>
         Cardinality({q \in DOMAIN items : items[q] = Output(items[p].id)}) = 1
    /\ \A q \in DOMAIN items : items[q].kind = "output" =>
         \E p \in 1..(q - 1) : items[p] = Call(items[q].id)
WithoutOutputs(items) == Keep(items, Items \ [kind : {"output"}, id : Calls])
NoOrphans(items) == \A p \in DOMAIN items : ~IsOrphan(items, items[p])
Trimmings(items) ==
    LET trimmed[n \in 0..Len(items)] ==
          IF n = 0 THEN items ELSE RemoveFirstItem(trimmed[n - 1])
    IN  trimmed
PromptsBalanced ==
    LET sent == ForPrompt(history)
    IN  /\ Answered(sent)
        /\ WithoutOutputs(sent) = WithoutOutputs(history)
        /\ \A items \in Range(Trimmings(history)) : NoOrphans(items)

\* A thread forked before a message starts with the conversation the message came
\* after, whatever was compacted or dropped before it, and afresh if there is no such
\* message.  The messages are counted as a transcript shows them, which compactions
\* leave alone and rollbacks cut (truncate_rollout_before_nth_user_message_from_start).
MessagesOf(items) == Keep(items, UserMessages)
Transcript(rollout) ==
    MessagesOf(Replay(Keep(rollout, Items \cup [kind : {"rollback"}, turns : Nat \ {0}])))
ForkKeepsPrefix ==
    ~raced =>
        LET users == Transcript(log)
        IN  /\ \A n \in 0..(Len(users) - 1) :
                 Recorded(Replay(TruncateBefore(log, n))) = Recorded(before[users[n + 1].id])
            /\ TruncateBefore(log, Len(users)) = <<>>

-----------------------------------------------------------------------------
(* A statement of the repository that the code does not keep. *)

\* "Reattach the stripped model-switch update only after successful compaction so the
\* model still sees the switch instructions on the next real sampling request"
\* (compact.rs:214-215), for a thread that is resumed before that request.
SwitchStillSeen ==
    Quiet /\ Alive /\ ~raced /\ TrailingSwitch(history) => TrailingSwitch(Replay(log))
=============================================================================
