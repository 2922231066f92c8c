----------------------------- MODULE RolloutProofs -----------------------------
(***************************************************************************)
(* Proofs about the rollout of a thread, for any inputs, calls and bounds: *)
(* what has been acknowledged stays in the file, and the recorder under    *)
(* every interleaving of turns, rollbacks, compactions, interrupts,        *)
(* crashes and I/O errors implements the append-only log of DurableLog.    *)
(***************************************************************************)
EXTENDS ThreadHistory, TLAPS

\* What ThreadHistory does to its recorder.
RecorderStep ==
    \/ \E e : RecordItems(e)
    \/ \E c \in Callers, op \in {"Persist", "Flush"} : Request(c, op)
    \/ \E c \in Callers : Forget(c)
    \/ Writer
    \/ Reopen
    \/ UNCHANGED recorder

-----------------------------------------------------------------------------
(* Sequences of anything: the items are not typed. *)

IsSeq(s) == \E S : s \in Seq(S)

\* The empty sequence is one.
LEMMA EmptyIsSeq == IsSeq(<<>>) /\ Len(<<>>) = 0
<1>1. <<>> \in Seq({})  OBVIOUS
<1> QED  BY <1>1 DEF IsSeq

\* A sequence has a length, and entries up to it.
LEMMA SeqFacts ==
    ASSUME NEW s, IsSeq(s)
    PROVE  /\ Len(s) \in Nat /\ DOMAIN s = 1..Len(s)
           /\ s = <<>> <=> Len(s) = 0
<1>1. PICK S : s \in Seq(S)  BY DEF IsSeq
<1> QED  BY <1>1

\* What recording one more item makes of a sequence.
LEMMA AppendFacts ==
    ASSUME NEW s, IsSeq(s), NEW e
    PROVE  /\ IsSeq(Append(s, e))
           /\ Len(Append(s, e)) = Len(s) + 1
           /\ \A i \in 1..Len(s) : Append(s, e)[i] = s[i]
           /\ Append(s, e)[Len(s) + 1] = e
<1>1. PICK S : s \in Seq(S)  BY DEF IsSeq
<1> DEFINE T == S \cup {e}
<1>2. s \in Seq(T) /\ e \in T  BY <1>1
<1>3. Append(s, e) \in Seq(T)  BY <1>2
<1> HIDE DEF T
<1> QED  BY <1>2, <1>3 DEF IsSeq

\* What receiving the first command makes of the channel.
LEMMA TailFacts ==
    ASSUME NEW s, IsSeq(s), s # <<>>
    PROVE  /\ IsSeq(Tail(s))
           /\ Len(Tail(s)) = Len(s) - 1
           /\ \A i \in 1..(Len(s) - 1) : Tail(s)[i] = s[i + 1]
           /\ Head(s) = s[1]
           /\ 1 \in 1..Len(s)
<1>1. PICK S : s \in Seq(S)  BY DEF IsSeq
<1>2. Tail(s) \in Seq(S)  BY <1>1
<1> QED  BY <1>1, <1>2 DEF IsSeq

-----------------------------------------------------------------------------
(* The inductive invariant. *)

Cmds == [op : {"Persist", "Flush"}, from : Callers \cup {NoCaller}, upto : Nat]

\* The items the writer has received and not lost.
Taken == Len(file) + Len(writing) + Len(buffered)

\* The four sequences hold, one after the other, what log says.
TypeInv ==
    /\ IsSeq(log) /\ IsSeq(file) /\ IsSeq(writing) /\ IsSeq(buffered) /\ IsSeq(channel)
    /\ writer \in {"deferred", "opening", "open", "ended"}
    /\ serving \subseteq Cmds
    /\ acked \in Nat /\ committed \in Nat /\ lost \in BOOLEAN
    /\ \A i \in 1..Len(channel) :
          /\ channel[i].upto \in Nat
          /\ channel[i].op = "AddItems" \/ channel[i] \in Cmds

WriterInv ==
    /\ writer = "deferred" => writing = <<>> /\ serving = {}
    /\ writer = "opening" => writing = <<>>
    /\ writer \in {"open", "ended"} => buffered = <<>>
    /\ writer = "ended" => channel = <<>> /\ writing = <<>> /\ serving = {}
    /\ \A cmd \in serving : cmd.upto <= Taken

\* Each command knows how much of log is before it.
Step(cmd) == IF cmd.op = "AddItems" THEN 1 ELSE 0
ChannelInv ==
    /\ channel = <<>> => Len(log) = Taken
    /\ channel # <<>> => /\ channel[1].upto = Taken + Step(channel[1])
                         /\ channel[Len(channel)].upto = Len(log)
    /\ \A i \in 1..(Len(channel) - 1) :
          channel[i + 1].upto = channel[i].upto + Step(channel[i + 1])
    /\ \A i \in 1..Len(channel) : Taken <= channel[i].upto /\ channel[i].upto <= Len(log)
    /\ Taken <= Len(log)
    /\ \A i, j \in 1..Len(channel) : i <= j => channel[i].upto <= channel[j].upto

ContentInv ==
    /\ \A i \in 1..Len(file) : file[i] = log[i]
    /\ \A i \in 1..Len(writing) : writing[i] = log[Len(file) + i]
    /\ \A i \in 1..Len(buffered) : buffered[i] = log[Len(file) + Len(writing) + i]
    /\ \A i \in 1..Len(channel) :
          channel[i].op = "AddItems" => channel[i].item = log[channel[i].upto]

IInv == TypeInv /\ WriterInv /\ ChannelInv /\ ContentInv /\ AckedIsDurable

-----------------------------------------------------------------------------
(* Every step of a thread is one of these of its recorder. *)

LEMMA NextIsRecorderStep == Next => RecorderStep
<1> SUFFICES ASSUME Next PROVE RecorderStep  OBVIOUS
<1> USE CallersAssumption
<1>1. CASE Loop
  <2>1. CASE StartCompact  BY <2>1 DEF StartCompact, DropTurn, RecorderStep
  <2>2. CASE Interrupt  BY <2>2 DEF Interrupt, DropTurn, RecorderStep
  <2>3. CASE SeedContext \/ SwitchModel \/ (\E u \in Inputs : StartTurn(u))
             \/ (\E n \in 1..2 : BeginRollback(n)) \/ EndRollback
    BY <2>3 DEF SeedContext, SwitchModel, StartTurn, BeginRollback, EndRollback, RecorderStep
  <2> QED  BY <1>1, <2>1, <2>2, <2>3 DEF Loop
<1>2. CASE Turn \/ RecordLeftover
  BY <1>2 DEF Turn, RecordPrompt, PollInput, RecordCall, RecordOutput, RetryRequest,
              AutoCompact, RequestSummary, RecordDraft, CopyLocally, CopyRemotely,
              ReplaceHistory, FinishTurn, RecordLeftover, RecorderStep
<1>3. ASSUME NEW c \in Callers, RecordHeld(c) PROVE RecorderStep
  BY <1>3 DEF RecordHeld, RecorderStep
<1>4. ASSUME NEW c \in Callers, AwaitRecorder(c) PROVE RecorderStep
  BY <1>4 DEF AwaitRecorder, RecorderStep
<1>5. CASE Writer  BY <1>5 DEF RecorderStep
<1>6. CASE CrashAndResume  BY <1>6 DEF CrashAndResume, RecorderStep
<1> QED  BY <1>1, <1>2, <1>3, <1>4, <1>5, <1>6 DEF Next

-----------------------------------------------------------------------------
(* The invariant is inductive. *)

LEMMA InitIInv == Init => IInv
<1> SUFFICES ASSUME Init PROVE IInv  OBVIOUS
<1>1. RecorderInit  BY DEF Init
<1>2. /\ channel = <<>> /\ Len(channel) = 0 /\ IsSeq(<<>>) /\ Taken = 0
  BY <1>1, EmptyIsSeq DEF RecorderInit, Taken
<1>3. TypeInv
  <2>1. lost \in BOOLEAN  BY <1>1 DEF RecorderInit
  <2>2. 1..Len(channel) = {}  BY <1>2
  <2> QED  BY <1>1, <1>2, <2>1, <2>2 DEF RecorderInit, TypeInv
<1>4. WriterInv  BY <1>1, <1>2 DEF RecorderInit, WriterInv
<1>5. ChannelInv  BY <1>1, <1>2 DEF RecorderInit, ChannelInv
<1>6. ContentInv  BY <1>1, <1>2 DEF RecorderInit, ContentInv
<1>7. AckedIsDurable  BY <1>1, EmptyIsSeq DEF RecorderInit, AckedIsDurable
<1> QED  BY <1>3, <1>4, <1>5, <1>6, <1>7 DEF IInv

\* A command that goes to the end of the channel keeps it in step with log.
LEMMA SendChannelInv ==
    ASSUME IInv, NEW cmd, channel' = Append(channel, cmd),
           cmd.upto = Len(log) + Step(cmd), Len(log') = cmd.upto,
           UNCHANGED <<file, writing, buffered>>
    PROVE  ChannelInv'
<1> DEFINE n == Len(channel)
<1>1. /\ Len(log) \in Nat /\ Taken \in Nat /\ n \in Nat
      /\ channel = <<>> <=> n = 0
      /\ Taken' = Taken
  BY SeqFacts DEF IInv, TypeInv, Taken
<1>2. /\ Len(channel') = n + 1 /\ channel' # <<>>
      /\ \A i \in 1..n : channel'[i] = channel[i]
      /\ channel'[n + 1] = cmd
  <2>1. IsSeq(channel)  BY DEF IInv, TypeInv
  <2>2. /\ IsSeq(channel') /\ Len(channel') = n + 1
        /\ \A i \in 1..n : channel'[i] = channel[i]
        /\ channel'[n + 1] = cmd
    BY <2>1, AppendFacts
  <2>3. channel' # <<>>  BY <2>2, <1>1, SeqFacts
  <2> QED  BY <2>2, <2>3
<1>3. Step(cmd) \in {0, 1}  BY DEF Step
<1>4. \A i \in 1..n : channel[i].upto \in Nat  BY DEF IInv, TypeInv
<1> HIDE DEF n
<1>5. channel'[1].upto = Taken' + Step(channel'[1])
  <2>1. CASE n = 0  BY <2>1, <1>1, <1>2 DEF IInv, ChannelInv
  <2>2. CASE n # 0
    <3>1. channel'[1] = channel[1]  BY <2>2, <1>1, <1>2
    <3> QED  BY <3>1, <2>2, <1>1 DEF IInv, ChannelInv
  <2> QED  BY <2>1, <2>2
<1>6. \A i \in 1..n : channel'[i + 1].upto = channel'[i].upto + Step(channel'[i + 1])
  <2> TAKE i \in 1..n
  <2>1. CASE i = n
    <3>1. channel[n].upto = Len(log)  BY <2>1, <1>1 DEF IInv, ChannelInv, n
    <3> QED  BY <3>1, <2>1, <1>2
  <2>2. CASE i # n
    <3>1. i \in 1..(n - 1) /\ i + 1 \in 1..n  BY <2>2, <1>1
    <3>2. channel[i + 1].upto = channel[i].upto + Step(channel[i + 1])
      BY <3>1 DEF IInv, ChannelInv, n
    <3> QED  BY <3>1, <3>2, <1>2
  <2> QED  BY <2>1, <2>2
<1>7. \A i \in 1..(n + 1) : Taken' <= channel'[i].upto /\ channel'[i].upto <= Len(log')
  <2>1. Taken <= Len(log)  BY DEF IInv, ChannelInv
  <2>2. \A i \in 1..n : Taken <= channel[i].upto /\ channel[i].upto <= Len(log)
    BY DEF IInv, ChannelInv, n
  <2>3. Len(log) <= cmd.upto /\ cmd.upto \in Nat  BY <1>1, <1>3
  <2> TAKE i \in 1..(n + 1)
  <2>4. CASE i = n + 1  BY <2>4, <2>1, <2>3, <1>1, <1>2
  <2>5. CASE i # n + 1
    <3>1. i \in 1..n  BY <2>5, <1>1
    <3> QED  BY <3>1, <2>2, <2>3, <1>1, <1>2, <1>4
  <2> QED  BY <2>4, <2>5
<1>8. Taken' <= Len(log')  BY <1>1, <1>3 DEF IInv, ChannelInv
<1>9. \A i, j \in 1..(n + 1) : i <= j => channel'[i].upto <= channel'[j].upto
  <2> TAKE i, j \in 1..(n + 1)
  <2> HAVE i <= j
  <2>1. CASE j = n + 1
    <3>1. channel'[i].upto <= Len(log') /\ channel'[j].upto = Len(log')  BY <1>2, <1>7, <2>1
    <3> QED  BY <3>1
  <2>2. CASE j # n + 1
    <3>1. i \in 1..n /\ j \in 1..n  BY <2>2, <1>1
    <3>2. channel[i].upto <= channel[j].upto  BY <3>1 DEF IInv, ChannelInv, n
    <3> QED  BY <3>1, <3>2, <1>2
  <2> QED  BY <2>1, <2>2
<1>10. (n + 1) - 1 = n  BY <1>1
<1> QED  BY <1>1, <1>2, <1>5, <1>6, <1>7, <1>8, <1>9, <1>10 DEF ChannelInv

\* One more item, behind everything that is in the channel.
LEMMA RecordItemsIInv ==
    ASSUME IInv, NEW e, RecordItems(e)
    PROVE  IInv'
<1>1. CASE ~Alive
  BY <1>1 DEF RecordItems, promises, IInv, TypeInv, WriterInv, ChannelInv, ContentInv,
              Taken, AckedIsDurable
<1>2. CASE Alive
  <2> DEFINE cmd == [op |-> "AddItems", item |-> e, upto |-> Len(log) + 1]
  <2>1. /\ log' = Append(log, e) /\ channel' = Append(channel, cmd)
        /\ UNCHANGED <<writer, buffered, writing, serving, file, acked, committed, lost>>
        /\ writer # "ended"
    BY <1>2 DEF RecordItems, Alive, promises
  <2>2. /\ cmd.op = "AddItems" /\ cmd.item = e /\ cmd.upto = Len(log) + 1
        /\ Step(cmd) = 1
    BY DEF Step
  <2> HIDE DEF cmd
  <2>3. /\ IsSeq(log') /\ Len(log') = Len(log) + 1
        /\ \A i \in 1..Len(log) : log'[i] = log[i]
        /\ log'[Len(log) + 1] = e
    BY <2>1, AppendFacts DEF IInv, TypeInv
  <2>4. /\ IsSeq(channel') /\ Len(channel') = Len(channel) + 1
        /\ \A i \in 1..Len(channel) : channel'[i] = channel[i]
        /\ channel'[Len(channel) + 1] = cmd
    BY <2>1, AppendFacts DEF IInv, TypeInv
  <2>5. /\ Len(log) \in Nat /\ Len(file) \in Nat /\ Len(writing) \in Nat
        /\ Len(buffered) \in Nat /\ Len(channel) \in Nat /\ (channel = <<>> <=> Len(channel) = 0)
    BY SeqFacts DEF IInv, TypeInv
  <2>6. TypeInv'  BY <2>1, <2>2, <2>3, <2>4, <2>5 DEF IInv, TypeInv
  <2>7. WriterInv'  BY <2>1 DEF IInv, WriterInv, Taken
  <2>8. ChannelInv'  BY <2>1, <2>2, <2>3, SendChannelInv
  <2>9. ContentInv'
    <3>1. Taken \in Nat /\ Taken <= Len(log) /\ Taken = Len(file) + Len(writing) + Len(buffered)
      BY <2>5 DEF IInv, ChannelInv, Taken
    <3>2. /\ \A i \in 1..Len(file) : file'[i] = log'[i]
          /\ \A i \in 1..Len(writing) : writing'[i] = log'[Len(file) + i]
          /\ \A i \in 1..Len(buffered) : buffered'[i] = log'[Len(file) + Len(writing) + i]
      BY <2>1, <2>3, <2>5, <3>1 DEF IInv, ContentInv
    <3>3. ASSUME NEW i \in 1..Len(channel), channel[i].op = "AddItems"
          PROVE  channel[i].item = log'[channel[i].upto]
      <4>1. channel[i].upto \in Nat /\ channel[i].upto <= Len(log)
        BY DEF IInv, TypeInv, ChannelInv
      <4>2. channel[i].upto >= 1
        <5>1. CASE i = 1
          BY <5>1, <3>1, <3>3, <2>5, <4>1 DEF IInv, ChannelInv, Step
        <5>2. CASE i # 1
          <6>1. i - 1 \in 1..(Len(channel) - 1) /\ i - 1 \in 1..Len(channel) /\ (i - 1) + 1 = i
            BY <5>2, <2>5
          <6>2. channel[i].upto = channel[i - 1].upto + 1 /\ channel[i - 1].upto \in Nat
            BY <6>1, <3>3 DEF IInv, TypeInv, ChannelInv, Step
          <6> QED  BY <6>2
        <5> QED  BY <5>1, <5>2
      <4>3. channel[i].upto \in 1..Len(log)  BY <4>1, <4>2, <2>5
      <4> QED  BY <4>3, <3>3, <2>3 DEF IInv, ContentInv
    <3>4. \A i \in 1..Len(channel') :
             channel'[i].op = "AddItems" => channel'[i].item = log'[channel'[i].upto]
      BY <3>3, <2>2, <2>3, <2>4, <2>5
    <3> QED  BY <3>2, <3>4, <2>1 DEF ContentInv
  <2> QED  BY <2>1, <2>6, <2>7, <2>8, <2>9 DEF IInv, AckedIsDurable
<1> QED  BY <1>1, <1>2

\* A request to persist or to flush takes the end of the log with it.
LEMMA RequestIInv ==
    ASSUME IInv, NEW c \in Callers, NEW op \in {"Persist", "Flush"}, Request(c, op)
    PROVE  IInv'
<1>1. CASE ~Alive
  BY <1>1 DEF Request, promises, IInv, TypeInv, WriterInv, ChannelInv, ContentInv,
              Taken, AckedIsDurable
<1>2. CASE Alive
  <2> DEFINE cmd == [op |-> op, from |-> c, upto |-> Len(log)]
  <2>1. /\ channel' = Append(channel, cmd)
        /\ UNCHANGED <<writer, buffered, writing, serving, file, log, acked, committed, lost>>
        /\ writer # "ended"
    BY <1>2 DEF Request, Alive, promises
  <2>5. /\ Len(log) \in Nat /\ Len(file) \in Nat /\ Len(writing) \in Nat
        /\ Len(buffered) \in Nat /\ Len(channel) \in Nat /\ (channel = <<>> <=> Len(channel) = 0)
    BY SeqFacts DEF IInv, TypeInv
  <2>2. cmd \in Cmds /\ cmd.op # "AddItems" /\ cmd.upto = Len(log) /\ Step(cmd) = 0
    BY <2>5 DEF Step, Cmds
  <2> HIDE DEF cmd
  <2>4. /\ IsSeq(channel') /\ Len(channel') = Len(channel) + 1
        /\ \A i \in 1..Len(channel) : channel'[i] = channel[i]
        /\ channel'[Len(channel) + 1] = cmd
    BY <2>1, AppendFacts DEF IInv, TypeInv
  <2>6. TypeInv'  BY <2>1, <2>2, <2>4, <2>5 DEF IInv, TypeInv
  <2>7. WriterInv'  BY <2>1 DEF IInv, WriterInv, Taken
  <2>8. ChannelInv'  BY <2>1, <2>2, <2>5, SendChannelInv
  <2>9. ContentInv'  BY <2>1, <2>2, <2>4, <2>5 DEF IInv, ContentInv
  <2> QED  BY <2>1, <2>6, <2>7, <2>8, <2>9 DEF IInv, AckedIsDurable
<1> QED  BY <1>1, <1>2

\* A caller that goes away leaves its command where it is.
LEMMA ForgetIInv ==
    ASSUME IInv, NEW c \in Callers, Forget(c)
    PROVE  IInv'
<1>1. /\ Len(channel) \in Nat /\ DOMAIN channel = 1..Len(channel)
      /\ channel = <<>> <=> Len(channel) = 0
  BY SeqFacts DEF IInv, TypeInv
<1>2. /\ IsSeq(channel') /\ Len(channel') = Len(channel)
      /\ channel' = <<>> <=> channel = <<>>
  <2> DEFINE S == {channel'[i] : i \in 1..Len(channel)}
  <2>1. channel' \in [1..Len(channel) -> S]  BY <1>1 DEF Forget
  <2>2. channel' \in Seq(S)  BY <1>1, <2>1
  <2>3. Len(channel') = Len(channel)  BY <1>1, <2>1, <2>2
  <2> QED  BY <1>1, <2>2, <2>3, SeqFacts DEF IsSeq
<1>3. \A i \in 1..Len(channel) :
         /\ channel'[i].upto = channel[i].upto /\ channel'[i].op = channel[i].op
         /\ channel[i].op = "AddItems" => channel'[i] = channel[i]
         /\ channel[i].op # "AddItems" => channel'[i] \in Cmds
  BY <1>1 DEF Forget, CommandOf, IInv, TypeInv, Cmds
<1>4. serving' \subseteq Cmds
      /\ \A cmd \in serving' : \E old \in serving : cmd.upto = old.upto
  BY DEF Forget, IInv, TypeInv, Cmds
<1>5. UNCHANGED <<writer, buffered, writing, file, log, acked, committed, lost>>
  BY DEF Forget, promises
<1>6. serving = {} => serving' = {}  BY DEF Forget
<1>7. TypeInv'  BY <1>1, <1>2, <1>3, <1>4, <1>5 DEF IInv, TypeInv
<1>8. WriterInv'  BY <1>1, <1>2, <1>4, <1>5, <1>6 DEF IInv, WriterInv, Taken
<1>9. ChannelInv'  BY <1>1, <1>2, <1>3, <1>5 DEF IInv, ChannelInv, Taken, Step
<1>10. ContentInv'  BY <1>1, <1>2, <1>3, <1>5 DEF IInv, ContentInv
<1> QED  BY <1>5, <1>7, <1>8, <1>9, <1>10 DEF IInv, AckedIsDurable

\* What is left of the channel when the writer takes its first command.
LEMMA ReceiveFacts ==
    ASSUME IInv, channel # <<>>, channel' = Tail(channel)
    PROVE  /\ IsSeq(channel') /\ Len(channel) \in Nat
           /\ Len(channel') = Len(channel) - 1
           /\ channel' = <<>> <=> Len(channel') = 0
           /\ \A i \in 1..Len(channel') : channel'[i] = channel[i + 1]
           /\ Head(channel) = channel[1] /\ 1 \in 1..Len(channel)
           /\ channel[1].upto \in Nat
           /\ channel[1].op = "AddItems" \/ channel[1] \in Cmds
<1>1. IsSeq(channel) /\ Len(channel) \in Nat  BY SeqFacts DEF IInv, TypeInv
<1>2. /\ IsSeq(channel') /\ Len(channel') = Len(channel) - 1
      /\ \A i \in 1..(Len(channel) - 1) : channel'[i] = channel[i + 1]
      /\ Head(channel) = channel[1] /\ 1 \in 1..Len(channel)
  BY <1>1, TailFacts
<1> QED  BY <1>1, <1>2, SeqFacts DEF IInv, TypeInv

\* The commands that stay keep their places when the first one is taken.
LEMMA ReceiveChannelInv ==
    ASSUME IInv, channel # <<>>, channel' = Tail(channel),
           Taken' = Taken + Step(channel[1]), log' = log
    PROVE  ChannelInv'
<1> DEFINE n == Len(channel)
<1>1. /\ n \in Nat /\ Len(channel') = n - 1 /\ n >= 1
      /\ channel' = <<>> <=> n - 1 = 0
      /\ \A i \in 1..(n - 1) : channel'[i] = channel[i + 1]
  BY ReceiveFacts
<1>2. /\ channel[1].upto = Taken'
      /\ channel[n].upto = Len(log)
      /\ \A i \in 1..(n - 1) : channel[i + 1].upto = channel[i].upto + Step(channel[i + 1])
      /\ \A i \in 1..n : channel[i].upto \in Nat /\ channel[i].upto <= Len(log)
      /\ \A i, j \in 1..n : i <= j => channel[i].upto <= channel[j].upto
  BY DEF IInv, TypeInv, ChannelInv
<1> HIDE DEF n
<1>3. Taken' <= Len(log)  BY <1>1, <1>2
<1>5. CASE n = 1
  <2>1. channel' = <<>> /\ Len(channel') = 0 /\ Len(log') = Taken'  BY <1>1, <1>2, <1>5
  <2>2. 1..Len(channel') = {} /\ 1..(Len(channel') - 1) = {}  BY <2>1
  <2> QED  BY <2>1, <2>2, <1>3 DEF ChannelInv
<1>4. CASE n # 1
  <2>1. channel'[1] = channel[2] /\ channel'[n - 1] = channel[n] /\ 1 \in 1..(n - 1)
    BY <1>1, <1>4
  <2>2. channel[2].upto = Taken' + Step(channel[2])
    <3>1. 1 + 1 = 2  OBVIOUS
    <3> QED  BY <1>2, <2>1, <3>1
  <2>3. \A i \in 1..((n - 1) - 1) :
           channel'[i + 1].upto = channel'[i].upto + Step(channel'[i + 1])
    <3> TAKE i \in 1..((n - 1) - 1)
    <3>1. i \in 1..(n - 1) /\ i + 1 \in 1..(n - 1)  BY <1>1
    <3>2. channel'[i] = channel[i + 1] /\ channel'[i + 1] = channel[(i + 1) + 1]
      BY <1>1, <3>1
    <3> QED  BY <1>2, <3>1, <3>2
  <2>4. \A i \in 1..(n - 1) : Taken' <= channel'[i].upto /\ channel'[i].upto <= Len(log)
    <3> TAKE i \in 1..(n - 1)
    <3>1. i + 1 \in 1..n /\ 1 \in 1..n /\ 1 <= i + 1  BY <1>1
    <3>2. channel[1].upto <= channel[i + 1].upto /\ channel[i + 1].upto <= Len(log)
      BY <3>1, <1>2
    <3> QED  BY <3>2, <1>1, <1>2
  <2>5. \A i, j \in 1..(n - 1) : i <= j => channel'[i].upto <= channel'[j].upto
    <3> TAKE i, j \in 1..(n - 1)
    <3> HAVE i <= j
    <3>1. i + 1 \in 1..n /\ j + 1 \in 1..n /\ i + 1 <= j + 1  BY <1>1
    <3> QED  BY <3>1, <1>1, <1>2
  <2> QED  BY <1>1, <1>2, <1>4, <2>1, <2>2, <1>3, <2>3, <2>4, <2>5 DEF ChannelInv
<1> QED  BY <1>4, <1>5

\* An item leaves the channel for the buffer or for the file.
LEMMA ReceiveItemsIInv ==
    ASSUME IInv, ReceiveItems
    PROVE  IInv'
<1>1. /\ channel # <<>> /\ channel' = Tail(channel) /\ Head(channel).op = "AddItems"
      /\ UNCHANGED <<writer, serving, file, log, acked, committed, lost>>
      /\ writing = <<>> /\ serving = {}
  BY DEF ReceiveItems, Receive, Idle, promises
<1>2. /\ Head(channel) = channel[1] /\ 1 \in 1..Len(channel)
      /\ IsSeq(channel') /\ Len(channel) \in Nat /\ Len(channel') = Len(channel) - 1
      /\ \A i \in 1..Len(channel') : channel'[i] = channel[i + 1]
  BY <1>1, ReceiveFacts
<1>3. /\ Len(file) \in Nat /\ Len(writing) = 0 /\ Len(buffered) \in Nat /\ Len(log) \in Nat
      /\ Taken = Len(file) + Len(buffered)
      /\ IsSeq(writing) /\ IsSeq(buffered) /\ writer \in {"deferred", "opening", "open", "ended"}
  BY <1>1, SeqFacts DEF IInv, TypeInv, Taken
<1>4. channel[1].upto = Taken + 1 /\ Step(channel[1]) = 1 /\ channel[1].item = log[Taken + 1]
  BY <1>1, <1>2, <1>3 DEF IInv, ChannelInv, ContentInv, Step
<1>5. /\ Taken' = Taken + 1 /\ IsSeq(writing') /\ IsSeq(buffered')
      /\ WriterInv'
      /\ \A i \in 1..Len(writing') : writing'[i] = log'[Len(file') + i]
      /\ \A i \in 1..Len(buffered') : buffered'[i] = log'[Len(file') + Len(writing') + i]
  <2>1. CASE writer = "deferred"
    <3>1. buffered' = Append(buffered, channel[1].item) /\ writing' = writing
      BY <2>1, <1>1, <1>2 DEF ReceiveItems
    <3>2. /\ IsSeq(buffered') /\ Len(buffered') = Len(buffered) + 1
          /\ \A i \in 1..Len(buffered) : buffered'[i] = buffered[i]
          /\ buffered'[Len(buffered) + 1] = log[Taken + 1]
      BY <3>1, <1>3, <1>4, AppendFacts
    <3>3. Taken' = Taken + 1  BY <3>1, <3>2, <1>1, <1>3 DEF Taken
    <3>4. WriterInv'  BY <2>1, <3>1, <1>1 DEF IInv, WriterInv
    <3>5. \A i \in 1..Len(buffered') : buffered'[i] = log[Len(file) + i]
      <4>1. \A i \in 1..Len(buffered) : buffered[i] = log[Len(file) + Len(writing) + i]
        BY DEF IInv, ContentInv
      <4>2. \A i \in 1..Len(buffered) : Len(file) + Len(writing) + i = Len(file) + i
        BY <1>3
      <4>3. Taken + 1 = Len(file) + (Len(buffered) + 1)  BY <1>3
      <4>4. \A i \in 1..Len(buffered') : i \in 1..Len(buffered) \/ i = Len(buffered) + 1
        BY <3>2, <1>3
      <4> QED  BY <3>2, <4>1, <4>2, <4>3, <4>4
    <3> QED  BY <3>1, <3>2, <3>3, <3>4, <3>5, <1>1, <1>3
  <2>2. CASE writer = "open"
    <3>1. writing' = <<channel[1].item>> /\ buffered' = buffered /\ buffered = <<>>
      BY <2>2, <1>1, <1>2 DEF ReceiveItems, IInv, WriterInv
    <3>2. IsSeq(writing') /\ Len(writing') = 1 /\ writing'[1] = log[Taken + 1]
      <4>1. writing' \in Seq({channel[1].item})  BY <3>1
      <4> QED  BY <3>1, <4>1, <1>4 DEF IsSeq
    <3>3. Len(buffered) = 0  BY <3>1, EmptyIsSeq
    <3>4. Taken' = Taken + 1  BY <3>1, <3>2, <3>3, <1>1, <1>3 DEF Taken
    <3>5. WriterInv'  BY <2>2, <3>1, <1>1 DEF WriterInv
    <3> QED  BY <3>1, <3>2, <3>3, <3>4, <3>5, <1>1, <1>3
  <2> QED  BY <2>1, <2>2 DEF ReceiveItems
<1>6. TypeInv'  BY <1>1, <1>2, <1>5 DEF IInv, TypeInv
<1>7. ChannelInv'  BY <1>1, <1>4, <1>5, ReceiveChannelInv
<1>8. ContentInv'
  <2>1. \A i \in 1..Len(channel') :
           channel'[i].op = "AddItems" => channel'[i].item = log'[channel'[i].upto]
    BY <1>1, <1>2 DEF IInv, ContentInv
  <2> QED  BY <2>1, <1>1, <1>5 DEF IInv, ContentInv
<1>9. AckedIsDurable'
  <2>1. committed <= Len(file) /\ (~lost => acked <= Taken)
    BY DEF IInv, AckedIsDurable, Taken
  <2>2. acked \in Nat /\ Taken \in Nat  BY <1>3 DEF IInv, TypeInv
  <2>3. ~lost' => acked' <= Taken'  BY <1>1, <1>5, <2>1, <2>2
  <2> QED  BY <1>1, <2>1, <2>3 DEF AckedIsDurable, Taken
<1> QED  BY <1>6, <1>5, <1>7, <1>8, <1>9 DEF IInv

\* A command without items leaves the channel.
LEMMA ReceiveOtherIInv ==
    ASSUME IInv, ReceivePersist \/ ReceiveFlush
    PROVE  IInv'
<1>1. /\ channel # <<>> /\ channel' = Tail(channel) /\ Head(channel).op # "AddItems"
      /\ UNCHANGED <<buffered, writing, file, log>>
      /\ writing = <<>> /\ serving = {} /\ writer \in {"deferred", "open"}
  BY DEF ReceivePersist, ReceiveFlush, Receive, Idle, Alive, IInv, TypeInv
<1>2. /\ Head(channel) = channel[1] /\ 1 \in 1..Len(channel)
      /\ IsSeq(channel') /\ Len(channel) \in Nat /\ Len(channel') = Len(channel) - 1
      /\ \A i \in 1..Len(channel') : channel'[i] = channel[i + 1]
      /\ channel[1].upto \in Nat /\ channel[1] \in Cmds
  BY <1>1, ReceiveFacts
<1>3. /\ Len(file) \in Nat /\ Len(writing) = 0 /\ Len(buffered) \in Nat
      /\ Taken = Len(file) + Len(buffered) /\ Taken' = Taken
      /\ acked \in Nat /\ committed \in Nat /\ lost \in BOOLEAN
      /\ committed <= Len(file) /\ (~lost => acked <= Taken)
  BY <1>1, SeqFacts DEF IInv, TypeInv, Taken, AckedIsDurable
<1>4. Step(channel[1]) = 0 /\ channel[1].upto = Taken
  BY <1>1, <1>2, <1>3 DEF IInv, ChannelInv, Step
<1>5. /\ acked' \in Nat /\ committed' \in Nat /\ lost' = lost
      /\ committed' <= Len(file) /\ (~lost => acked' <= Taken)
  <2>1. CASE UNCHANGED promises  BY <2>1, <1>3 DEF promises
  <2>2. CASE Commit(channel[1].upto) /\ writer = "open"
    <3>1. buffered = <<>>  BY <2>2 DEF IInv, WriterInv
    <3>2. channel[1].upto = Len(file)  BY <3>1, <1>3, <1>4, EmptyIsSeq
    <3> QED  BY <3>2, <2>2, <1>2, <1>3, <1>4 DEF Commit, Promise, LargerOf
  <2>3. CASE Promise(channel[1].upto) /\ UNCHANGED <<committed, lost>>
    BY <2>3, <1>2, <1>3, <1>4 DEF Promise, LargerOf
  <2>4. ReceiveFlush \/ ReceivePersist  OBVIOUS
  <2> QED  BY <1>2, <2>1, <2>2, <2>3, <2>4 DEF ReceivePersist, ReceiveFlush
<1>6. WriterInv' /\ writer' \in {"deferred", "opening", "open"} /\ serving' \subseteq Cmds
  <2>1. CASE ReceiveFlush
    BY <2>1, <1>1, <1>3 DEF ReceiveFlush, IInv, TypeInv, WriterInv
  <2>2. CASE ReceivePersist /\ writer = "open"
    <3>1. UNCHANGED <<writer, serving>>  BY <2>2 DEF ReceivePersist
    <3> QED  BY <2>2, <3>1, <1>1 DEF IInv, TypeInv, WriterInv
  <2>3. CASE ReceivePersist /\ writer = "deferred"
    <3>1. writer' = "opening" /\ serving' = {channel[1]}
      BY <2>3, <1>2 DEF ReceivePersist
    <3>2. \A cmd \in serving' : cmd.upto <= Taken'  BY <3>1, <1>3, <1>4
    <3> QED  BY <3>1, <3>2, <1>1, <1>2 DEF WriterInv
  <2> QED  BY <1>1, <2>1, <2>2, <2>3
<1>7. TypeInv'  BY <1>1, <1>2, <1>5, <1>6 DEF IInv, TypeInv
<1>8. ChannelInv'
  <2>1. Taken' = Taken + Step(channel[1])  BY <1>3, <1>4
  <2> QED  BY <1>1, <2>1, ReceiveChannelInv
<1>9. ContentInv'  BY <1>1, <1>2 DEF IInv, ContentInv
<1>10. AckedIsDurable'
  <2>1. Taken' = Len(file') + Len(writing') + Len(buffered')  BY DEF Taken
  <2> QED  BY <1>1, <1>3, <1>5, <2>1 DEF AckedIsDurable
<1> QED  BY <1>6, <1>7, <1>8, <1>9, <1>10 DEF IInv

\* The end of a Persist commits what is in the file by then.
LEMMA PersistedFacts ==
    ASSUME IInv, Persisted, Taken' = Taken, Taken \in Nat,
           Len(file) \in Nat, Len(file') \in Nat, Len(file) <= Len(file'),
           writing' = <<>> => Taken' = Len(file')
    PROVE  /\ serving' \subseteq serving
           /\ acked' \in Nat /\ committed' \in Nat /\ lost' \in BOOLEAN
           /\ writing' = <<>> => serving' = {}
           /\ AckedIsDurable'
<1>1. /\ acked \in Nat /\ committed \in Nat /\ lost \in BOOLEAN
      /\ committed <= Len(file') /\ (~lost => acked <= Taken)
  BY DEF IInv, TypeInv, AckedIsDurable, Taken
<1>2. CASE writing' = <<>> /\ serving # {}
  <2>1. PICK cmd \in serving : Commit(cmd.upto)  BY <1>2 DEF Persisted
  <2>2. cmd.upto \in Nat /\ cmd.upto <= Len(file')
    BY <1>2 DEF IInv, TypeInv, WriterInv, Cmds
  <2>3. serving' = {}  BY <1>2 DEF Persisted
  <2>4. /\ acked' \in Nat /\ committed' \in Nat /\ lost' = lost
        /\ committed' <= Len(file') /\ (~lost => acked' <= Taken')
    BY <1>1, <1>2, <2>1, <2>2 DEF Commit, Promise, LargerOf
  <2> QED  BY <1>1, <2>3, <2>4 DEF AckedIsDurable, Taken
<1>3. CASE ~(writing' = <<>> /\ serving # {})
  <2>1. UNCHANGED <<serving, acked, committed, lost>>  BY <1>3 DEF Persisted, promises
  <2>2. ~lost' => acked' <= Taken'  BY <1>1, <2>1
  <2> QED  BY <1>1, <1>3, <2>1, <2>2 DEF AckedIsDurable, Taken
<1> QED  BY <1>2, <1>3

\* The buffer becomes what is to be written.
LEMMA OpenFileIInv ==
    ASSUME IInv, OpenFile
    PROVE  IInv'
<1>1. /\ writer = "opening" /\ writer' = "open"
      /\ writing' = buffered /\ buffered' = <<>> /\ writing = <<>>
      /\ UNCHANGED <<channel, file, log>> /\ Persisted
  BY DEF OpenFile, IInv, WriterInv
<1>2. /\ Len(file) \in Nat /\ Len(writing) = 0 /\ Len(buffered) \in Nat /\ Len(buffered') = 0
      /\ IsSeq(buffered') /\ IsSeq(writing')
      /\ writing' = <<>> => Len(buffered) = 0
  BY <1>1, SeqFacts, EmptyIsSeq DEF IInv, TypeInv
<1>3. Taken' = Taken /\ Taken \in Nat /\ (writing' = <<>> => Taken' = Len(file'))
  BY <1>1, <1>2 DEF Taken
<1>4. /\ serving' \subseteq serving
      /\ acked' \in Nat /\ committed' \in Nat /\ lost' \in BOOLEAN
      /\ AckedIsDurable'
  BY <1>1, <1>2, <1>3, PersistedFacts
<1>5. TypeInv'  BY <1>1, <1>2, <1>4 DEF IInv, TypeInv
<1>6. WriterInv'  BY <1>1, <1>3, <1>4 DEF IInv, WriterInv
<1>7. ChannelInv'  BY <1>1, <1>3 DEF IInv, ChannelInv, Step
<1>8. ContentInv'
  <2>1. \A i \in 1..Len(buffered) : buffered[i] = log[Len(file) + i]
    <3>1. \A i \in 1..Len(buffered) : Len(file) + Len(writing) + i = Len(file) + i
      BY <1>2
    <3> QED  BY <3>1 DEF IInv, ContentInv
  <2>2. 1..Len(buffered') = {}  BY <1>2
  <2> QED  BY <1>1, <2>1, <2>2 DEF IInv, ContentInv
<1> QED  BY <1>4, <1>5, <1>6, <1>7, <1>8 DEF IInv

\* What a write adds to the file is the next entry of the log.
LEMMA WriteFacts ==
    ASSUME IInv, WriteItem
    PROVE  /\ Len(file) \in Nat /\ Len(file) < Len(log)
           /\ file' = Append(file, log[Len(file) + 1])
           /\ IsSeq(file') /\ Len(file') = Len(file) + 1
           /\ \A i \in 1..Len(file') : file'[i] = log[i]
           /\ IsSeq(writing') /\ Len(writing) \in Nat /\ Len(writing') = Len(writing) - 1
           /\ \A i \in 1..Len(writing') : writing'[i] = writing[i + 1]
           /\ log' = log
<1>1. /\ writing # <<>> /\ file' = Append(file, Head(writing)) /\ writing' = Tail(writing)
      /\ log' = log
  BY DEF WriteItem
<1>2. /\ IsSeq(file) /\ IsSeq(writing) /\ Len(file) \in Nat /\ Len(writing) \in Nat
      /\ Len(buffered) \in Nat /\ Len(log) \in Nat
  BY SeqFacts DEF IInv, TypeInv
<1>3. /\ IsSeq(writing') /\ Len(writing') = Len(writing) - 1
      /\ \A i \in 1..(Len(writing) - 1) : writing'[i] = writing[i + 1]
      /\ Head(writing) = writing[1] /\ 1 \in 1..Len(writing)
  BY <1>1, <1>2, TailFacts
<1>4. writing[1] = log[Len(file) + 1]  BY <1>3 DEF IInv, ContentInv
<1>5. /\ IsSeq(file') /\ Len(file') = Len(file) + 1
      /\ \A i \in 1..Len(file) : file'[i] = file[i]
      /\ file'[Len(file) + 1] = log[Len(file) + 1]
  BY <1>1, <1>2, <1>3, <1>4, AppendFacts
<1>6. Len(file) < Len(log)
  <2>1. Len(file) + Len(writing) + Len(buffered) <= Len(log)  BY DEF IInv, ChannelInv, Taken
  <2> QED  BY <2>1, <1>2, <1>3
<1>7. \A i \in 1..Len(file') : file'[i] = log[i]
  <2>1. \A i \in 1..Len(file) : file[i] = log[i]  BY DEF IInv, ContentInv
  <2>2. \A i \in 1..Len(file') : i \in 1..Len(file) \/ i = Len(file) + 1  BY <1>2, <1>5
  <2> QED  BY <1>5, <2>1, <2>2
<1> QED  BY <1>1, <1>2, <1>3, <1>4, <1>5, <1>6, <1>7

LEMMA WriteItemIInv ==
    ASSUME IInv, WriteItem
    PROVE  IInv'
<1>1. UNCHANGED <<channel, writer, buffered, log>> /\ Persisted /\ writing # <<>>
  BY DEF WriteItem
<1>2. writer = "open" /\ buffered = <<>> /\ Len(buffered) = 0
  BY <1>1, EmptyIsSeq DEF WriteItem, IInv, TypeInv, WriterInv
<1>3. /\ Taken' = Taken
      /\ writing' = <<>> => Taken' = Len(file')
      /\ Taken \in Nat /\ Len(file) \in Nat /\ Len(file') \in Nat
      /\ Len(file) <= Len(file')
  <2>2. writing' = <<>> => Len(writing') = 0  BY EmptyIsSeq
  <2>3. /\ Len(file) \in Nat /\ Len(file') = Len(file) + 1
        /\ Len(writing) \in Nat /\ Len(writing') = Len(writing) - 1
    BY WriteFacts
  <2>4. Len(buffered') = 0  BY <1>1, <1>2
  <2>5. Taken = Len(file) + Len(writing) /\ Taken' = Len(file') + Len(writing')
    BY <2>3, <2>4, <1>2 DEF Taken
  <2> QED  BY <2>2, <2>3, <2>5
<1>4. /\ serving' \subseteq serving
      /\ acked' \in Nat /\ committed' \in Nat /\ lost' \in BOOLEAN
      /\ AckedIsDurable'
  BY <1>1, <1>3, PersistedFacts
<1>5. TypeInv'  BY <1>1, <1>4, WriteFacts DEF IInv, TypeInv
<1>6. WriterInv'  BY <1>1, <1>2, <1>3, <1>4 DEF IInv, WriterInv
<1>7. ChannelInv'  BY <1>1, <1>3 DEF IInv, ChannelInv, Step
<1>8. ContentInv'
  <2>1. ASSUME NEW i \in 1..Len(writing')  PROVE writing'[i] = log[Len(file') + i]
    <3>1. i + 1 \in 1..Len(writing) /\ Len(file) + (i + 1) = Len(file') + i
      <4>1. /\ Len(file) \in Nat /\ Len(file') = Len(file) + 1
            /\ Len(writing) \in Nat /\ Len(writing') = Len(writing) - 1
        BY WriteFacts
      <4> QED  BY <4>1
    <3>2. writing[i + 1] = log[Len(file) + (i + 1)]  BY <3>1 DEF IInv, ContentInv
    <3> QED  BY <3>1, <3>2, WriteFacts
  <2>2. 1..Len(buffered') = {}  BY <1>1, <1>2
  <2> QED  BY <1>1, <2>1, <2>2, WriteFacts DEF IInv, ContentInv
<1> QED  BY <1>4, <1>5, <1>6, <1>7, <1>8 DEF IInv

\* What has not been written is forgotten, by the writer or by the process.
LEMMA LoseIInv ==
    ASSUME IInv, WriteFails \/ FlushFails \/ Reopen
    PROVE  IInv'
<1>1. /\ channel' = <<>> /\ buffered' = <<>> /\ writing' = <<>> /\ serving' = {}
      /\ log' = file /\ file' = file
      /\ writer' \in {"open", "ended"}
      /\ lost' = (lost \/ acked' > Len(file))
  BY DEF WriteFails, FlushFails, End, Reopen, Lose
<1>8. acked' \in Nat /\ committed' \in Nat /\ committed' <= Len(file)
  <2>1. /\ acked \in Nat /\ committed \in Nat /\ committed <= Len(file)
        /\ \A cmd \in serving : cmd.upto \in Nat
    BY DEF IInv, TypeInv, AckedIsDurable, Cmds
  <2>2. CASE WriteFails  BY <2>1, <2>2 DEF WriteFails, End, LargerOf
  <2>3. CASE FlushFails
    <3>1. /\ channel # <<>> /\ Head(channel) = channel[1] /\ Head(channel).op = "Flush"
          /\ 1 \in 1..Len(channel) /\ writer = "open" /\ writing = <<>> /\ buffered = <<>>
      BY <2>3, TailFacts DEF FlushFails, Receive, Idle, IInv, TypeInv, WriterInv
    <3>2. channel[1].upto = Taken + 0 /\ channel[1].upto \in Nat
      BY <3>1 DEF IInv, TypeInv, ChannelInv, Step
    <3>3. Len(file) \in Nat /\ Len(writing) = 0 /\ Len(buffered) = 0
      BY <3>1, EmptyIsSeq, SeqFacts DEF IInv, TypeInv
    <3>4. channel[1].upto = Len(file)  BY <3>2, <3>3 DEF Taken
    <3> QED  BY <2>1, <2>3, <3>1, <3>2, <3>4 DEF FlushFails, End, LargerOf
  <2>4. CASE Reopen  BY <2>1, <2>4 DEF Reopen
  <2> QED  BY <2>2, <2>3, <2>4
<1>2. /\ Len(file) \in Nat /\ Len(channel') = 0 /\ Len(buffered') = 0 /\ Len(writing') = 0
      /\ IsSeq(channel') /\ IsSeq(buffered') /\ IsSeq(writing')
  BY <1>1, EmptyIsSeq, SeqFacts DEF IInv, TypeInv
<1>3. Taken' = Len(log')  BY <1>1, <1>2 DEF Taken
<1>4. TypeInv'
  <2>1. lost' \in BOOLEAN  BY <1>1
  <2>2. 1..Len(channel') = {}  BY <1>2
  <2> QED  BY <1>1, <1>2, <1>8, <2>1, <2>2 DEF IInv, TypeInv
<1>5. WriterInv'  BY <1>1 DEF WriterInv
<1>6. ChannelInv'
  <2>1. 1..Len(channel') = {} /\ 1..(Len(channel') - 1) = {}  BY <1>2
  <2> QED  BY <1>1, <1>2, <1>3, <2>1 DEF ChannelInv
<1>7. ContentInv'
  <2>1. 1..Len(channel') = {} /\ 1..Len(buffered') = {} /\ 1..Len(writing') = {}  BY <1>2
  <2> QED  BY <1>1, <2>1 DEF ContentInv
<1>9. AckedIsDurable'
  <2>1. ASSUME ~lost'
        PROVE  acked' <= Len(file') + Len(writing') + Len(buffered')
    <3>1. ~(acked' > Len(file))  BY <1>1, <2>1
    <3>2. acked' <= Len(file)  BY <3>1, <1>2, <1>8
    <3> QED  BY <3>2, <1>1, <1>2
  <2> QED  BY <1>1, <1>8, <2>1 DEF AckedIsDurable
<1> QED  BY <1>4, <1>5, <1>6, <1>7, <1>9 DEF IInv

LEMMA StepIInv ==
    ASSUME IInv, RecorderStep
    PROVE  IInv'
<1>1. ASSUME NEW e, RecordItems(e) PROVE IInv'  BY <1>1, RecordItemsIInv
<1>2. ASSUME NEW c \in Callers, NEW op \in {"Persist", "Flush"}, Request(c, op)
      PROVE  IInv'
  BY <1>2, RequestIInv
<1>3. ASSUME NEW c \in Callers, Forget(c) PROVE IInv'  BY <1>3, ForgetIInv
<1>4. CASE Writer
  BY <1>4, ReceiveItemsIInv, ReceiveOtherIInv, OpenFileIInv, WriteItemIInv, LoseIInv
     DEF Writer
<1>5. CASE Reopen  BY <1>5, LoseIInv
<1>6. CASE UNCHANGED recorder
  BY <1>6 DEF recorder, promises, IInv, TypeInv, WriterInv, ChannelInv, ContentInv, Taken,
              AckedIsDurable
<1> QED  BY <1>1, <1>2, <1>3, <1>4, <1>5, <1>6 DEF RecorderStep

-----------------------------------------------------------------------------
(* Nobody waits for a command that is gone. *)

\* The writer serves at most one command, so that its ack lets everyone go.
OneServed == \A x, y \in serving : x = y

\* The commands a caller waits for, by their places in the channel.
Queued(c) == \E i \in 1..Len(channel) : channel[i].op # "AddItems" /\ channel[i].from = c
Served(c) == \E cmd \in serving : cmd.from = c

LEMMA QueuedIsCommandOf == TypeInv => \A c : Queued(c) => CommandOf(c) # {}
<1>1. TypeInv => DOMAIN channel = 1..Len(channel)  BY SeqFacts DEF TypeInv
<1> QED  BY <1>1 DEF Queued, CommandOf

ServedInv == OneServed /\ \A c \in waiting : Alive /\ (Queued(c) \/ Served(c))

\* A command that goes to the end of the channel leaves the others there.
LEMMA SendServed ==
    ASSUME IInv, ServedInv, NEW cmd, channel' = Append(channel, cmd),
           UNCHANGED <<writer, serving>>, waiting' \subseteq waiting \cup {cmd.from},
           waiting' = waiting \/ (cmd.op # "AddItems" /\ Alive)
    PROVE  ServedInv'
<1>1. /\ Len(channel) \in Nat /\ Len(channel') = Len(channel) + 1
      /\ \A i \in 1..Len(channel) : channel'[i] = channel[i]
      /\ channel'[Len(channel) + 1] = cmd
  BY SeqFacts, AppendFacts DEF IInv, TypeInv
<1>2. \A i \in 1..Len(channel) : i \in 1..Len(channel')  BY <1>1
<1>3. Len(channel) + 1 \in 1..Len(channel')  BY <1>1
<1>4. \A c : Queued(c) => Queued(c)'  BY <1>1, <1>2 DEF Queued
<1>5. cmd.op # "AddItems" => Queued(cmd.from)'  BY <1>1, <1>3 DEF Queued
<1>6. ASSUME NEW c \in waiting'  PROVE Alive' /\ (Queued(c)' \/ Served(c)')
  <2>1. CASE c \in waiting  BY <2>1, <1>4 DEF ServedInv, Alive, Served
  <2>2. CASE c \notin waiting
    <3>1. c = cmd.from /\ cmd.op # "AddItems" /\ Alive  BY <2>2, <1>6
    <3> QED  BY <3>1, <1>5 DEF Alive
  <2> QED  BY <2>1, <2>2
<1> QED  BY <1>6 DEF ServedInv, OneServed

\* A caller that goes away takes none of the others' commands.
LEMMA ForgetServed ==
    ASSUME IInv, ServedInv, NEW g \in Callers, Forget(g)
    PROVE  ServedInv'
<1>1. /\ Len(channel) \in Nat /\ DOMAIN channel = 1..Len(channel)
      /\ channel' = [i \in DOMAIN channel |->
                       IF i \in CommandOf(g)
                         THEN [channel[i] EXCEPT !.from = NoCaller]
                         ELSE channel[i]]
      /\ waiting' = waiting \ {g} /\ writer' = writer
  BY SeqFacts DEF Forget, IInv, TypeInv
<1>2. Len(channel') = Len(channel)
  <2> DEFINE S == {channel'[i] : i \in 1..Len(channel)}
  <2>1. channel' \in [1..Len(channel) -> S]  BY <1>1
  <2>2. channel' \in Seq(S)  BY <1>1, <2>1
  <2> QED  BY <1>1, <2>1, <2>2
<1>3. ASSUME NEW c, c # g, Queued(c)  PROVE Queued(c)'
  <2>1. PICK i \in 1..Len(channel) : channel[i].op # "AddItems" /\ channel[i].from = c
    BY <1>3 DEF Queued
  <2>2. channel'[i] = channel[i]  BY <1>1, <1>3, <2>1 DEF CommandOf
  <2> QED  BY <1>2, <2>1, <2>2 DEF Queued
<1>4. ASSUME NEW c, c # g, Served(c)  PROVE Served(c)'
  <2>1. PICK cmd \in serving : cmd.from = c  BY <1>4 DEF Served
  <2>2. [cmd EXCEPT !.from = IF @ = g THEN NoCaller ELSE @] \in serving'
    BY <2>1 DEF Forget
  <2>3. [cmd EXCEPT !.from = IF @ = g THEN NoCaller ELSE @] = cmd
    <3>1. cmd \in Cmds  BY <2>1 DEF IInv, TypeInv
    <3> QED  BY <3>1, <2>1, <1>4 DEF Cmds
  <2> QED  BY <2>1, <2>2, <2>3 DEF Served
<1>5. OneServed'  BY DEF Forget, ServedInv, OneServed
<1> QED  BY <1>1, <1>3, <1>4, <1>5 DEF ServedInv, Alive

\* The writer takes a command: it serves its caller or lets it go.
LEMMA ReceiveServed ==
    ASSUME IInv, ServedInv, ReceiveItems \/ ReceivePersist \/ ReceiveFlush
    PROVE  ServedInv'
<1>1. /\ channel # <<>> /\ channel' = Tail(channel)
      /\ Alive' /\ serving = {} /\ OneServed' /\ waiting' \subseteq waiting
      /\ Head(channel).op # "AddItems" =>
            \/ waiting' = waiting \ {Head(channel).from}
            \/ serving' = {Head(channel)}
  <2>1. CASE ReceiveItems
    BY <2>1 DEF ReceiveItems, Receive, Idle, Alive, OneServed
  <2>2. CASE ReceivePersist
    BY <2>2 DEF ReceivePersist, Receive, Idle, Alive, OneServed, Ack
  <2>3. CASE ReceiveFlush
    BY <2>3 DEF ReceiveFlush, Receive, Idle, Alive, OneServed, Ack
  <2> QED  BY <2>1, <2>2, <2>3
<1>2. /\ Len(channel) \in Nat /\ Len(channel') = Len(channel) - 1
      /\ \A i \in 1..Len(channel') : channel'[i] = channel[i + 1]
      /\ Head(channel) = channel[1]
  BY <1>1, ReceiveFacts
<1>3. ASSUME NEW c \in waiting'  PROVE Queued(c)' \/ Served(c)'
  <2>1. PICK i \in 1..Len(channel) : channel[i].op # "AddItems" /\ channel[i].from = c
    BY <1>1, <1>3 DEF ServedInv, Queued, Served
  <2>2. CASE i = 1
    <3>1. serving' = {channel[1]}  BY <2>1, <2>2, <1>1, <1>2, <1>3
    <3> QED  BY <3>1, <2>1, <2>2 DEF Served
  <2>3. CASE i # 1
    <3>1. i - 1 \in 1..Len(channel') /\ (i - 1) + 1 = i  BY <2>3, <1>2
    <3>2. channel'[i - 1] = channel[i]  BY <3>1, <1>2
    <3> QED  BY <3>1, <3>2, <2>1 DEF Queued
  <2> QED  BY <2>2, <2>3
<1> QED  BY <1>1, <1>3 DEF ServedInv

\* The writer goes on with a command, and lets its caller go at the end of it.
LEMMA GoOnServed ==
    ASSUME IInv, ServedInv, OpenFile \/ WriteItem
    PROVE  ServedInv'
<1>1. channel' = channel /\ Alive' /\ Persisted
  BY DEF OpenFile, WriteItem, IInv, TypeInv, WriterInv, Alive
<1>2. \A c : Queued(c)' <=> Queued(c)  BY <1>1 DEF Queued
<1>3. CASE writing' = <<>> /\ serving # {}
  <2>1. PICK cmd \in serving : waiting' = waiting \ {cmd.from}
    BY <1>1, <1>3 DEF Persisted, Ack
  <2>2. serving' = {}  BY <1>1, <1>3 DEF Persisted
  <2>3. \A c \in waiting' : c \in waiting /\ ~Served(c)
    BY <2>1 DEF ServedInv, OneServed, Served
  <2> QED  BY <1>1, <1>2, <2>2, <2>3 DEF ServedInv, OneServed
<1>4. CASE ~(writing' = <<>> /\ serving # {})
  <2>1. UNCHANGED <<serving, waiting>>  BY <1>1, <1>4 DEF Persisted
  <2> QED  BY <1>1, <1>2, <2>1 DEF ServedInv, OneServed, Served
<1> QED  BY <1>3, <1>4

LEMMA StepServed ==
    ASSUME IInv, ServedInv, RecorderStep
    PROVE  ServedInv'
<1>1. ASSUME NEW e, RecordItems(e) PROVE ServedInv'
  <2>1. CASE Alive
    <3> DEFINE cmd == [op |-> "AddItems", item |-> e, upto |-> Len(log) + 1]
    <3>1. /\ channel' = Append(channel, cmd) /\ waiting' = waiting
          /\ UNCHANGED <<writer, serving>>
      BY <1>1, <2>1 DEF RecordItems
    <3> HIDE DEF cmd
    <3> QED  BY <3>1, SendServed
  <2>2. CASE ~Alive
    BY <1>1, <2>2 DEF RecordItems, ServedInv, OneServed, Alive, Queued, Served
  <2> QED  BY <2>1, <2>2
<1>2. ASSUME NEW c \in Callers, NEW op \in {"Persist", "Flush"}, Request(c, op)
      PROVE  ServedInv'
  <2>1. CASE Alive
    <3> DEFINE cmd == [op |-> op, from |-> c, upto |-> Len(log)]
    <3>1. /\ channel' = Append(channel, cmd) /\ waiting' = waiting \cup {cmd.from}
          /\ UNCHANGED <<writer, serving>> /\ cmd.op # "AddItems"
      BY <1>2, <2>1 DEF Request
    <3> HIDE DEF cmd
    <3> QED  BY <3>1, <2>1, SendServed
  <2>2. CASE ~Alive
    BY <1>2, <2>2 DEF Request, ServedInv, OneServed, Alive, Queued, Served
  <2> QED  BY <2>1, <2>2
<1>3. ASSUME NEW c \in Callers, Forget(c) PROVE ServedInv'  BY <1>3, ForgetServed
<1>4. CASE Writer \/ Reopen
  <2>1. CASE WriteFails \/ FlushFails \/ Reopen
    <3>1. waiting' = {} /\ serving' = {}
      BY <2>1 DEF WriteFails, FlushFails, End, Reopen, Lose
    <3> QED  BY <3>1 DEF ServedInv, OneServed
  <2> QED  BY <1>4, <2>1, ReceiveServed, GoOnServed DEF Writer
<1>5. CASE UNCHANGED recorder
  BY <1>5 DEF recorder, ServedInv, OneServed, Alive, Queued, Served
<1> QED  BY <1>1, <1>2, <1>3, <1>4, <1>5 DEF RecorderStep

-----------------------------------------------------------------------------
(* The theorems. *)

LEMMA Invariance == Spec => []IInv
<1>1. IInv /\ [Next]_vars => IInv'
  <2> SUFFICES ASSUME IInv, [Next]_vars PROVE IInv'  OBVIOUS
  <2>1. RecorderStep  BY NextIsRecorderStep DEF RecorderStep, vars
  <2> QED  BY <2>1, StepIInv
<1> QED  BY InitIInv, <1>1, PTL DEF Spec

\* What persist() or flush() has acknowledged with the file open is in the file and
\* stays there, whatever turns, rollbacks, compactions, interrupts, I/O errors and
\* crashes come after; what a flush has acknowledged without a file is on its way to
\* it until the writer or the process ends (recorder.rs:752-811).
THEOREM AcknowledgedStays == Spec => []AckedIsDurable
BY Invariance, PTL DEF IInv

\* Whoever waits for the recorder waits for a command a living writer still has:
\* the writer lets the caller go on every path out of a command, errors and its
\* own end included.
THEOREM CallersAreServed == Spec => []WaitersServed
<1>1. Init => ServedInv  BY DEF Init, RecorderInit, ServedInv, OneServed
<1>2. IInv /\ ServedInv /\ [Next]_vars => ServedInv'
  <2> SUFFICES ASSUME IInv, ServedInv, [Next]_vars PROVE ServedInv'  OBVIOUS
  <2>1. RecorderStep  BY NextIsRecorderStep DEF RecorderStep, vars
  <2> QED  BY <2>1, StepServed
<1>3. IInv /\ ServedInv => WaitersServed
  BY QueuedIsCommandOf DEF IInv, ServedInv, WaitersServed, Served
<1> QED  BY Invariance, <1>1, <1>2, <1>3, PTL DEF Spec

\* The recorder implements the append-only log: nothing is reordered, written
\* twice or skipped, and only what the file does not have can be lost.
THEOREM RecorderImplementsLog == Spec => ImplementsLog
<1>1. Init => Log!Init  BY DEF Init, RecorderInit, Log!Init
<1>2. ASSUME IInv, [Next]_vars PROVE [Log!Next]_(Log!vars)
  <2>1. RecorderStep  BY <1>2, NextIsRecorderStep DEF RecorderStep, vars
  <2>2. ASSUME NEW e, RecordItems(e) PROVE [Log!Next]_(Log!vars)
    <3>1. CASE Alive
      <4>1. log' = Append(log, e) /\ file' = file  BY <2>2, <3>1 DEF RecordItems
      <4>2. PICK S : log \in Seq(S)  BY <1>2 DEF IInv, TypeInv, IsSeq
      <4>3. SubSeq(log', 1, Len(log)) = log /\ Len(log') = Len(log) + 1
        <5>1. /\ IsSeq(log') /\ Len(log') = Len(log) + 1 /\ Len(log) \in Nat
              /\ \A i \in 1..Len(log) : log'[i] = log[i]
          BY <4>1, <1>2, AppendFacts, SeqFacts DEF IInv, TypeInv
        <5>2. PICK T : log' \in Seq(T)  BY <5>1 DEF IsSeq
        <5>3. SubSeq(log', 1, Len(log)) = [i \in 1..Len(log) |-> log'[i]]
          BY <5>1, <5>2
        <5>4. log = [i \in 1..Len(log) |-> log[i]]  BY <4>2
        <5> QED  BY <5>1, <5>3, <5>4
      <4> QED  BY <4>1, <4>3 DEF Log!Next, Log!Accept
    <3>2. CASE ~Alive  BY <2>2, <3>2 DEF RecordItems, Log!vars
    <3> QED  BY <3>1, <3>2
  <2>3. CASE WriteItem  BY <1>2, <2>3, WriteFacts DEF Log!Next, Log!Write
  <2>4. CASE WriteFails \/ FlushFails \/ Reopen
    <3>1. log' = file /\ file' = file
      BY <2>4 DEF WriteFails, FlushFails, End, Reopen, Lose
    <3> QED  BY <3>1 DEF Log!Next, Log!Lose
  <2>5. CASE (\E c \in Callers, op \in {"Persist", "Flush"} : Request(c, op))
             \/ (\E c \in Callers : Forget(c))
             \/ ReceiveItems \/ ReceivePersist \/ ReceiveFlush \/ OpenFile
             \/ UNCHANGED recorder
    BY <2>5 DEF Request, Forget, ReceiveItems, ReceivePersist, ReceiveFlush, OpenFile,
                recorder, Log!vars
  <2> QED  BY <2>1, <2>2, <2>3, <2>4, <2>5 DEF RecorderStep, Writer
<1> QED  BY Invariance, <1>1, <1>2, PTL DEF Spec, ImplementsLog, Log!Spec
=============================================================================
