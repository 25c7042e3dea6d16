--------------------------- MODULE LifetimeProofs ---------------------------
(***************************************************************************)
(* The record of what was deployed can always be read: proved for any      *)
(* number of processes, commands, targets and lifetimes, whatever dies,    *)
(* fails or overlaps.                                                      *)
(***************************************************************************)
EXTENDS Lifetime, SequenceTheorems, TLAPS

-----------------------------------------------------------------------------
(* The types.                                                              *)
States == {"none", "current", "replaced"}
Doc == [state : States, runs : Seq(Nat)]
Life == [id : Lifetimes \cup {None}, state : States, runs : Seq(Nat)]
Operations == {"none", "deploy", "upgrade", "adopt", "decommission", "user"}
Cmd == [pc : {"idle", "select", "graph", "run", "trace", "append", "write", "place"},
        op : Operations, policy : Policies \cup {"none"}, life : Life, previous : Life,
        todo : Seq(SUBSET Targets), claim : [Targets -> {"link", "regular"}], run : Nat,
        failed : BOOLEAN, writing : {"none", "previous", "own", "pointer"}]
RunRecord == [op : Operations, targets : SUBSET Targets, receipts : SUBSET Targets,
              touched : SUBSET Targets, dirty : BOOLEAN]

Typed ==
  /\ traces \subseteq Nat /\ docs \in [Lifetimes -> Doc] /\ pointer \in Lifetimes \cup {None}
  /\ DOMAIN tmp = Lifetimes \cup {"current"}
  /\ cmd \in [Procs -> Cmd] /\ ran \in Seq(RunRecord)

-----------------------------------------------------------------------------
(* The inductive invariant: what a process has in memory, and what it left *)
(* in a temporary, can be read as well as what is in place.                *)
Traced(runs, known) == \A i \in DOMAIN runs : runs[i] \in known
Kept(d, known) == d.runs # <<>> /\ Traced(d.runs, known)

(* A command: its copy of the lifetime, and what it is about to write.     *)
Knows(c, documents, known) ==
  /\ Traced(c.life.runs, known)
  /\ c.pc # "idle" => c.life.id \in Lifetimes
  /\ c.pc \notin {"idle", "select"} => c.todo # <<>>
  /\ c.pc = "append" => c.run \in known
  /\ c.pc \in {"write", "place"} =>
       /\ c.life.runs # <<>> /\ c.writing # "none"
       /\ c.writing = "previous" => c.previous.id \in Lifetimes /\ Kept(c.previous, known)
       /\ c.writing = "pointer" => documents[c.life.id].runs # <<>>

CommandsKnow == \A p \in Procs : Knows(cmd[p], docs, traces)

TemporariesKept ==
  /\ \A l \in Lifetimes : tmp[l] # None => tmp[l] \in Doc /\ Kept(tmp[l], traces)
  /\ tmp["current"] # None =>
       tmp["current"] \in Lifetimes /\ docs[tmp["current"]].runs # <<>>

StoreReadable ==
  /\ pointer # None => docs[pointer].runs # <<>>
  /\ \A l \in Lifetimes : Traced(docs[l].runs, traces)

IInv == Typed /\ StoreReadable /\ TemporariesKept /\ CommandsKnow

-----------------------------------------------------------------------------
LEMMA IdleKnows == /\ Idle \in Cmd
                   /\ \A documents, known : Knows(Idle, documents, known)
<1>1. NoLifetime \in Life /\ NoClaim \in [Targets -> {"link", "regular"}] /\ NoLifetime.runs = <<>>
  BY DEF NoLifetime, Life, States, NoClaim
<1>2. <<>> \in Seq(SUBSET Targets)
  OBVIOUS
<1>3. Idle \in Cmd
  BY <1>1, <1>2 DEF Idle, Cmd, Operations
<1>4. Idle.pc = "idle" /\ Idle.life.runs = <<>>
  BY <1>1 DEF Idle
<1>5. QED
  BY <1>3, <1>4 DEF Knows, Traced

LEMMA ScopesTyped ==
  ASSUME NEW ts \in SUBSET Targets, ts # {}
  PROVE  Scopes(ts) \in Seq(SUBSET Targets) /\ Scopes(ts) # <<>>
<1>1. ASSUME NEW s \in SUBSET Targets
      PROVE  Graph(s) \in Seq(SUBSET Targets) /\ (Graph(s) = <<>> <=> s = {})
  <2>1. CASE s = {}
    BY <2>1 DEF Graph
  <2>2. CASE s # {}
    <3>1. Graph(s) = <<s>> /\ Len(<<s>>) = 1 /\ <<s>> \in Seq(SUBSET Targets)
      BY <2>2 DEF Graph
    <3>2. QED
      BY <2>2, <3>1
  <2>3. QED
    BY <2>1, <2>2
<1>2. Graph(ts \cap System) \in Seq(SUBSET Targets) /\ Graph(ts \ System) \in Seq(SUBSET Targets)
  BY <1>1
<1>3. Graph(ts \cap System) # <<>> \/ Graph(ts \ System) # <<>>
  BY <1>1
<1>4. QED
  BY <1>2, <1>3 DEF Scopes

(* What a process knows stays true while the store grows.                  *)
LEMMA KnowsGrows ==
  ASSUME NEW c, NEW documents, NEW known, NEW documents2, NEW known2,
         Knows(c, documents, known), known \subseteq known2,
         \A l \in Lifetimes : documents[l].runs # <<>> => documents2[l].runs # <<>>
  PROVE  Knows(c, documents2, known2)
<1>1. \A runs : Traced(runs, known) => Traced(runs, known2)
  BY DEF Traced
<1>2. QED
  BY <1>1 DEF Knows, Kept

(* A process that leaves a scope goes on to the next one or ends.          *)
LEMMA LeftKnows ==
  ASSUME NEW c \in Cmd, NEW documents, NEW known, Knows(c, documents, known),
         c.pc \notin {"idle", "select"}
  PROVE  Left(c) \in Cmd /\ Knows(Left(c), documents, known)
<1>1. CASE Len(c.todo) = 1 \/ (c.op = "adopt" /\ c.failed)
  BY <1>1, IdleKnows DEF Left
<1>2. CASE ~(Len(c.todo) = 1 \/ (c.op = "adopt" /\ c.failed))
  <2> DEFINE next == [c EXCEPT !.pc = "graph", !.todo = Tail(c.todo), !.failed = FALSE]
  <2>1. Left(c) = next
    BY <1>2 DEF Left
  <2>2. c.todo \in Seq(SUBSET Targets) /\ c.todo # <<>> /\ Len(c.todo) # 1
    BY <1>2 DEF Cmd, Knows
  <2>3. Tail(c.todo) \in Seq(SUBSET Targets) /\ Tail(c.todo) # <<>>
    <3>1. Len(Tail(c.todo)) = Len(c.todo) - 1 /\ Len(c.todo) \in Nat \ {0, 1}
          /\ Tail(c.todo) \in Seq(SUBSET Targets)
      BY <2>2
    <3>2. Len(Tail(c.todo)) # 0
      BY <3>1
    <3>3. Len(<<>>) = 0
      OBVIOUS
    <3>4. QED
      BY <3>1, <3>2, <3>3
  <2>4. next \in Cmd
    BY <2>3 DEF Cmd
  <2>5. next.pc = "graph" /\ next.todo = Tail(c.todo) /\ next.life = c.life
    BY DEF Cmd
  <2>6. QED
    BY <2>1, <2>3, <2>4, <2>5 DEF Knows
<1>3. QED
  BY <1>1, <1>2

-----------------------------------------------------------------------------
LEMMA InitIInv == Init => IInv
<1> SUFFICES ASSUME Init PROVE IInv
  OBVIOUS
<1>1. NoDocument \in Doc /\ NoDocument.runs = <<>>
  BY DEF NoDocument, Doc, States
<1>2. Typed
  BY <1>1, IdleKnows DEF Init, Typed
<1>3. StoreReadable /\ TemporariesKept
  BY <1>1 DEF Init, StoreReadable, TemporariesKept, Traced
<1>4. CommandsKnow
  BY IdleKnows DEF Init, CommandsKnow
<1>5. QED
  BY <1>2, <1>3, <1>4 DEF IInv

(* A step of one process that hands it something it knows, while the store *)
(* stays readable and grows.                                               *)
Grows == \A l \in Lifetimes : docs[l].runs # <<>> => docs'[l].runs # <<>>

LEMMA ProcessKnows ==
  ASSUME IInv, NEW p \in Procs, NEW c \in Cmd, Step(p, c), Knows(c, docs', traces'),
         traces \subseteq traces', Grows
  PROVE  cmd' \in [Procs -> Cmd] /\ CommandsKnow'
<1>1. cmd' = [cmd EXCEPT ![p] = c] /\ cmd \in [Procs -> Cmd]
  BY DEF Step, IInv, Typed
<1>2. ASSUME NEW q \in Procs PROVE Knows(cmd'[q], docs', traces')
  <2>1. CASE q = p
    BY <1>1, <2>1
  <2>2. CASE q # p
    <3>1. cmd'[q] = cmd[q] /\ Knows(cmd[q], docs, traces)
      BY <1>1, <2>2 DEF IInv, CommandsKnow
    <3>2. QED
      BY <3>1, KnowsGrows DEF Grows
  <2>3. QED
    BY <2>1, <2>2
<1>3. QED
  BY <1>1, <1>2 DEF CommandsKnow

LEMMA StepKnows ==
  ASSUME IInv, NEW p \in Procs, NEW c \in Cmd, Step(p, c),
         traces \subseteq traces', traces' \subseteq Nat, Knows(c, docs, traces'),
         UNCHANGED <<docs, pointer, tmp>>, ran' \in Seq(RunRecord)
  PROVE  IInv'
<1>1. cmd' \in [Procs -> Cmd] /\ CommandsKnow'
  BY ProcessKnows DEF Grows
<1>2. Typed'
  BY <1>1 DEF IInv, Typed
<1>3. \A runs : Traced(runs, traces) => Traced(runs, traces')
  BY DEF Traced
<1>4. StoreReadable' /\ TemporariesKept'
  BY <1>3 DEF IInv, StoreReadable, TemporariesKept, Kept
<1>5. QED
  BY <1>1, <1>2, <1>4 DEF IInv

LEMMA CmdOf == ASSUME IInv, NEW p \in Procs PROVE cmd[p] \in Cmd /\ Knows(cmd[p], docs, traces)
BY DEF IInv, Typed, CommandsKnow

-----------------------------------------------------------------------------
LEMMA CommandsBegin ==
  ASSUME IInv, NEW p \in Procs, Deploy(p) \/ RequireCurrentLifetime(p) \/ Select(p)
  PROVE  IInv'
<1>1. UNCHANGED <<traces, docs, pointer, tmp, ran>> /\ traces \subseteq Nat /\ ran \in Seq(RunRecord)
  BY DEF Deploy, RequireCurrentLifetime, Select, store, history, IInv, Typed
<1>2. CASE Deploy(p)
  <2>1. PICK ts \in (SUBSET Targets) \ {{}}, policy \in Policies, l \in Lifetimes :
          Step(p, [Idle EXCEPT !.pc = "graph", !.op = "deploy", !.policy = policy,
                     !.life = [id |-> l, state |-> "current", runs |-> <<>>],
                     !.todo = Scopes(ts)])
    BY <1>2 DEF Deploy
  <2> DEFINE life == [id |-> l, state |-> "current", runs |-> <<>>]
             c == [Idle EXCEPT !.pc = "graph", !.op = "deploy", !.policy = policy,
                     !.life = life, !.todo = Scopes(ts)]
  <2>2. life \in Life /\ life.runs = <<>> /\ life.id \in Lifetimes
    BY DEF Life, States
  <2>3. Scopes(ts) \in Seq(SUBSET Targets) /\ Scopes(ts) # <<>>
    BY ScopesTyped
  <2> HIDE DEF life
  <2>4. c \in Cmd /\ c.pc = "graph" /\ c.life = life /\ c.todo = Scopes(ts)
    BY <2>2, <2>3, IdleKnows DEF Cmd, Operations
  <2>5. Knows(c, docs, traces)
    BY <2>2, <2>3, <2>4 DEF Knows, Traced
  <2>6. Step(p, c)
    BY <2>1 DEF life
  <2> HIDE DEF c
  <2>7. QED
    BY <1>1, <2>4, <2>5, <2>6, StepKnows
<1>3. CASE RequireCurrentLifetime(p)
  <2>1. PICK op \in {"upgrade", "adopt", "decommission"} :
          Step(p, [Idle EXCEPT !.pc = "select", !.op = op,
                     !.life = [id |-> pointer, state |-> docs[pointer].state,
                               runs |-> docs[pointer].runs]])
    BY <1>3 DEF RequireCurrentLifetime
  <2> DEFINE life == [id |-> pointer, state |-> docs[pointer].state, runs |-> docs[pointer].runs]
             c == [Idle EXCEPT !.pc = "select", !.op = op, !.life = life]
  <2>2. pointer \in Lifetimes /\ docs[pointer] \in Doc /\ Traced(docs[pointer].runs, traces)
    BY <1>3 DEF RequireCurrentLifetime, IInv, Typed, StoreReadable
  <2>3. life \in Life /\ life.id \in Lifetimes /\ Traced(life.runs, traces)
    BY <2>2 DEF Life, Doc
  <2> HIDE DEF life
  <2>4. c \in Cmd /\ c.pc = "select" /\ c.life = life
    BY <2>3, IdleKnows DEF Cmd, Operations
  <2>5. Knows(c, docs, traces)
    BY <2>3, <2>4 DEF Knows
  <2>6. Step(p, c)
    BY <2>1 DEF life
  <2> HIDE DEF c
  <2>7. QED
    BY <1>1, <2>4, <2>5, <2>6, StepKnows
<1>4. CASE Select(p)
  <2>1. PICK ts \in SUBSET Targets :
          Step(p, IF ts = {} THEN Idle
                  ELSE [cmd[p] EXCEPT !.pc = "graph", !.todo = Scopes(ts),
                                      !.claim = [t \in Targets |-> Kind(Record[t])]])
    BY <1>4 DEF Select, Selectable
  <2>2. CASE ts = {}
    <3>1. Step(p, Idle)
      BY <2>1, <2>2
    <3>2. QED
      BY <1>1, <3>1, IdleKnows, StepKnows
  <2>3. CASE ts # {}
    <3> DEFINE claim == [t \in Targets |-> Kind(Record[t])]
               c == [cmd[p] EXCEPT !.pc = "graph", !.todo = Scopes(ts), !.claim = claim]
    <3>1. claim \in [Targets -> {"link", "regular"}]
      BY DEF Kind
    <3>2. Step(p, c)
      BY <2>1, <2>3
    <3> HIDE DEF claim
    <3>3. Scopes(ts) \in Seq(SUBSET Targets) /\ Scopes(ts) # <<>>
      BY <2>3, ScopesTyped
    <3>4. cmd[p].pc = "select"
      BY <1>4 DEF Select, At
    <3>5. c \in Cmd /\ c.pc = "graph" /\ c.life = cmd[p].life /\ c.todo = Scopes(ts)
      BY <3>1, <3>3, CmdOf DEF Cmd
    <3>6. Knows(c, docs, traces)
      BY <3>3, <3>4, <3>5, CmdOf DEF Knows
    <3> HIDE DEF c
    <3>7. QED
      BY <1>1, <3>2, <3>5, <3>6, StepKnows
  <2>4. QED
    BY <2>2, <2>3
<1>5. QED
  BY <1>2, <1>3, <1>4

-----------------------------------------------------------------------------
(* The graph document, the run, its trace.                                 *)
LEMMA GraphKeeps ==
  ASSUME IInv, NEW p \in Procs, WriteGraph(p) \/ WriteGraphFails(p) PROVE IInv'
<1>1. UNCHANGED <<traces, docs, pointer, tmp, ran>> /\ traces \subseteq Nat /\ ran \in Seq(RunRecord)
      /\ cmd[p].pc = "graph"
  BY DEF WriteGraph, WriteGraphFails, At, history, IInv, Typed
<1>2. CASE WriteGraph(p)
  <2> DEFINE c == [cmd[p] EXCEPT !.pc = "run"]
  <2>1. c \in Cmd /\ c.pc = "run" /\ c.life = cmd[p].life /\ c.todo = cmd[p].todo
    BY CmdOf DEF Cmd
  <2>2. Knows(c, docs, traces)
    BY <1>1, <2>1, CmdOf DEF Knows
  <2>3. Step(p, c)
    BY <1>2 DEF WriteGraph
  <2> HIDE DEF c
  <2>4. QED
    BY <1>1, <2>1, <2>2, <2>3, StepKnows
<1>3. CASE WriteGraphFails(p)
  <2> DEFINE failed == [cmd[p] EXCEPT !.failed = TRUE]
  <2>1. failed \in Cmd /\ failed.pc = "graph" /\ failed.life = cmd[p].life
        /\ failed.todo = cmd[p].todo
    BY <1>1, CmdOf DEF Cmd
  <2>2. Knows(failed, docs, traces)
    BY <1>1, <2>1, CmdOf DEF Knows
  <2>3. Step(p, Left(failed)) \/ Step(p, Idle)
    BY <1>3 DEF WriteGraphFails
  <2> HIDE DEF failed
  <2>4. Left(failed) \in Cmd /\ Knows(Left(failed), docs, traces)
    BY <2>1, <2>2, LeftKnows
  <2>5. QED
    BY <1>1, <2>3, <2>4, IdleKnows, StepKnows
<1>4. QED
  BY <1>2, <1>3

LEMMA RanTyped ==
  ASSUME IInv, NEW p \in Procs, cmd[p].pc = "run", NEW receipts \in SUBSET Targets,
         NEW touched \in SUBSET Targets, NEW dirty \in BOOLEAN,
         Ran(cmd[p], receipts, touched, dirty)
  PROVE  ran' \in Seq(RunRecord) /\ Len(ran') \in Nat
<1> DEFINE entry == [op |-> cmd[p].op, targets |-> Head(cmd[p].todo), receipts |-> receipts,
                     touched |-> {t \in touched \cup receipts : Touches(cmd[p], t)}, dirty |-> dirty]
<1>1. cmd[p].todo \in Seq(SUBSET Targets) /\ cmd[p].todo # <<>> /\ cmd[p].op \in Operations
  BY CmdOf DEF Cmd, Knows
<1>2. Head(cmd[p].todo) \in SUBSET Targets
  BY <1>1
<1>3. {t \in touched \cup receipts : Touches(cmd[p], t)} \in SUBSET Targets
  OBVIOUS
<1>4. entry \in RunRecord
  BY <1>1, <1>2, <1>3 DEF RunRecord
<1>5. ran' = Append(ran, entry) /\ ran \in Seq(RunRecord)
  BY DEF Ran, IInv, Typed
<1> HIDE DEF entry
<1>6. QED
  BY <1>4, <1>5

LEMMA RunKeeps ==
  ASSUME IInv, NEW p \in Procs, RunSucceeds(p) \/ RunFails(p) \/ RunFailsDirty(p) PROVE IInv'
<1>1. cmd[p].pc = "run"
  BY DEF RunSucceeds, RunFails, RunFailsDirty, RunEnds, At
<1>2. cmd[p].todo \in Seq(SUBSET Targets) /\ cmd[p].todo # <<>>
  BY <1>1, CmdOf DEF Cmd, Knows
<1>3. Head(cmd[p].todo) \in SUBSET Targets
  BY <1>2
<1>4. PICK receipts \in SUBSET Targets, touched \in SUBSET Targets, dirty \in BOOLEAN,
           failed \in BOOLEAN : RunEnds(p, receipts, touched, dirty, failed)
  <2>1. CASE RunSucceeds(p)
    BY <1>3, <2>1 DEF RunSucceeds
  <2>2. CASE RunFails(p)
    BY <2>2 DEF RunFails
  <2>3. CASE RunFailsDirty(p)
    BY <1>3, <2>3 DEF RunFailsDirty
  <2>4. QED
    BY <2>1, <2>2, <2>3
<1>5. Ran(cmd[p], receipts, touched, dirty) /\ UNCHANGED <<traces, docs, pointer, tmp>>
      /\ Step(p, [cmd[p] EXCEPT !.pc = "trace", !.run = Len(ran'), !.failed = failed])
  BY <1>4 DEF RunEnds, store
<1>6. ran' \in Seq(RunRecord) /\ Len(ran') \in Nat
  BY <1>1, <1>5, RanTyped
<1>7. PICK n \in Nat : n = Len(ran')
  BY <1>6
<1> DEFINE c == [cmd[p] EXCEPT !.pc = "trace", !.run = n, !.failed = failed]
<1>8. c \in Cmd /\ c.pc = "trace" /\ c.life = cmd[p].life /\ c.todo = cmd[p].todo
  BY CmdOf DEF Cmd
<1>9. Knows(c, docs, traces')
  BY <1>1, <1>5, <1>8, CmdOf DEF Knows
<1>10. Step(p, c)
  BY <1>5, <1>7
<1>11. traces \subseteq Nat
  BY DEF IInv, Typed
<1> HIDE DEF c
<1>12. QED
  BY <1>5, <1>6, <1>8, <1>9, <1>10, <1>11, StepKnows

LEMMA TraceKeeps ==
  ASSUME IInv, NEW p \in Procs, WriteTrace(p) \/ WriteTraceFails(p) PROVE IInv'
<1>1. cmd[p].pc = "trace" /\ UNCHANGED <<docs, pointer, tmp, ran>> /\ ran \in Seq(RunRecord)
  BY DEF WriteTrace, WriteTraceFails, At, history, IInv, Typed
<1>2. traces \subseteq traces' /\ traces' \subseteq Nat
  <2>1. cmd[p].run \in Nat /\ traces \subseteq Nat
    BY CmdOf DEF Cmd, IInv, Typed
  <2>2. QED
    BY <2>1 DEF WriteTrace, WriteTraceFails
<1>3. cmd[p] \in Cmd /\ Knows(cmd[p], docs, traces')
  BY <1>2, CmdOf, KnowsGrows
<1>4. CASE WriteTrace(p)
  <2> DEFINE c == [cmd[p] EXCEPT !.pc = "append"]
  <2>1. c \in Cmd /\ c.pc = "append" /\ c.life = cmd[p].life /\ c.todo = cmd[p].todo
        /\ c.run = cmd[p].run
    BY <1>3 DEF Cmd
  <2>2. Step(p, c) /\ cmd[p].run \in traces'
    BY <1>4 DEF WriteTrace
  <2>3. Knows(c, docs, traces')
    BY <1>1, <1>3, <2>1, <2>2 DEF Knows
  <2> HIDE DEF c
  <2>4. QED
    BY <1>1, <1>2, <2>1, <2>2, <2>3, StepKnows
<1>5. CASE WriteTraceFails(p)
  <2>1. Step(p, Left(cmd[p]))
    BY <1>5 DEF WriteTraceFails, Unrecorded
  <2>2. Left(cmd[p]) \in Cmd /\ Knows(Left(cmd[p]), docs, traces')
    BY <1>1, <1>3, LeftKnows
  <2>3. QED
    BY <1>1, <1>2, <2>1, <2>2, StepKnows
<1>6. QED
  BY <1>4, <1>5

-----------------------------------------------------------------------------
(* AppendRun, up to its first write.                                       *)
LEMMA LongerTyped ==
  ASSUME NEW s \in Seq(Nat), NEW n \in Nat
  PROVE  /\ Append(s, n) \in Seq(Nat) /\ Append(s, n) # <<>>
         /\ Len(Append(s, n)) = Len(s) + 1 /\ Len(s) \in Nat
OBVIOUS

LEMMA AppendedKnows ==
  ASSUME IInv, NEW p \in Procs, cmd[p].pc = "append"
  PROVE  LET c == [cmd[p] EXCEPT !.life.runs = Append(@, cmd[p].run)]
         IN /\ c \in Cmd /\ c.pc = "append" /\ c.todo # <<>> /\ c.life.id \in Lifetimes
            /\ c.life.runs # <<>> /\ Knows(c, docs, traces)
<1> DEFINE c == [cmd[p] EXCEPT !.life.runs = Append(@, cmd[p].run)]
           runs == cmd[p].life.runs
           more == Append(runs, cmd[p].run)
           life == [cmd[p].life EXCEPT !.runs = more]
<1>1. cmd[p] \in Cmd /\ Knows(cmd[p], docs, traces) /\ cmd[p].life \in Life
      /\ runs \in Seq(Nat) /\ cmd[p].run \in Nat
  <2>1. cmd[p] \in Cmd /\ Knows(cmd[p], docs, traces)
    BY CmdOf
  <2>2. cmd[p].life \in Life /\ cmd[p].run \in Nat
    BY <2>1 DEF Cmd
  <2>3. runs \in Seq(Nat)
    BY <2>2 DEF Life
  <2>4. QED
    BY <2>1, <2>2, <2>3
<1>2. more \in Seq(Nat) /\ more # <<>> /\ Len(more) = Len(runs) + 1 /\ Len(runs) \in Nat
  BY <1>1, LongerTyped
<1>3. Traced(more, traces)
  <2>1. ASSUME NEW i \in DOMAIN more PROVE more[i] \in traces
    <3>1. CASE i \in DOMAIN runs
      BY <1>1, <3>1 DEF Knows, Traced
    <3>2. CASE i \notin DOMAIN runs
      <4>1. i = Len(runs) + 1
        BY <1>1, <1>2, <3>2
      <4>2. more[i] = cmd[p].run
        BY <1>1, <4>1
      <4>3. QED
        BY <1>1, <4>2 DEF Knows
    <3>3. QED
      BY <3>1, <3>2
  <2>2. QED
    BY <2>1 DEF Traced
<1>4. c = [cmd[p] EXCEPT !.life = life]
  BY <1>1 DEF Cmd, Life
<1> HIDE DEF more
<1>5. life \in Life /\ life.runs = more /\ life.id = cmd[p].life.id
  BY <1>1, <1>2 DEF Life
<1> HIDE DEF life, c
<1>6. c \in Cmd /\ c.life = life /\ c.pc = "append" /\ c.todo = cmd[p].todo /\ c.run = cmd[p].run
  BY <1>1, <1>4, <1>5 DEF Cmd
<1>7. c.todo # <<>> /\ c.life.id \in Lifetimes /\ Knows(c, docs, traces)
  BY <1>1, <1>3, <1>5, <1>6 DEF Knows
<1>8. QED
  BY <1>2, <1>5, <1>6, <1>7 DEF c

LEMMA ReplaceKnows ==
  ASSUME IInv, NEW c \in Cmd, c.pc = "append", c.todo # <<>>, c.life.id \in Lifetimes,
         c.life.runs # <<>>, Knows(c, docs, traces)
  PROVE  ReplacePrevious(c) \in Cmd /\ Knows(ReplacePrevious(c), docs, traces)
<1>1. CASE Replaces(c.life)
  <2> DEFINE previous == [id |-> pointer, state |-> "replaced", runs |-> docs[pointer].runs]
             next == [[c EXCEPT !.previous = previous] EXCEPT !.pc = "write", !.writing = "previous"]
  <2>1. pointer \in Lifetimes /\ docs[pointer] \in Doc /\ Kept(docs[pointer], traces)
    BY <1>1 DEF Replaces, IInv, Typed, StoreReadable, Kept
  <2>2. previous \in Life /\ previous.id \in Lifetimes /\ Kept(previous, traces)
    BY <2>1 DEF Life, Doc, States, Kept
  <2>3. ReplacePrevious(c) = next
    BY <1>1 DEF ReplacePrevious, Writing
  <2> HIDE DEF previous
  <2>4. next \in Cmd /\ next.pc = "write" /\ next.writing = "previous" /\ next.life = c.life
        /\ next.previous = previous /\ next.todo = c.todo
    BY <2>2 DEF Cmd
  <2> HIDE DEF next
  <2>5. Knows(next, docs, traces)
    BY <2>2, <2>4 DEF Knows
  <2>6. QED
    BY <2>3, <2>4, <2>5
<1>2. CASE ~Replaces(c.life)
  <2> DEFINE next == [c EXCEPT !.pc = "write", !.writing = "own"]
  <2>1. ReplacePrevious(c) = next
    BY <1>2 DEF ReplacePrevious, Writing
  <2>2. next \in Cmd /\ next.pc = "write" /\ next.writing = "own" /\ next.life = c.life
        /\ next.todo = c.todo
    BY DEF Cmd
  <2> HIDE DEF next
  <2>3. Knows(next, docs, traces)
    BY <2>2 DEF Knows
  <2>4. QED
    BY <2>1, <2>2, <2>3
<1>3. QED
  BY <1>1, <1>2

LEMMA AppendKeeps ==
  ASSUME IInv, NEW p \in Procs, AppendRun(p) \/ AppendRunFails(p) PROVE IInv'
<1> DEFINE c == [cmd[p] EXCEPT !.life.runs = Append(@, cmd[p].run)]
<1>1. cmd[p].pc = "append" /\ UNCHANGED <<traces, docs, pointer, tmp, ran>>
      /\ traces \subseteq Nat /\ ran \in Seq(RunRecord)
  BY DEF AppendRun, AppendRunFails, At, store, history, IInv, Typed
<1>2. c \in Cmd /\ c.pc = "append" /\ c.todo # <<>> /\ c.life.id \in Lifetimes
      /\ c.life.runs # <<>> /\ Knows(c, docs, traces)
  BY <1>1, AppendedKnows
<1>3. \/ Step(p, Left(cmd[p])) \/ Step(p, ReplacePrevious(c)) \/ Step(p, Left(c))
  BY DEF AppendRun, AppendRunFails
<1> HIDE DEF c
<1>4. /\ Left(cmd[p]) \in Cmd /\ Knows(Left(cmd[p]), docs, traces)
      /\ Left(c) \in Cmd /\ Knows(Left(c), docs, traces)
  BY <1>1, <1>2, CmdOf, LeftKnows
<1>5. ReplacePrevious(c) \in Cmd /\ Knows(ReplacePrevious(c), docs, traces)
  BY <1>2, ReplaceKnows
<1>6. QED
  BY <1>1, <1>3, <1>4, <1>5, StepKnows

-----------------------------------------------------------------------------
(* writeAtomically.                                                        *)
LEMMA WriteKeeps == ASSUME IInv, NEW p \in Procs, WriteTemporary(p) PROVE IInv'
<1> DEFINE c == [cmd[p] EXCEPT !.pc = "place"]
<1>1. cmd[p].pc = "write" /\ Step(p, c) /\ UNCHANGED <<traces, docs, pointer, ran>>
      /\ tmp' = [tmp EXCEPT ![Path(cmd[p])] = Content(cmd[p])]
  BY DEF WriteTemporary, At, history
<1>2. cmd[p] \in Cmd /\ Knows(cmd[p], docs, traces)
  BY CmdOf
<1>3. c \in Cmd /\ c.pc = "place" /\ c.life = cmd[p].life /\ c.todo = cmd[p].todo
      /\ c.previous = cmd[p].previous /\ c.writing = cmd[p].writing
  BY <1>2 DEF Cmd
<1>4. Knows(c, docs, traces)
  BY <1>1, <1>2, <1>3 DEF Knows
<1> HIDE DEF c
<1>5. cmd' \in [Procs -> Cmd] /\ CommandsKnow'
  BY <1>1, <1>3, <1>4, ProcessKnows DEF Grows
<1>6. Typed'
  BY <1>1, <1>5 DEF IInv, Typed
<1>7. TemporariesKept'
  <2>1. CASE cmd[p].writing \in {"previous", "own"}
    <3>1. PICK l \in Lifetimes, life \in Life :
            Path(cmd[p]) = l /\ Content(cmd[p]) = Document(life) /\ Kept(life, traces)
      BY <1>1, <1>2, <2>1 DEF Path, Content, Knows, Kept, Cmd
    <3>2. Document(life) \in Doc /\ Kept(Document(life), traces)
      BY <3>1 DEF Document, Doc, Life, Kept
    <3>3. l # "current"
      BY IdAssumption
    <3>4. QED
      BY <1>1, <3>1, <3>2, <3>3 DEF IInv, Typed, TemporariesKept
  <2>2. CASE cmd[p].writing = "pointer"
    <3>1. Path(cmd[p]) = "current" /\ Content(cmd[p]) \in Lifetimes
          /\ docs[Content(cmd[p])].runs # <<>>
      BY <1>1, <1>2, <2>2 DEF Path, Content, Knows
    <3>2. QED
      BY <1>1, <3>1, IdAssumption DEF IInv, Typed, TemporariesKept
  <2>3. QED
    BY <1>1, <1>2, <2>1, <2>2 DEF Knows, Cmd
<1>8. StoreReadable'
  BY <1>1 DEF IInv, StoreReadable
<1>9. QED
  BY <1>5, <1>6, <1>7, <1>8 DEF IInv

(* A rename that puts a lifetime's document in place.                      *)
LEMMA DocumentPlaced ==
  ASSUME IInv, NEW p \in Procs, Place(p), cmd[p].writing \in {"previous", "own"}
  PROVE  IInv'
<1> DEFINE what == IF cmd[p].writing = "previous" THEN "own" ELSE "pointer"
           c == [cmd[p] EXCEPT !.pc = "write", !.writing = what]
<1>1. cmd[p].pc = "place" /\ cmd[p] \in Cmd /\ Knows(cmd[p], docs, traces)
  BY CmdOf DEF Place, At
<1>2. PICK l \in Lifetimes : Path(cmd[p]) = l /\ (cmd[p].writing = "own" => l = cmd[p].life.id)
  BY <1>1 DEF Path, Knows
<1>3. l # "current"
  BY IdAssumption
<1>4. /\ tmp[l] # None /\ tmp' = [tmp EXCEPT ![l] = None] /\ docs' = [docs EXCEPT ![l] = tmp[l]]
      /\ UNCHANGED <<pointer, traces, ran>> /\ Step(p, Placed(cmd[p]))
  BY <1>2, <1>3 DEF Place, history
<1>5. tmp[l] \in Doc /\ Kept(tmp[l], traces) /\ docs \in [Lifetimes -> Doc]
  BY <1>4 DEF IInv, Typed, TemporariesKept
<1>6. docs' \in [Lifetimes -> Doc] /\ docs'[l] = tmp[l]
      /\ \A m \in Lifetimes : m # l => docs'[m] = docs[m]
  BY <1>4, <1>5
<1>7. Grows
  BY <1>5, <1>6 DEF Grows, Kept
<1>8. Placed(cmd[p]) = c
  BY DEF Placed, Writing
<1>9. c \in Cmd /\ c.pc = "write" /\ c.writing = what /\ c.life = cmd[p].life
      /\ c.todo = cmd[p].todo
  BY <1>1 DEF Cmd
<1> HIDE DEF c
<1>10. Knows(c, docs', traces)
  <2>1. what = "pointer" => docs'[c.life.id].runs # <<>>
    BY <1>2, <1>5, <1>6, <1>9 DEF Kept
  <2>2. QED
    BY <1>1, <1>9, <2>1 DEF Knows
<1>11. cmd' \in [Procs -> Cmd] /\ CommandsKnow'
  BY <1>4, <1>7, <1>8, <1>9, <1>10, ProcessKnows
<1>12. Typed'
  BY <1>4, <1>6, <1>11 DEF IInv, Typed
<1>13. StoreReadable'
  <2>1. ASSUME NEW m \in Lifetimes PROVE Traced(docs'[m].runs, traces)
    BY <1>5, <1>6 DEF IInv, StoreReadable, Kept
  <2>2. pointer # None => docs'[pointer].runs # <<>>
    BY <1>7 DEF IInv, Typed, StoreReadable, Grows
  <2>3. QED
    BY <1>4, <2>1, <2>2 DEF StoreReadable
<1>14. TemporariesKept'
  <2>1. ASSUME NEW m \in Lifetimes, tmp'[m] # None
        PROVE  tmp'[m] \in Doc /\ Kept(tmp'[m], traces)
    BY <1>4, <2>1 DEF IInv, Typed, TemporariesKept
  <2>2. tmp'["current"] = tmp["current"]
    BY <1>3, <1>4 DEF IInv, Typed
  <2>3. QED
    BY <1>4, <1>7, <2>1, <2>2 DEF IInv, TemporariesKept, Grows
<1>15. QED
  BY <1>11, <1>12, <1>13, <1>14 DEF IInv

(* A rename that moves the pointer.                                        *)
LEMMA PointerPlaced ==
  ASSUME IInv, NEW p \in Procs, Place(p), cmd[p].writing = "pointer"
  PROVE  IInv'
<1>1. cmd[p].pc = "place" /\ cmd[p] \in Cmd /\ Knows(cmd[p], docs, traces)
  BY CmdOf DEF Place, At
<1>2. /\ tmp["current"] # None /\ tmp' = [tmp EXCEPT !["current"] = None]
      /\ pointer' = tmp["current"] /\ UNCHANGED <<docs, traces, ran>>
      /\ Step(p, Left(cmd[p]))
  BY DEF Place, Path, Placed, history
<1>3. pointer' \in Lifetimes /\ docs[pointer'].runs # <<>>
  BY <1>2 DEF IInv, TemporariesKept
<1>4. Left(cmd[p]) \in Cmd /\ Knows(Left(cmd[p]), docs, traces)
  BY <1>1, LeftKnows
<1>5. cmd' \in [Procs -> Cmd] /\ CommandsKnow'
  BY <1>2, <1>4, ProcessKnows DEF Grows
<1>6. Typed'
  BY <1>2, <1>3, <1>5 DEF IInv, Typed
<1>7. StoreReadable'
  BY <1>2, <1>3 DEF IInv, StoreReadable
<1>8. TemporariesKept'
  <2>1. \A m \in Lifetimes : tmp'[m] = tmp[m]
    BY <1>2, IdAssumption DEF IInv, Typed
  <2>2. tmp'["current"] = None
    BY <1>2 DEF IInv, Typed
  <2>3. QED
    BY <1>2, <2>1, <2>2 DEF IInv, TemporariesKept
<1>9. QED
  BY <1>5, <1>6, <1>7, <1>8 DEF IInv

LEMMA PlaceKeeps == ASSUME IInv, NEW p \in Procs, Place(p) PROVE IInv'
<1>1. cmd[p].writing \in {"previous", "own", "pointer"}
  BY CmdOf DEF Place, At, Knows, Cmd
<1>2. QED
  BY <1>1, DocumentPlaced, PointerPlaced

LEMMA FailureKeeps ==
  ASSUME IInv, NEW p \in Procs, PlaceFails(p) \/ StoreFails(p) PROVE IInv'
<1>1. /\ cmd[p].pc \in {"write", "place"} /\ Step(p, Left(cmd[p]))
      /\ UNCHANGED <<traces, docs, pointer, tmp, ran>>
      /\ traces \subseteq Nat /\ ran \in Seq(RunRecord)
  BY DEF PlaceFails, StoreFails, At, store, history, IInv, Typed
<1>2. Left(cmd[p]) \in Cmd /\ Knows(Left(cmd[p]), docs, traces)
  BY <1>1, CmdOf, LeftKnows
<1>3. QED
  BY <1>1, <1>2, StepKnows

-----------------------------------------------------------------------------
(* The process dies; a user edits.                                         *)
LEMMA CrashKeeps == ASSUME IInv, NEW p \in Procs, Crash(p) PROVE IInv'
<1>1. Step(p, Idle) /\ UNCHANGED <<traces, docs, pointer, tmp>> /\ traces \subseteq Nat
  BY DEF Crash, store, IInv, Typed
<1>2. ran' \in Seq(RunRecord)
  <2>1. CASE cmd[p].pc = "run"
    <3>1. cmd[p].todo \in Seq(SUBSET Targets) /\ cmd[p].todo # <<>>
      BY <2>1, CmdOf DEF Cmd, Knows
    <3>2. Head(cmd[p].todo) \in SUBSET Targets
      BY <3>1
    <3>3. PICK done \in SUBSET Targets : Ran(cmd[p], {}, done, TRUE)
      BY <2>1, <3>2 DEF Crash, At
    <3>4. {} \in SUBSET Targets
      OBVIOUS
    <3>5. QED
      BY <2>1, <3>3, <3>4, RanTyped
  <2>2. CASE cmd[p].pc # "run"
    BY <2>2 DEF Crash, At, IInv, Typed
  <2>3. QED
    BY <2>1, <2>2
<1>3. QED
  BY <1>1, <1>2, IdleKnows, StepKnows

LEMMA EditKeeps == ASSUME IInv, NEW t \in Targets, Edit(t) PROVE IInv'
<1> DEFINE entry == [op |-> "user", targets |-> {t}, receipts |-> {}, touched |-> {t}, dirty |-> FALSE]
<1>1. entry \in RunRecord
  BY DEF RunRecord, Operations
<1>2. ran' = Append(ran, entry) /\ UNCHANGED <<traces, docs, pointer, tmp, cmd>>
  BY DEF Edit, store
<1> HIDE DEF entry
<1>3. ran' \in Seq(RunRecord)
  BY <1>1, <1>2 DEF IInv, Typed
<1>4. QED
  BY <1>2, <1>3 DEF IInv, Typed, StoreReadable, TemporariesKept, CommandsKnow

LEMMA NextKeeps == ASSUME IInv, [Next]_vars PROVE IInv'
<1>1. ASSUME NEW p \in Procs, Command(p) PROVE IInv'
  BY <1>1, CommandsBegin, GraphKeeps, RunKeeps, TraceKeeps, AppendKeeps, WriteKeeps,
     PlaceKeeps, FailureKeeps, CrashKeeps DEF Command
<1>2. ASSUME NEW t \in Targets, Edit(t) PROVE IInv'
  BY <1>2, EditKeeps
<1>3. CASE UNCHANGED vars
  BY <1>3 DEF vars, IInv, Typed, StoreReadable, TemporariesKept, CommandsKnow
<1>4. QED
  BY <1>1, <1>2, <1>3 DEF Next

-----------------------------------------------------------------------------
(* What is in the store, in a temporary or in a process's memory names     *)
(* runs whose traces are there: deploy and the other commands, AppendRun.  *)
THEOREM RecordInvariant == Spec => []IInv
<1>1. Init => IInv
  BY InitIInv
<1>2. IInv /\ [Next]_vars => IInv'
  BY NextKeeps
<1>3. QED
  BY <1>1, <1>2, PTL DEF Spec

(* Whatever dies, fails or overlaps, `current` names a document with a run *)
(* and the trace of every run that is named is there (WriteLifetimeTrace,  *)
(* AppendRun, writeAtomically).                                            *)
THEOREM RecordAlwaysReadable == Spec => []RecordReadable
<1>1. IInv => RecordReadable
  BY DEF IInv, StoreReadable, Traced, RecordReadable
<1>2. QED
  BY <1>1, RecordInvariant, PTL

-----------------------------------------------------------------------------
(* History is closed.  What a command has in memory is of a lifetime that  *)
(* was minted, and what it writes is of one it found current.              *)
Minted(c, ids) ==
  /\ c.pc # "idle" => c.life.id \in ids
  /\ c.pc \in {"write", "place"} =>
       /\ c.life.state = "current"
       /\ c.writing = "previous" => c.previous.id \in ids /\ c.previous.id # c.life.id

(* Alone, a command knows whether its lifetime was replaced, replaces one  *)
(* that was not, and finds in its temporary what it put there.             *)
UpToDate(c, documents, temporaries) ==
  /\ c.pc # "idle" => (documents[c.life.id].state = "replaced" => c.life.state = "replaced")
  /\ c.pc \in {"write", "place"} /\ c.writing = "previous"
       => documents[c.previous.id].state # "replaced"
  /\ c.pc = "place" => temporaries[Path(c)] = Content(c)

Busy(p) == cmd[p].pc # "idle"
CInv ==
  /\ minted \subseteq Lifetimes /\ alone \in BOOLEAN
  /\ pointer # None => pointer \in minted
  /\ tmp["current"] # None => tmp["current"] \in minted
  /\ \A l \in Lifetimes \ minted : docs[l].state # "replaced"
  /\ \A p \in Procs : Minted(cmd[p], minted)
  /\ alone => \A p, q \in Procs : Busy(p) /\ Busy(q) => p = q
  /\ alone => \A p \in Procs : UpToDate(cmd[p], docs, tmp)

LEMMA IdleAtEase == Idle \in Cmd /\ Idle.pc = "idle"
BY IdleKnows DEF Idle

(* What Left makes of a command.                                           *)
LEMMA LeftIs ==
  ASSUME NEW c \in Cmd, NEW documents, NEW known, Knows(c, documents, known),
         c.pc \notin {"idle", "select"}
  PROVE  /\ Left(c) \in Cmd
         /\ \/ Left(c) = Idle
            \/ /\ Left(c).pc = "graph" /\ Left(c).op = c.op /\ Left(c).life = c.life
               /\ Left(c).previous = c.previous /\ Left(c).policy = c.policy
               /\ Left(c).todo = Tail(c.todo) /\ Len(c.todo) # 1
BY LeftKnows DEF Left, Cmd

(* A step of one process, as the other ones see it.                        *)
LEMMA StepCloses ==
  ASSUME IInv, CInv, NEW p \in Procs, NEW c \in Cmd, Step(p, c),
         alone' \in BOOLEAN, alone' => alone /\ \A q \in Procs : Busy(q) => q = p,
         minted \subseteq minted', minted' \subseteq Lifetimes,
         pointer' # None => pointer' \in minted',
         tmp'["current"] # None => tmp'["current"] \in minted',
         \A l \in Lifetimes \ minted' : docs'[l].state # "replaced",
         Minted(c, minted'),
         alone' => UpToDate(c, docs', tmp')
  PROVE  CInv'
<1>1. cmd' = [cmd EXCEPT ![p] = c] /\ cmd \in [Procs -> Cmd]
  BY DEF Step, IInv, Typed
<1>2. cmd'[p] = c /\ \A q \in Procs : q # p => cmd'[q] = cmd[q]
  BY <1>1
<1>3. \A q \in Procs : Minted(cmd'[q], minted')
  <2>1. \A q \in Procs : Minted(cmd[q], minted) => Minted(cmd[q], minted')
    BY DEF Minted
  <2> QED  BY <1>2, <2>1 DEF CInv
<1>4. ASSUME alone'  PROVE \A q, r \in Procs : Busy(q)' /\ Busy(r)' => q = r
  BY <1>2, <1>4 DEF Busy
<1>5. ASSUME alone', NEW q \in Procs  PROVE UpToDate(cmd'[q], docs', tmp')
  <2>1. CASE q = p  BY <1>2, <1>5, <2>1
  <2>2. CASE q # p
    <3>1. cmd'[q].pc = "idle"
      BY <1>2, <1>5, <2>2 DEF Busy
    <3> QED  BY <3>1 DEF UpToDate
  <2> QED  BY <2>1, <2>2
<1> QED  BY <1>3, <1>4, <1>5 DEF CInv

(* A command that goes on with the lifetime it has, or ends.               *)
GoesOn(c, d) == \/ d.pc = "idle"
                \/ /\ d.pc \notin {"idle", "write", "place"}
                   /\ d.life.id = c.life.id /\ d.life.state = c.life.state

LEMMA GoingOnCloses ==
  ASSUME IInv, CInv, NEW p \in Procs, Busy(p), NEW c \in Cmd, Step(p, c), GoesOn(cmd[p], c),
         UNCHANGED <<docs, pointer, tmp, minted, alone>>
  PROVE  CInv'
<1>1. alone' => alone /\ \A q \in Procs : Busy(q) => q = p
  BY DEF CInv
<1>2. Minted(c, minted')
  BY DEF CInv, Minted, GoesOn, Busy
<1>3. alone' => UpToDate(c, docs', tmp')
  BY DEF CInv, UpToDate, GoesOn, Busy
<1> QED  BY <1>1, <1>2, <1>3, StepCloses DEF CInv

LEMMA WorkGoesOn ==
  ASSUME IInv, NEW p \in Procs,
         \/ Select(p) \/ WriteGraph(p) \/ WriteGraphFails(p)
         \/ RunSucceeds(p) \/ RunFails(p) \/ RunFailsDirty(p)
         \/ WriteTrace(p) \/ WriteTraceFails(p) \/ AppendRunFails(p)
         \/ PlaceFails(p) \/ StoreFails(p) \/ Crash(p)
         \/ AppendRun(p) /\ Refuses(cmd[p].life)
  PROVE  /\ Busy(p) /\ UNCHANGED <<docs, pointer, tmp, minted, alone>>
         /\ \E c \in Cmd : Step(p, c) /\ GoesOn(cmd[p], c)
<1>1. cmd[p] \in Cmd /\ Knows(cmd[p], docs, traces)
  BY CmdOf
<1>2. ASSUME cmd[p].pc \notin {"idle", "select"}
      PROVE  Left(cmd[p]) \in Cmd /\ GoesOn(cmd[p], Left(cmd[p]))
  BY <1>1, <1>2, LeftIs, IdleAtEase DEF GoesOn
<1>3. Idle \in Cmd /\ GoesOn(cmd[p], Idle)
  BY IdleAtEase DEF GoesOn
<1>4. CASE Select(p)
  <2>1. PICK ts \in SUBSET Targets :
          Step(p, IF ts = {} THEN Idle
                  ELSE [cmd[p] EXCEPT !.pc = "graph", !.todo = Scopes(ts),
                                      !.claim = [t \in Targets |-> Kind(Record[t])]])
    BY <1>4 DEF Select, Selectable
  <2>2. UNCHANGED <<docs, pointer, tmp, minted, alone>> /\ Busy(p)
    BY <1>4 DEF Select, store, history, At, Busy
  <2>3. CASE ts = {}
    BY <1>3, <2>1, <2>2, <2>3
  <2>4. CASE ts # {}
    <3> DEFINE claim == [t \in Targets |-> Kind(Record[t])]
               c == [cmd[p] EXCEPT !.pc = "graph", !.todo = Scopes(ts), !.claim = claim]
    <3>1. claim \in [Targets -> {"link", "regular"}]
      BY DEF Kind
    <3>2. Step(p, c)
      BY <2>1, <2>4
    <3> HIDE DEF claim
    <3>3. Scopes(ts) \in Seq(SUBSET Targets)
      BY <2>4, ScopesTyped
    <3>4. c \in Cmd /\ c.pc = "graph" /\ c.life = cmd[p].life
      BY <1>1, <3>1, <3>3 DEF Cmd
    <3> HIDE DEF c
    <3> QED  BY <2>2, <3>2, <3>4 DEF GoesOn
  <2> QED  BY <2>3, <2>4
<1>5. CASE WriteGraph(p)
  <2> DEFINE c == [cmd[p] EXCEPT !.pc = "run"]
  <2>1. c \in Cmd /\ c.pc = "run" /\ c.life = cmd[p].life
    BY <1>1 DEF Cmd
  <2> HIDE DEF c
  <2> QED  BY <1>5, <2>1 DEF WriteGraph, GoesOn, history, At, Busy, c
<1>6. CASE WriteGraphFails(p)
  <2> DEFINE c == [cmd[p] EXCEPT !.failed = TRUE]
  <2>1. cmd[p].pc = "graph" /\ UNCHANGED <<docs, pointer, tmp, minted, alone>>
        /\ (Step(p, Left(c)) \/ Step(p, Idle))
    BY <1>6 DEF WriteGraphFails, At, history
  <2>2. c \in Cmd /\ c.pc = "graph" /\ c.life = cmd[p].life /\ c.todo = cmd[p].todo
    BY <1>1, <2>1 DEF Cmd
  <2> HIDE DEF c
  <2>3. Knows(c, docs, traces)
    BY <1>1, <2>1, <2>2 DEF Knows
  <2>4. Left(c) \in Cmd /\ GoesOn(cmd[p], Left(c))
    BY <2>2, <2>3, LeftIs, IdleAtEase DEF GoesOn
  <2> QED  BY <1>3, <2>1, <2>4 DEF Busy
<1>7. CASE RunSucceeds(p) \/ RunFails(p) \/ RunFailsDirty(p)
  <2>1. PICK failed \in BOOLEAN, n \in Nat :
          /\ cmd[p].pc = "run" /\ UNCHANGED <<docs, pointer, tmp, minted, alone>>
          /\ Step(p, [cmd[p] EXCEPT !.pc = "trace", !.run = n, !.failed = failed])
    <3>1. PICK receipts \in SUBSET Targets, left \in SUBSET Targets, dirty \in BOOLEAN, failed \in BOOLEAN :
            RunEnds(p, receipts, left, dirty, failed)
      <4>1. cmd[p].pc = "run" /\ Head(cmd[p].todo) \in SUBSET Targets
        <5>1. cmd[p].pc = "run"
          BY <1>7 DEF RunSucceeds, RunFails, RunEnds, RunFailsDirty, At
        <5>2. cmd[p].todo \in Seq(SUBSET Targets) /\ cmd[p].todo # <<>>
          BY <1>1, <5>1 DEF Cmd, Knows
        <5> QED  BY <5>1, <5>2
      <4>2. {} \in SUBSET Targets /\ TRUE \in BOOLEAN /\ FALSE \in BOOLEAN
        OBVIOUS
      <4>3. CASE RunSucceeds(p)  BY <4>1, <4>2, <4>3 DEF RunSucceeds
      <4>4. CASE RunFails(p)  BY <4>2, <4>4 DEF RunFails
      <4>5. CASE RunFailsDirty(p)
        <5>1. PICK receipts \in SUBSET Head(cmd[p].todo) :
                \E left \in SUBSET receipts : RunEnds(p, receipts, left, TRUE, TRUE)
          BY <4>5 DEF RunFailsDirty
        <5>2. PICK left \in SUBSET receipts : RunEnds(p, receipts, left, TRUE, TRUE)
          BY <5>1
        <5> QED  BY <4>1, <4>2, <5>2
      <4> QED  BY <1>7, <4>3, <4>4, <4>5
    <3>2. Len(ran') \in Nat
      BY <3>1, RanTyped DEF RunEnds, At
    <3> QED  BY <3>1, <3>2 DEF RunEnds, store, At
  <2> DEFINE c == [cmd[p] EXCEPT !.pc = "trace", !.run = n, !.failed = failed]
  <2>2. c \in Cmd /\ c.pc = "trace" /\ c.life = cmd[p].life
    BY <1>1 DEF Cmd
  <2>3. Step(p, c)
    BY <2>1
  <2> HIDE DEF c
  <2> QED  BY <2>1, <2>2, <2>3 DEF GoesOn, Busy
<1>8. CASE WriteTrace(p)
  <2> DEFINE c == [cmd[p] EXCEPT !.pc = "append"]
  <2>1. c \in Cmd /\ c.pc = "append" /\ c.life = cmd[p].life
    BY <1>1 DEF Cmd
  <2> HIDE DEF c
  <2> QED  BY <1>8, <2>1 DEF WriteTrace, GoesOn, history, At, Busy, c
<1>9. CASE WriteTraceFails(p)
  BY <1>2, <1>9 DEF WriteTraceFails, Unrecorded, history, At, Busy
<1>10. CASE AppendRunFails(p)
  <2> DEFINE c == [cmd[p] EXCEPT !.life.runs = Append(@, cmd[p].run)]
  <2>1. cmd[p].pc = "append" /\ UNCHANGED <<docs, pointer, tmp, minted, alone>> /\ Step(p, Left(c))
    BY <1>10 DEF AppendRunFails, At, history, store
  <2>2. c \in Cmd /\ c.pc = "append" /\ Knows(c, docs, traces)
    BY <2>1, AppendedKnows
  <2>3. c.life.id = cmd[p].life.id /\ c.life.state = cmd[p].life.state
    BY <1>1 DEF Cmd, Life
  <2> HIDE DEF c
  <2>4. Left(c) \in Cmd /\ GoesOn(cmd[p], Left(c))
    BY <2>2, <2>3, LeftIs, IdleAtEase DEF GoesOn
  <2> QED  BY <2>1, <2>4 DEF Busy
<1>11. CASE PlaceFails(p) \/ StoreFails(p)
  BY <1>2, <1>11 DEF PlaceFails, StoreFails, store, history, At, Busy
<1>12. CASE Crash(p)
  BY <1>3, <1>12 DEF Crash, store, At, Busy
<1>13. CASE AppendRun(p) /\ Refuses(cmd[p].life)
  BY <1>2, <1>13 DEF AppendRun, store, history, At, Busy
<1> QED  BY <1>4, <1>5, <1>6, <1>7, <1>8, <1>9, <1>10, <1>11, <1>12, <1>13

LEMMA WorkCloses ==
  ASSUME IInv, CInv, NEW p \in Procs,
         \/ Select(p) \/ WriteGraph(p) \/ WriteGraphFails(p)
         \/ RunSucceeds(p) \/ RunFails(p) \/ RunFailsDirty(p)
         \/ WriteTrace(p) \/ WriteTraceFails(p) \/ AppendRunFails(p)
         \/ PlaceFails(p) \/ StoreFails(p) \/ Crash(p)
         \/ AppendRun(p) /\ Refuses(cmd[p].life)
  PROVE  CInv'
BY WorkGoesOn, GoingOnCloses

LEMMA BeginningCloses ==
  ASSUME IInv, CInv, NEW p \in Procs, Deploy(p) \/ RequireCurrentLifetime(p)
  PROVE  CInv'
<1>1. /\ Starts(p) /\ UNCHANGED <<docs, pointer, tmp>>
      /\ alone' \in BOOLEAN
      /\ alone' => alone /\ \A q \in Procs : Busy(q) => q = p
  BY DEF Deploy, RequireCurrentLifetime, Starts, store, At, Busy, CInv
<1>2. CASE Deploy(p)
  <2>1. PICK ts \in (SUBSET Targets) \ {{}}, policy \in Policies, l \in Lifetimes \ minted :
          /\ Step(p, [Idle EXCEPT !.pc = "graph", !.op = "deploy", !.policy = policy,
                        !.life = [id |-> l, state |-> "current", runs |-> <<>>],
                        !.todo = Scopes(ts)])
          /\ minted' = minted \cup {l}
    BY <1>2 DEF Deploy
  <2> DEFINE life == [id |-> l, state |-> "current", runs |-> <<>>]
             c == [Idle EXCEPT !.pc = "graph", !.op = "deploy", !.policy = policy,
                     !.life = life, !.todo = Scopes(ts)]
  <2>2. life \in Life /\ life.id = l
    BY DEF Life, States
  <2>3. Scopes(ts) \in Seq(SUBSET Targets)
    BY ScopesTyped
  <2>4. Step(p, c)
    BY <2>1
  <2> HIDE DEF life
  <2>5. c \in Cmd /\ c.pc = "graph" /\ c.life = life
    BY <2>2, <2>3, IdleKnows DEF Cmd, Operations
  <2> HIDE DEF c
  <2>6. Minted(c, minted') /\ UpToDate(c, docs', tmp')
    BY <1>1, <2>1, <2>2, <2>5 DEF Minted, UpToDate, CInv
  <2>7. /\ minted \subseteq minted' /\ minted' \subseteq Lifetimes
        /\ pointer' # None => pointer' \in minted'
        /\ tmp'["current"] # None => tmp'["current"] \in minted'
        /\ \A m \in Lifetimes \ minted' : docs'[m].state # "replaced"
    BY <1>1, <2>1 DEF CInv
  <2> QED  BY <1>1, <2>4, <2>5, <2>6, <2>7, StepCloses
<1>3. CASE RequireCurrentLifetime(p)
  <2>1. PICK op \in {"upgrade", "adopt", "decommission"} :
          Step(p, [Idle EXCEPT !.pc = "select", !.op = op,
                     !.life = [id |-> pointer, state |-> docs[pointer].state,
                               runs |-> docs[pointer].runs]])
    BY <1>3 DEF RequireCurrentLifetime
  <2> DEFINE life == [id |-> pointer, state |-> docs[pointer].state, runs |-> docs[pointer].runs]
             c == [Idle EXCEPT !.pc = "select", !.op = op, !.life = life]
  <2>2. pointer \in minted /\ docs[pointer] \in Doc /\ UNCHANGED minted
    BY <1>3 DEF RequireCurrentLifetime, IInv, Typed, CInv
  <2>3. life \in Life /\ life.id = pointer /\ life.state = docs[pointer].state
    BY <2>2 DEF Life, Doc, CInv
  <2>4. Step(p, c)
    BY <2>1
  <2> HIDE DEF life
  <2>5. c \in Cmd /\ c.pc = "select" /\ c.life = life
    BY <2>3, IdleKnows DEF Cmd, Operations
  <2> HIDE DEF c
  <2>6. Minted(c, minted') /\ UpToDate(c, docs', tmp')
    BY <1>1, <2>2, <2>3, <2>5 DEF Minted, UpToDate
  <2>7. /\ minted \subseteq minted' /\ minted' \subseteq Lifetimes
        /\ pointer' # None => pointer' \in minted'
        /\ tmp'["current"] # None => tmp'["current"] \in minted'
        /\ \A l \in Lifetimes \ minted' : docs'[l].state # "replaced"
    BY <1>1, <2>2 DEF CInv
  <2> QED  BY <1>1, <2>4, <2>5, <2>6, <2>7, StepCloses
<1> QED  BY <1>2, <1>3

LEMMA AppendCloses ==
  ASSUME IInv, CInv, NEW p \in Procs, AppendRun(p), ~Refuses(cmd[p].life)
  PROVE  CInv'
<1> DEFINE more == [cmd[p] EXCEPT !.life.runs = Append(@, cmd[p].run)]
           c == ReplacePrevious(more)
<1>1. cmd[p].pc = "append" /\ UNCHANGED <<docs, pointer, tmp, minted, alone>> /\ Step(p, c)
  BY DEF AppendRun, At, store, history
<1>2. more \in Cmd /\ more.pc = "append" /\ more.todo # <<>> /\ more.life.id \in Lifetimes
      /\ more.life.runs # <<>> /\ Knows(more, docs, traces)
  BY <1>1, AppendedKnows
<1>3. more.life.id = cmd[p].life.id /\ more.life.state = "current"
  BY CmdOf DEF Cmd, Life, Refuses
<1> HIDE DEF more
<1>4. c \in Cmd
  BY <1>2, ReplaceKnows
<1>5. \/ /\ c.pc = "write" /\ c.writing = "own" /\ c.life = more.life
      \/ /\ c.pc = "write" /\ c.writing = "previous" /\ c.life = more.life
         /\ c.previous.id = pointer /\ pointer \notin {None, more.life.id}
         /\ docs[pointer].state = "current"
  <2>1. CASE Replaces(more.life)
    <3> DEFINE previous == [id |-> pointer, state |-> "replaced", runs |-> docs[pointer].runs]
    <3>1. c = [[more EXCEPT !.previous = previous] EXCEPT !.pc = "write", !.writing = "previous"]
      BY <2>1 DEF ReplacePrevious, Writing
    <3>2. previous.id = pointer
      OBVIOUS
    <3> HIDE DEF previous
    <3> QED  BY <1>2, <2>1, <3>1, <3>2 DEF Cmd, Replaces
  <2>2. CASE ~Replaces(more.life)
    BY <1>2, <2>2 DEF ReplacePrevious, Writing, Cmd
  <2> QED  BY <2>1, <2>2
<1> HIDE DEF c
<1>6. Minted(c, minted')
  BY <1>1, <1>3, <1>5 DEF CInv, Minted
<1>7. alone' => UpToDate(c, docs', tmp')
  <2>1. alone => (docs[cmd[p].life.id].state = "replaced" => cmd[p].life.state = "replaced")
    BY <1>1 DEF CInv, UpToDate
  <2>2. cmd[p].life.state = "current"
    BY DEF Refuses
  <2> QED  BY <1>1, <1>3, <1>5, <2>1, <2>2 DEF UpToDate
<1>8. alone' => alone /\ \A q \in Procs : Busy(q) => q = p
  BY <1>1 DEF CInv, Busy
<1> QED  BY <1>1, <1>4, <1>6, <1>7, <1>8, StepCloses DEF CInv

LEMMA TemporaryCloses ==
  ASSUME IInv, CInv, NEW p \in Procs, WriteTemporary(p)
  PROVE  CInv'
<1> DEFINE c == [cmd[p] EXCEPT !.pc = "place"]
<1>1. cmd[p].pc = "write" /\ Step(p, c) /\ UNCHANGED <<docs, pointer, minted, alone>>
      /\ tmp' = [tmp EXCEPT ![Path(cmd[p])] = Content(cmd[p])]
  BY DEF WriteTemporary, At, history
<1>2. cmd[p] \in Cmd /\ Knows(cmd[p], docs, traces)
  BY CmdOf
<1>3. c \in Cmd /\ c.pc = "place" /\ c.life = cmd[p].life
      /\ c.previous = cmd[p].previous /\ c.writing = cmd[p].writing
  BY <1>2 DEF Cmd
<1> HIDE DEF c
<1>4. Path(c) = Path(cmd[p]) /\ Content(c) = Content(cmd[p])
  BY <1>3 DEF Path, Content
<1>5. Path(cmd[p]) \in Lifetimes \cup {"current"}
  BY <1>1, <1>2 DEF Path, Knows, Cmd
<1>6. tmp'[Path(c)] = Content(c)
  BY <1>1, <1>4, <1>5 DEF IInv, Typed
<1>7. tmp'["current"] # None => tmp'["current"] \in minted
  <2>1. CASE cmd[p].writing = "pointer"
    BY <1>1, <2>1 DEF IInv, Typed, CInv, Minted, Path, Content
  <2>2. CASE cmd[p].writing # "pointer"
    <3>1. Path(cmd[p]) # "current"
      BY <1>1, <1>2, <2>2, IdAssumption DEF Path, Knows, Cmd
    <3> QED  BY <1>1, <3>1 DEF IInv, Typed, CInv
  <2> QED  BY <2>1, <2>2
<1>8. Minted(c, minted')
  BY <1>1, <1>3 DEF CInv, Minted
<1>9. alone' => UpToDate(c, docs', tmp')
  <2>1. alone => UpToDate(cmd[p], docs, tmp)
    BY DEF CInv
  <2> QED  BY <1>1, <1>3, <1>6, <2>1 DEF UpToDate
<1>10. alone' => alone /\ \A q \in Procs : Busy(q) => q = p
  BY <1>1 DEF CInv, Busy
<1> QED  BY <1>1, <1>3, <1>7, <1>8, <1>9, <1>10, StepCloses DEF CInv

(* What a rename does to the documents and the pointer.                    *)
LEMMA PlaceIs ==
  ASSUME IInv, CInv, NEW p \in Procs, Place(p)
  PROVE  /\ cmd[p].pc = "place" /\ UNCHANGED <<minted, alone>> /\ Step(p, Placed(cmd[p]))
         /\ \A l \in Lifetimes : docs'[l] = IF l = Path(cmd[p]) THEN tmp[l] ELSE docs[l]
         /\ pointer' = (IF Path(cmd[p]) = "current" THEN tmp["current"] ELSE pointer)
         /\ tmp'["current"] # None => tmp'["current"] = tmp["current"]
         /\ tmp[Path(cmd[p])] # None
         /\ cmd[p].writing = "previous" => Path(cmd[p]) = cmd[p].previous.id
         /\ cmd[p].writing = "own" => Path(cmd[p]) = cmd[p].life.id
         /\ cmd[p].writing = "pointer" => Path(cmd[p]) = "current"
         /\ Path(cmd[p]) \in minted \cup {"current"}
         /\ cmd[p].writing # "pointer" => Path(cmd[p]) # "current"
<1>1. cmd[p].pc = "place" /\ UNCHANGED <<minted, alone>> /\ Step(p, Placed(cmd[p]))
      /\ tmp[Path(cmd[p])] # None
      /\ tmp' = [tmp EXCEPT ![Path(cmd[p])] = None]
      /\ docs' = (IF Path(cmd[p]) = "current" THEN docs
                  ELSE [docs EXCEPT ![Path(cmd[p])] = tmp[Path(cmd[p])]])
      /\ pointer' = (IF Path(cmd[p]) = "current" THEN tmp[Path(cmd[p])] ELSE pointer)
  BY DEF Place, At, history
<1>2. cmd[p] \in Cmd /\ Knows(cmd[p], docs, traces) /\ Minted(cmd[p], minted)
  BY CmdOf DEF CInv
<1>3. /\ cmd[p].writing = "previous" => Path(cmd[p]) = cmd[p].previous.id
      /\ cmd[p].writing = "own" => Path(cmd[p]) = cmd[p].life.id
      /\ cmd[p].writing = "pointer" => Path(cmd[p]) = "current"
  BY DEF Path
<1>4. cmd[p].writing \in {"previous", "own", "pointer"}
  BY <1>1, <1>2 DEF Knows, Cmd
<1>5. /\ cmd[p].writing = "previous" => Path(cmd[p]) \in minted
      /\ cmd[p].writing = "own" => Path(cmd[p]) \in minted
  BY <1>1, <1>2, <1>3 DEF Minted
<1>6. minted \subseteq Lifetimes /\ "current" \notin minted
  BY IdAssumption DEF CInv
<1>7. \A l \in Lifetimes : docs'[l] = IF l = Path(cmd[p]) THEN tmp[l] ELSE docs[l]
  BY <1>1, IdAssumption DEF IInv, Typed
<1>8. tmp'["current"] # None => tmp'["current"] = tmp["current"]
  BY <1>1 DEF IInv, Typed
<1> QED  BY <1>1, <1>3, <1>4, <1>5, <1>6, <1>7, <1>8

LEMMA PlaceCloses ==
  ASSUME IInv, CInv, NEW p \in Procs, Place(p)
  PROVE  /\ CInv'
         /\ alone => \A l \in Lifetimes : docs[l].state = "replaced" => docs'[l] = docs[l]
<1> DEFINE c == Placed(cmd[p])
           path == Path(cmd[p])
<1>1. /\ cmd[p].pc = "place" /\ UNCHANGED <<minted, alone>> /\ Step(p, c)
      /\ \A l \in Lifetimes : docs'[l] = IF l = path THEN tmp[l] ELSE docs[l]
      /\ pointer' = (IF path = "current" THEN tmp["current"] ELSE pointer)
      /\ tmp'["current"] # None => tmp'["current"] = tmp["current"]
      /\ tmp[path] # None /\ path \in minted \cup {"current"}
  BY PlaceIs
<1>2. /\ cmd[p].writing = "previous" => path = cmd[p].previous.id
      /\ cmd[p].writing = "own" => path = cmd[p].life.id
      /\ cmd[p].writing = "pointer" => path = "current"
      /\ cmd[p].writing # "pointer" => path # "current"
  BY PlaceIs
<1>3. cmd[p] \in Cmd /\ Knows(cmd[p], docs, traces) /\ Minted(cmd[p], minted)
      /\ cmd[p].writing \in {"previous", "own", "pointer"}
      /\ cmd[p].life.id \in Lifetimes
  BY <1>1, CmdOf DEF CInv, Knows, Cmd
<1>4. c \in Cmd /\ \/ c.pc = "idle"
                   \/ c.pc = "graph" /\ c.life = cmd[p].life
                   \/ /\ cmd[p].writing = "previous" /\ c.pc = "write" /\ c.writing = "own"
                      /\ c.life = cmd[p].life
                   \/ /\ cmd[p].writing = "own" /\ c.pc = "write" /\ c.writing = "pointer"
                      /\ c.life = cmd[p].life
  <2>1. CASE cmd[p].writing = "pointer"
    <3>1. c = Left(cmd[p])
      BY <2>1 DEF Placed
    <3> QED  BY <1>1, <1>3, <3>1, LeftIs, IdleAtEase
  <2>2. CASE cmd[p].writing = "own"
    <3>1. c = [cmd[p] EXCEPT !.pc = "write", !.writing = "pointer"]
      BY <2>2 DEF Placed, Writing
    <3> QED  BY <1>3, <2>2, <3>1 DEF Cmd
  <2>3. CASE cmd[p].writing = "previous"
    <3>1. c = [cmd[p] EXCEPT !.pc = "write", !.writing = "own"]
      BY <2>3 DEF Placed, Writing
    <3> QED  BY <1>3, <2>3, <3>1 DEF Cmd
  <2> QED  BY <1>3, <2>1, <2>2, <2>3
<1> HIDE DEF c, path
<1>5. Minted(c, minted')
  BY <1>1, <1>3, <1>4 DEF Minted
<1>6. ASSUME alone
      PROVE  /\ path \in Lifetimes => docs[path].state # "replaced"
             /\ docs'[cmd[p].life.id].state # "replaced"
  <2>1. UpToDate(cmd[p], docs, tmp) /\ cmd[p].life.state = "current"
    BY <1>1, <1>3, <1>6 DEF CInv, Minted
  <2>2. docs[cmd[p].life.id].state # "replaced"
    BY <1>1, <2>1 DEF UpToDate
  <2>3. CASE cmd[p].writing = "previous"
    <3>1. docs[path].state # "replaced" /\ path # cmd[p].life.id
      BY <1>1, <1>2, <1>3, <2>1, <2>3 DEF UpToDate, Minted
    <3> QED  BY <1>1, <1>3, <2>2, <3>1
  <2>4. CASE cmd[p].writing = "own"
    <3>1. tmp[path] = Document(cmd[p].life)
      BY <1>1, <2>1, <2>4 DEF UpToDate, Content, path
    <3>2. tmp[path].state = "current"
      BY <2>1, <3>1 DEF Document
    <3> QED  BY <1>1, <1>2, <1>3, <2>2, <2>4, <3>2
  <2>5. CASE cmd[p].writing = "pointer"
    BY <1>1, <1>2, <1>3, <2>2, <2>5, IdAssumption
  <2> QED  BY <1>3, <2>3, <2>4, <2>5
<1>7. alone' => UpToDate(c, docs', tmp')
  BY <1>1, <1>4, <1>6 DEF UpToDate
<1>8. alone' => alone /\ \A q \in Procs : Busy(q) => q = p
  BY <1>1 DEF CInv, Busy
<1>9. \A l \in Lifetimes \ minted : docs'[l].state # "replaced"
  BY <1>1, IdAssumption DEF CInv
<1>10. pointer' # None => pointer' \in minted'
  BY <1>1 DEF CInv
<1>11. CInv'
  BY <1>1, <1>4, <1>5, <1>7, <1>8, <1>9, <1>10, StepCloses DEF CInv
<1> QED  BY <1>1, <1>6, <1>11

LEMMA StepClosesHistory ==
  ASSUME IInv, CInv, [Next]_vars
  PROVE  /\ CInv'
         /\ alone' => \A l \in Lifetimes : docs[l].state = "replaced" => docs'[l] = docs[l]
<1>1. ASSUME NEW p \in Procs, Command(p), ~Place(p)  PROVE CInv' /\ UNCHANGED docs
  <2>1. CASE Deploy(p) \/ RequireCurrentLifetime(p)
    BY <2>1, BeginningCloses DEF Deploy, RequireCurrentLifetime, store
  <2>2. CASE AppendRun(p) /\ ~Refuses(cmd[p].life)
    BY <2>2, AppendCloses DEF AppendRun, store
  <2>3. CASE WriteTemporary(p)
    BY <2>3, TemporaryCloses DEF WriteTemporary
  <2>4. CASE \/ Select(p) \/ WriteGraph(p) \/ WriteGraphFails(p)
             \/ RunSucceeds(p) \/ RunFails(p) \/ RunFailsDirty(p)
             \/ WriteTrace(p) \/ WriteTraceFails(p) \/ AppendRunFails(p)
             \/ PlaceFails(p) \/ StoreFails(p) \/ Crash(p)
             \/ AppendRun(p) /\ Refuses(cmd[p].life)
    BY <2>4, WorkCloses, WorkGoesOn
  <2> QED  BY <1>1, <2>1, <2>2, <2>3, <2>4 DEF Command
<1>2. ASSUME NEW p \in Procs, Place(p)
      PROVE  /\ CInv'
             /\ alone' => \A l \in Lifetimes : docs[l].state = "replaced" => docs'[l] = docs[l]
  BY <1>2, PlaceCloses, PlaceIs
<1>3. ASSUME UNCHANGED <<docs, pointer, tmp, cmd, minted, alone>>  PROVE CInv'
  BY <1>3 DEF CInv, Busy
<1>4. CASE \E t \in Targets : Edit(t)
  BY <1>3, <1>4 DEF Edit, store
<1>5. CASE UNCHANGED vars
  BY <1>3, <1>5 DEF vars
<1> QED  BY <1>1, <1>2, <1>4, <1>5 DEF Next

LEMMA InitCloses == Init => CInv
<1> SUFFICES ASSUME Init PROVE CInv
  OBVIOUS
<1>1. \A p \in Procs : cmd[p].pc = "idle"
  BY IdleAtEase DEF Init
<1> QED  BY <1>1 DEF Init, CInv, NoDocument, Minted, UpToDate, Busy

(* Nothing writes into history: while commands do not overlap, the         *)
(* document of a lifetime that was replaced never changes again, whatever  *)
(* died between the document, its successor's and the pointer              *)
(* (replacePrevious, AppendRun).                                           *)
THEOREM NothingRewritesHistory == Spec => HistoryClosed
<1>1. IInv /\ CInv /\ [Next]_vars
        => [alone' => \A l \in Lifetimes : docs[l].state = "replaced" => docs'[l] = docs[l]]_vars
  BY StepClosesHistory
<1>2. IInv /\ CInv /\ [Next]_vars => CInv'
  BY StepClosesHistory
<1> QED  BY <1>1, <1>2, InitCloses, RecordInvariant, PTL DEF Spec, HistoryClosed

-----------------------------------------------------------------------------
(* The fold tells the truth.  The runs of a lifetime are in the order they *)
(* ran, and those of the deploy that minted it have different targets.     *)
Ascending(runs, h) ==
  /\ \A i \in DOMAIN runs : runs[i] \in DOMAIN h
  /\ \A i, j \in DOMAIN runs : i < j =>
       /\ runs[i] < runs[j]
       /\ h[runs[j]].op = "deploy" => h[runs[i]].targets \cap h[runs[j]].targets = {}
Fresh(runs, h, ts) == \A i \in DOMAIN runs : h[runs[i]].targets \cap ts = {}
Apart(todo) == \A i, j \in DOMAIN todo : i # j => todo[i] \cap todo[j] = {}

(* A command that is done with its scope, and one anywhere.                *)
Behind(c, h) ==
  /\ c.op # "user" /\ (c.policy = "skip" => c.op = "deploy")
  /\ Ascending(c.life.runs, h)
  /\ c.op = "deploy" =>
       Apart(c.todo) /\ \A j \in DOMAIN c.todo : j > 1 => Fresh(c.life.runs, h, c.todo[j])
Remembers(c, h) ==
  /\ Behind(c, h) /\ (c.pc = "select" => c.op # "deploy")
  /\ c.pc \in {"write", "place"} /\ c.writing = "previous" => Ascending(c.previous.runs, h)
  /\ c.pc \in {"graph", "run", "trace", "append"} /\ c.op = "deploy"
       => Fresh(c.life.runs, h, Head(c.todo))
  /\ c.pc \in {"trace", "append"} =>
       /\ c.run \in DOMAIN h /\ h[c.run].op = c.op /\ h[c.run].targets = Head(c.todo)
       /\ \A i \in DOMAIN c.life.runs : c.life.runs[i] < c.run

(* A run left a receipt for what it touched, but a skipped target has one  *)
(* too; what is on the disk is of the last run that touched it.            *)
Accounted(h) ==
  \A n \in DOMAIN h :
    /\ h[n].receipts \subseteq h[n].targets
    /\ \A t \in h[n].receipts \ h[n].touched : h[n].op = "deploy"
    /\ ~h[n].dirty /\ h[n].op # "user" => h[n].touched \subseteq h[n].receipts
OnDisk(h, f) ==
  \A n \in DOMAIN h : \A t \in h[n].touched :
    (~h[n].dirty /\ h[n].op # "user" /\ \A m \in n + 1 .. Len(h) : t \notin h[m].touched)
      => f[t] = Written(h[n].op, t)

HInv ==
  /\ DOMAIN files = Targets /\ Accounted(ran) /\ OnDisk(ran, files)
  /\ \A plan \in whole : plan.op # "user"
  /\ \A l \in Lifetimes : /\ Ascending(docs[l].runs, ran)
                          /\ tmp[l] # None => Ascending(tmp[l].runs, ran)
  /\ \A p \in Procs : Remembers(cmd[p], ran)

LEMMA NoRuns == \A h, ts : Ascending(<<>>, h) /\ Fresh(<<>>, h, ts)
BY DEF Ascending, Fresh

LEMMA IdleRemembers == \A h : Remembers(Idle, h)
<1>1. /\ Idle.pc = "idle" /\ Idle.op = "none" /\ Idle.policy = "none" /\ Idle.life.runs = <<>>
  BY DEF Idle, NoLifetime
<1> QED  BY <1>1, NoRuns DEF Remembers, Behind

(* More history is no news.                                                *)
LEMMA StillRemembers ==
  ASSUME NEW h, NEW h2, DOMAIN h \subseteq DOMAIN h2, \A n \in DOMAIN h : h2[n] = h[n]
  PROVE  /\ \A runs : Ascending(runs, h) => Ascending(runs, h2)
         /\ \A c : Remembers(c, h) => Remembers(c, h2)
<1>1. \A runs : Ascending(runs, h) => Ascending(runs, h2)
  BY DEF Ascending
<1>2. \A runs, ts : Ascending(runs, h) /\ Fresh(runs, h, ts) => Fresh(runs, h2, ts)
  BY DEF Ascending, Fresh
<1>3. \A c : Behind(c, h) => Behind(c, h2)
  BY <1>1, <1>2 DEF Behind
<1>4. ASSUME NEW c, Remembers(c, h)  PROVE Remembers(c, h2)
  <2>1. Behind(c, h) /\ Behind(c, h2) /\ Ascending(c.life.runs, h)
    BY <1>3, <1>4 DEF Remembers, Behind
  <2> QED  BY <1>1, <1>2, <1>4, <2>1 DEF Remembers
<1> QED  BY <1>1, <1>4

LEMMA TailIs ==
  ASSUME NEW S, NEW s \in Seq(S), s # <<>>, Len(s) # 1
  PROVE  /\ Len(s) \in Nat /\ Len(s) >= 2 /\ DOMAIN s = 1 .. Len(s)
         /\ DOMAIN Tail(s) = 1 .. Len(s) - 1
         /\ \A i \in 1 .. Len(s) - 1 : Tail(s)[i] = s[i + 1]
         /\ Head(Tail(s)) = s[2]
<1>1. Len(s) \in Nat /\ Len(s) >= 2 /\ DOMAIN s = 1 .. Len(s)
  <2>1. Len(s) \in Nat /\ DOMAIN s = 1 .. Len(s)
    OBVIOUS
  <2>2. Len(s) # 0
    OBVIOUS
  <2> QED  BY <2>1, <2>2
<1>2. Tail(s) \in Seq(S) /\ Len(Tail(s)) = Len(s) - 1
      /\ \A i \in 1 .. Len(s) - 1 : Tail(s)[i] = s[i + 1]
  BY <1>1
<1>3. Head(Tail(s)) = Tail(s)[1]
  BY <1>1, <1>2
<1> QED  BY <1>1, <1>2, <1>3

LEMMA LeftRemembers ==
  ASSUME NEW c \in Cmd, NEW documents, NEW known, Knows(c, documents, known),
         c.pc \notin {"idle", "select"}, NEW h, Behind(c, h)
  PROVE  Remembers(Left(c), h)
<1>1. CASE Left(c) = Idle
  BY <1>1, IdleRemembers
<1>2. CASE Left(c) # Idle
  <2> DEFINE d == Left(c)
             todo == c.todo
  <2>1. /\ d.pc = "graph" /\ d.op = c.op /\ d.life = c.life /\ d.policy = c.policy
        /\ d.todo = Tail(todo) /\ Len(todo) # 1
    BY <1>2, LeftIs
  <2>2. todo \in Seq(SUBSET Targets) /\ todo # <<>>
    BY DEF Knows, Cmd
  <2>3. /\ Len(todo) \in Nat /\ Len(todo) >= 2 /\ DOMAIN todo = 1 .. Len(todo)
        /\ DOMAIN Tail(todo) = 1 .. Len(todo) - 1
        /\ \A i \in 1 .. Len(todo) - 1 : Tail(todo)[i] = todo[i + 1]
        /\ Head(Tail(todo)) = todo[2]
    BY <2>1, <2>2, TailIs
  <2> HIDE DEF d
  <2>4. c.op = "deploy" => Apart(Tail(todo))
    <3> SUFFICES ASSUME c.op = "deploy", NEW i \in DOMAIN Tail(todo), NEW j \in DOMAIN Tail(todo), i # j
                 PROVE  Tail(todo)[i] \cap Tail(todo)[j] = {}
      BY DEF Apart
    <3>1. i + 1 \in DOMAIN todo /\ j + 1 \in DOMAIN todo /\ i + 1 # j + 1
      BY <2>3
    <3>2. todo[i + 1] \cap todo[j + 1] = {}
      BY <3>1 DEF Behind, Apart
    <3> QED  BY <2>3, <3>2
  <2>5. c.op = "deploy" => \A j \in DOMAIN Tail(todo) : Fresh(c.life.runs, h, Tail(todo)[j])
    <3> SUFFICES ASSUME c.op = "deploy", NEW j \in DOMAIN Tail(todo)
                 PROVE  Fresh(c.life.runs, h, Tail(todo)[j])
      OBVIOUS
    <3>1. j + 1 \in DOMAIN todo /\ j + 1 > 1 /\ Tail(todo)[j] = todo[j + 1]
      BY <2>3
    <3> QED  BY <3>1 DEF Behind
  <2>6. c.op = "deploy" => Fresh(c.life.runs, h, Head(Tail(todo)))
    <3>1. 1 \in DOMAIN Tail(todo) /\ Tail(todo)[1] = Head(Tail(todo))
      BY <2>3
    <3> QED  BY <2>5, <3>1
  <2>7. Remembers(d, h)
    BY <2>1, <2>4, <2>5, <2>6 DEF Remembers, Behind
  <2> QED  BY <2>7 DEF d
<1> QED  BY <1>1, <1>2

LEMMA PairIs ==
  ASSUME NEW a, NEW b
  PROVE  /\ DOMAIN (<<a>> \o <<b>>) = 1 .. 2
         /\ (<<a>> \o <<b>>)[1] = a /\ (<<a>> \o <<b>>)[2] = b
<1>1. <<a>> \in Seq({a, b}) /\ <<b>> \in Seq({a, b}) /\ Len(<<a>>) = 1 /\ Len(<<b>>) = 1
  OBVIOUS
<1> QED  BY <1>1

LEMMA ScopesApart ==
  ASSUME NEW ts \in SUBSET Targets
  PROVE  Apart(Scopes(ts))
<1> DEFINE A == ts \cap System
           B == ts \ System
<1>1. A \cap B = {}
  OBVIOUS
<1> HIDE DEF A, B
<1>2. CASE A = {} /\ B = {}
  <2>1. Graph(A) \o Graph(B) = <<>>
    BY <1>2 DEF Graph
  <2> QED  BY <2>1 DEF Scopes, Apart, A, B
<1>3. CASE A = {} /\ B # {}
  <2>1. Graph(A) \o Graph(B) = <<B>>
    BY <1>3 DEF Graph
  <2>2. Apart(<<B>>)
    BY DEF Apart
  <2> QED  BY <2>1, <2>2 DEF Scopes, A, B
<1>4. CASE A # {} /\ B = {}
  <2>1. Graph(A) \o Graph(B) = <<A>>
    BY <1>4 DEF Graph
  <2>2. Apart(<<A>>)
    BY DEF Apart
  <2> QED  BY <2>1, <2>2 DEF Scopes, A, B
<1>5. CASE A # {} /\ B # {}
  <2>1. Graph(A) \o Graph(B) = <<A>> \o <<B>>
    BY <1>5 DEF Graph
  <2>2. Apart(<<A>> \o <<B>>)
    <3> DEFINE both == <<A>> \o <<B>>
    <3>1. DOMAIN both = {1, 2} /\ both[1] = A /\ both[2] = B
      BY PairIs
    <3> HIDE DEF both
    <3>2. Apart(both)
      BY <1>1, <3>1 DEF Apart
    <3> QED  BY <3>2 DEF both
  <2> QED  BY <2>1, <2>2 DEF Scopes, A, B
<1> QED  BY <1>2, <1>3, <1>4, <1>5

(* A step of one process, as history and the other ones see it.            *)
LEMMA StepTells ==
  ASSUME IInv, HInv, NEW p \in Procs, NEW c, Step(p, c), Remembers(c, ran'),
         DOMAIN ran \subseteq DOMAIN ran', \A n \in DOMAIN ran : ran'[n] = ran[n],
         DOMAIN files' = Targets, Accounted(ran'), OnDisk(ran', files'),
         \A plan \in whole' : plan.op # "user",
         \A l \in Lifetimes : /\ Ascending(docs'[l].runs, ran')
                              /\ tmp'[l] # None => Ascending(tmp'[l].runs, ran')
  PROVE  HInv'
<1>1. cmd'[p] = c /\ \A q \in Procs : q # p => cmd'[q] = cmd[q]
  BY DEF Step, IInv, Typed
<1>2. \A q \in Procs : Remembers(cmd'[q], ran')
  <2>1. \A q \in Procs : Remembers(cmd[q], ran')
    BY StillRemembers DEF HInv
  <2> QED  BY <1>1, <2>1
<1> QED  BY <1>2 DEF HInv

LEMMA QuietTells ==
  ASSUME IInv, HInv, NEW p \in Procs, NEW c, Step(p, c), Remembers(c, ran),
         UNCHANGED <<ran, files, docs, tmp>>, \A plan \in whole' : plan.op # "user"
  PROVE  HInv'
<1>1. \A l \in Lifetimes : /\ Ascending(docs'[l].runs, ran')
                           /\ tmp'[l] # None => Ascending(tmp'[l].runs, ran')
  BY DEF HInv
<1>2. Remembers(c, ran') /\ Accounted(ran') /\ OnDisk(ran', files') /\ DOMAIN files' = Targets
  BY DEF HInv
<1> QED  BY <1>1, <1>2, StepTells

LEMMA BeginningTells ==
  ASSUME IInv, HInv, NEW p \in Procs, Deploy(p) \/ RequireCurrentLifetime(p) \/ Select(p)
  PROVE  HInv'
<1>1. UNCHANGED <<ran, files, docs, tmp>> /\ \A plan \in whole' : plan.op # "user"
  BY DEF Deploy, RequireCurrentLifetime, Select, store, history, HInv
<1>2. CASE Deploy(p)
  <2>1. PICK ts \in (SUBSET Targets) \ {{}}, policy \in Policies, l \in Lifetimes :
          Step(p, [Idle EXCEPT !.pc = "graph", !.op = "deploy", !.policy = policy,
                     !.life = [id |-> l, state |-> "current", runs |-> <<>>],
                     !.todo = Scopes(ts)])
    BY <1>2 DEF Deploy
  <2> DEFINE life == [id |-> l, state |-> "current", runs |-> <<>>]
             c == [Idle EXCEPT !.pc = "graph", !.op = "deploy", !.policy = policy,
                     !.life = life, !.todo = Scopes(ts)]
  <2>2. life.runs = <<>>
    OBVIOUS
  <2>3. Step(p, c)
    BY <2>1
  <2> HIDE DEF life
  <2>4. c.pc = "graph" /\ c.op = "deploy" /\ c.life = life /\ c.todo = Scopes(ts)
    BY DEF Idle
  <2> HIDE DEF c
  <2>5. Remembers(c, ran)
    BY <2>2, <2>4, NoRuns, ScopesApart DEF Remembers, Behind
  <2> QED  BY <1>1, <2>3, <2>5, QuietTells
<1>3. CASE RequireCurrentLifetime(p)
  <2>1. PICK op \in {"upgrade", "adopt", "decommission"} :
          Step(p, [Idle EXCEPT !.pc = "select", !.op = op,
                     !.life = [id |-> pointer, state |-> docs[pointer].state,
                               runs |-> docs[pointer].runs]])
    BY <1>3 DEF RequireCurrentLifetime
  <2> DEFINE life == [id |-> pointer, state |-> docs[pointer].state, runs |-> docs[pointer].runs]
             c == [Idle EXCEPT !.pc = "select", !.op = op, !.life = life]
  <2>2. pointer \in Lifetimes /\ life.runs = docs[pointer].runs
    BY <1>3 DEF RequireCurrentLifetime, IInv, Typed
  <2>3. Step(p, c)
    BY <2>1
  <2> HIDE DEF life
  <2>4. c.pc = "select" /\ c.op = op /\ c.policy = "none" /\ c.life = life
    BY DEF Idle
  <2> HIDE DEF c
  <2>5. Remembers(c, ran)
    BY <2>2, <2>4 DEF HInv, Remembers, Behind
  <2> QED  BY <1>1, <2>3, <2>5, QuietTells
<1>4. CASE Select(p)
  <2>1. PICK ts \in SUBSET Targets :
          Step(p, IF ts = {} THEN Idle
                  ELSE [cmd[p] EXCEPT !.pc = "graph", !.todo = Scopes(ts),
                                      !.claim = [t \in Targets |-> Kind(Record[t])]])
    BY <1>4 DEF Select, Selectable
  <2>2. CASE ts = {}
    BY <1>1, <2>1, <2>2, IdleRemembers, QuietTells
  <2>3. CASE ts # {}
    <3> DEFINE claim == [t \in Targets |-> Kind(Record[t])]
               c == [cmd[p] EXCEPT !.pc = "graph", !.todo = Scopes(ts), !.claim = claim]
    <3>1. Step(p, c)
      BY <2>1, <2>3
    <3> HIDE DEF claim
    <3>2. /\ c.pc = "graph" /\ c.op = cmd[p].op /\ c.policy = cmd[p].policy
          /\ c.life = cmd[p].life
      BY CmdOf DEF Cmd
    <3> HIDE DEF c
    <3>3. Remembers(cmd[p], ran) /\ cmd[p].op # "deploy"
      BY <1>4 DEF HInv, Select, At, Remembers
    <3>4. Remembers(c, ran)
      BY <3>2, <3>3 DEF Remembers, Behind
    <3> QED  BY <1>1, <3>1, <3>4, QuietTells
  <2> QED  BY <2>2, <2>3
<1> QED  BY <1>2, <1>3, <1>4

LEMMA GraphTells ==
  ASSUME IInv, HInv, NEW p \in Procs, WriteGraph(p) \/ WriteGraphFails(p)
  PROVE  HInv'
<1>1. cmd[p] \in Cmd /\ Knows(cmd[p], docs, traces) /\ cmd[p].pc = "graph"
      /\ Remembers(cmd[p], ran) /\ UNCHANGED <<ran, files, docs, tmp>>
  BY CmdOf DEF WriteGraph, WriteGraphFails, At, history, HInv
<1>2. \A plan \in whole' : plan.op # "user"
  BY <1>1 DEF WriteGraph, WriteGraphFails, HInv, Plan, Remembers, Behind
<1>3. CASE WriteGraph(p)
  <2> DEFINE c == [cmd[p] EXCEPT !.pc = "run"]
  <2>1. /\ c.pc = "run" /\ c.op = cmd[p].op /\ c.policy = cmd[p].policy
        /\ c.life = cmd[p].life /\ c.todo = cmd[p].todo
    BY <1>1 DEF Cmd
  <2>2. Step(p, c)
    BY <1>3 DEF WriteGraph
  <2> HIDE DEF c
  <2>3. Remembers(c, ran)
    BY <1>1, <2>1 DEF Remembers, Behind
  <2> QED  BY <1>1, <1>2, <2>2, <2>3, QuietTells
<1>4. CASE WriteGraphFails(p)
  <2> DEFINE c == [cmd[p] EXCEPT !.failed = TRUE]
  <2>1. /\ c \in Cmd /\ c.pc = "graph" /\ c.op = cmd[p].op /\ c.policy = cmd[p].policy
        /\ c.life = cmd[p].life /\ c.todo = cmd[p].todo
    BY <1>1 DEF Cmd
  <2>2. Step(p, Left(c)) \/ Step(p, Idle)
    BY <1>4 DEF WriteGraphFails
  <2> HIDE DEF c
  <2>3. Behind(c, ran) /\ Knows(c, docs, traces)
    BY <1>1, <2>1 DEF Remembers, Behind, Knows
  <2>4. Remembers(Left(c), ran) /\ Remembers(Idle, ran)
    BY <2>1, <2>3, LeftRemembers, IdleRemembers
  <2> QED  BY <1>1, <1>2, <2>2, <2>4, QuietTells
<1> QED  BY <1>3, <1>4

LEMMA TraceTells ==
  ASSUME IInv, HInv, NEW p \in Procs,
         WriteTrace(p) \/ WriteTraceFails(p) \/ PlaceFails(p) \/ StoreFails(p)
  PROVE  HInv'
<1>1. cmd[p] \in Cmd /\ Knows(cmd[p], docs, traces) /\ cmd[p].pc \in {"trace", "write", "place"}
      /\ Remembers(cmd[p], ran) /\ UNCHANGED <<ran, files, docs, tmp, whole>>
  BY CmdOf DEF WriteTrace, WriteTraceFails, PlaceFails, StoreFails, At, store, history, HInv
<1>2. \A plan \in whole' : plan.op # "user"
  BY <1>1 DEF HInv
<1>3. CASE WriteTrace(p)
  <2> DEFINE c == [cmd[p] EXCEPT !.pc = "append"]
  <2>1. /\ c.pc = "append" /\ c.op = cmd[p].op /\ c.policy = cmd[p].policy
        /\ c.life = cmd[p].life /\ c.todo = cmd[p].todo /\ c.run = cmd[p].run
    BY <1>1 DEF Cmd
  <2>2. Step(p, c) /\ cmd[p].pc = "trace"
    BY <1>3 DEF WriteTrace, At
  <2> HIDE DEF c
  <2>3. Remembers(c, ran)
    BY <1>1, <2>1, <2>2 DEF Remembers, Behind
  <2> QED  BY <1>1, <1>2, <2>2, <2>3, QuietTells
<1>4. CASE WriteTraceFails(p) \/ PlaceFails(p) \/ StoreFails(p)
  <2>1. Step(p, Left(cmd[p]))
    BY <1>4 DEF WriteTraceFails, Unrecorded, PlaceFails, StoreFails
  <2>2. Remembers(Left(cmd[p]), ran)
    BY <1>1, LeftRemembers DEF Remembers
  <2> QED  BY <1>1, <1>2, <2>1, <2>2, QuietTells
<1> QED  BY <1>3, <1>4

(* The run a command appends is younger than those of its lifetime, and if *)
(* it is a deploy's none of them is of its targets.                        *)
LEMMA AppendedIsBehind ==
  ASSUME IInv, HInv, NEW p \in Procs, cmd[p].pc = "append"
  PROVE  Behind([cmd[p] EXCEPT !.life.runs = Append(@, cmd[p].run)], ran)
<1> DEFINE runs == cmd[p].life.runs
           run == cmd[p].run
           more == Append(runs, run)
           todo == cmd[p].todo
           c == [cmd[p] EXCEPT !.life.runs = Append(@, run)]
<1>1. /\ cmd[p] \in Cmd /\ runs \in Seq(Nat) /\ run \in Nat
      /\ todo \in Seq(SUBSET Targets) /\ todo # <<>>
      /\ Remembers(cmd[p], ran)
  BY CmdOf DEF Cmd, Life, Knows, HInv
<1>2. /\ c.op = cmd[p].op /\ c.policy = cmd[p].policy /\ c.life.runs = more /\ c.todo = todo
  BY <1>1 DEF Cmd, Life
<1> HIDE DEF c
<1>3. /\ Len(runs) \in Nat /\ DOMAIN runs = 1 .. Len(runs)
      /\ DOMAIN more = 1 .. Len(runs) + 1 /\ more[Len(runs) + 1] = run
      /\ \A i \in 1 .. Len(runs) : more[i] = runs[i]
  BY <1>1, AppendProperties
<1>4. /\ run \in DOMAIN ran /\ ran[run].op = cmd[p].op /\ ran[run].targets = Head(todo)
      /\ \A i \in DOMAIN runs : runs[i] < run
      /\ Ascending(runs, ran)
      /\ cmd[p].op = "deploy" => Fresh(runs, ran, Head(todo))
  BY <1>1 DEF Remembers, Behind
<1> HIDE DEF more
<1>5. Ascending(more, ran)
  <2>1. \A i \in DOMAIN more : more[i] \in DOMAIN ran
    BY <1>3, <1>4 DEF Ascending
  <2>2. ASSUME NEW i \in DOMAIN more, NEW j \in DOMAIN more, i < j
        PROVE  /\ more[i] < more[j]
               /\ ran[more[j]].op = "deploy" => ran[more[i]].targets \cap ran[more[j]].targets = {}
    <3>1. i \in DOMAIN runs /\ more[i] = runs[i]
      BY <1>3, <2>2
    <3>2. CASE j \in DOMAIN runs
      BY <1>3, <1>4, <2>2, <3>1, <3>2 DEF Ascending
    <3>3. CASE j \notin DOMAIN runs
      <4>1. j = Len(runs) + 1
        <5>1. j \in 1 .. Len(runs) + 1 /\ j \notin 1 .. Len(runs)
          BY <1>3, <2>2, <3>3
        <5> HIDE DEF runs
        <5> QED  BY <1>3, <5>1
      <4>2. more[j] = run
        BY <1>3, <4>1
      <4> QED  BY <1>4, <3>1, <4>2 DEF Fresh
    <3> QED  BY <3>2, <3>3
  <2> QED  BY <2>1, <2>2 DEF Ascending
<1>6. ASSUME cmd[p].op = "deploy", NEW j \in DOMAIN todo, j > 1
      PROVE  Fresh(more, ran, todo[j])
  <2>1. Fresh(runs, ran, todo[j]) /\ Apart(todo)
    BY <1>1, <1>6 DEF Remembers, Behind
  <2>2. 1 \in DOMAIN todo /\ Head(todo) = todo[1] /\ j # 1
    BY <1>1, <1>6
  <2>3. ran[run].targets \cap todo[j] = {}
    BY <1>4, <2>1, <2>2 DEF Apart
  <2>4. ASSUME NEW i \in DOMAIN more  PROVE ran[more[i]].targets \cap todo[j] = {}
    <3>1. i \in 1 .. Len(runs) \/ i = Len(runs) + 1
      <4>1. i \in 1 .. Len(runs) + 1
        BY <1>3
      <4> HIDE DEF runs
      <4> QED  BY <1>3, <4>1
    <3>2. (i \in DOMAIN runs /\ more[i] = runs[i]) \/ more[i] = run
      BY <1>3, <3>1
    <3> QED  BY <2>1, <2>3, <3>2 DEF Fresh
  <2> QED  BY <2>4 DEF Fresh
<1>7. Behind(c, ran)
  BY <1>1, <1>2, <1>5, <1>6 DEF Remembers, Behind
<1> QED  BY <1>7 DEF c

LEMMA AppendTells ==
  ASSUME IInv, HInv, NEW p \in Procs, AppendRun(p) \/ AppendRunFails(p)
  PROVE  HInv'
<1> DEFINE c == [cmd[p] EXCEPT !.life.runs = Append(@, cmd[p].run)]
<1>1. cmd[p].pc = "append" /\ UNCHANGED <<ran, files, docs, tmp, whole>>
      /\ cmd[p] \in Cmd /\ Knows(cmd[p], docs, traces) /\ Remembers(cmd[p], ran)
  BY CmdOf DEF AppendRun, AppendRunFails, At, store, history, HInv
<1>2. c \in Cmd /\ c.pc = "append" /\ Knows(c, docs, traces) /\ Behind(c, ran)
      /\ c.todo # <<>> /\ c.life.id \in Lifetimes
  BY <1>1, AppendedKnows, AppendedIsBehind
<1>3. \/ Step(p, Left(cmd[p])) \/ Step(p, ReplacePrevious(c)) \/ Step(p, Left(c))
  BY DEF AppendRun, AppendRunFails
<1> HIDE DEF c
<1>4. Remembers(Left(cmd[p]), ran) /\ Remembers(Left(c), ran)
  BY <1>1, <1>2, LeftRemembers DEF Remembers
<1>5. Remembers(ReplacePrevious(c), ran)
  <2>1. CASE Replaces(c.life)
    <3> DEFINE previous == [id |-> pointer, state |-> "replaced", runs |-> docs[pointer].runs]
               d == ReplacePrevious(c)
    <3>1. d = [[c EXCEPT !.previous = previous] EXCEPT !.pc = "write", !.writing = "previous"]
      BY <2>1 DEF ReplacePrevious, Writing
    <3>2. previous.runs = docs[pointer].runs /\ pointer \in Lifetimes
      BY <2>1 DEF Replaces, IInv, Typed
    <3> HIDE DEF previous
    <3>3. /\ d.pc = "write" /\ d.op = c.op /\ d.policy = c.policy /\ d.life = c.life
          /\ d.todo = c.todo /\ d.previous = previous
      BY <1>2, <3>1 DEF Cmd
    <3> HIDE DEF d
    <3>4. Remembers(d, ran)
      BY <1>2, <3>2, <3>3 DEF Remembers, Behind, HInv
    <3> QED  BY <3>4 DEF d
  <2>2. CASE ~Replaces(c.life)
    <3> DEFINE d == ReplacePrevious(c)
    <3>1. /\ d.pc = "write" /\ d.op = c.op /\ d.policy = c.policy /\ d.life = c.life
          /\ d.todo = c.todo /\ d.writing = "own"
      BY <1>2, <2>2 DEF ReplacePrevious, Writing, Cmd
    <3> HIDE DEF d
    <3>2. Remembers(d, ran)
      BY <1>2, <3>1 DEF Remembers, Behind
    <3> QED  BY <3>2 DEF d
  <2> QED  BY <2>1, <2>2
<1>6. \A plan \in whole' : plan.op # "user"
  BY <1>1 DEF HInv
<1> QED  BY <1>1, <1>3, <1>4, <1>5, <1>6, QuietTells

-----------------------------------------------------------------------------
(* What a run, or an edit, adds to history.                                *)
LEMMA EntryAdded ==
  ASSUME IInv, HInv, NEW e \in RunRecord, ran' = Append(ran, e), DOMAIN files' = Targets,
         e.receipts \subseteq e.targets,
         \A t \in e.receipts \ e.touched : e.op = "deploy",
         ~e.dirty /\ e.op # "user" => /\ e.touched \subseteq e.receipts
                                     /\ \A t \in e.touched : files'[t] = Written(e.op, t),
         \A t \in Targets \ e.touched : files'[t] = files[t]
  PROVE  /\ Len(ran') = Len(ran) + 1 /\ ran'[Len(ran')] = e /\ Len(ran') \in DOMAIN ran'
         /\ DOMAIN ran \subseteq DOMAIN ran' /\ \A n \in DOMAIN ran : ran'[n] = ran[n] /\ n < Len(ran')
         /\ Accounted(ran') /\ OnDisk(ran', files')
         /\ \A l \in Lifetimes : /\ Ascending(docs[l].runs, ran')
                                 /\ tmp[l] # None => Ascending(tmp[l].runs, ran')
<1>1. /\ Len(ran) \in Nat /\ DOMAIN ran = 1 .. Len(ran) /\ Len(ran') = Len(ran) + 1
      /\ DOMAIN ran' = 1 .. Len(ran) + 1 /\ ran'[Len(ran) + 1] = e
      /\ \A n \in 1 .. Len(ran) : ran'[n] = ran[n]
      /\ \A n \in 1 .. Len(ran) : ran[n] \in RunRecord
  BY DEF IInv, Typed
<1>2. Accounted(ran')
  <2> SUFFICES ASSUME NEW n \in DOMAIN ran'
               PROVE  /\ ran'[n].receipts \subseteq ran'[n].targets
                      /\ \A t \in ran'[n].receipts \ ran'[n].touched : ran'[n].op = "deploy"
                      /\ ~ran'[n].dirty /\ ran'[n].op # "user" => ran'[n].touched \subseteq ran'[n].receipts
    BY DEF Accounted
  <2>1. CASE n \in DOMAIN ran
    <3>1. ran'[n] = ran[n]
      BY <1>1, <2>1
    <3> QED  BY <2>1, <3>1 DEF HInv, Accounted
  <2>2. CASE n \notin DOMAIN ran
    <3>1. n = Len(ran) + 1
      BY <1>1, <2>2
    <3>2. ran'[n] = e
      BY <1>1, <3>1
    <3> QED  BY <3>2
  <2> QED  BY <2>1, <2>2
<1>3. OnDisk(ran', files')
  <2> SUFFICES ASSUME NEW n \in DOMAIN ran', NEW t \in ran'[n].touched, ~ran'[n].dirty,
                      ran'[n].op # "user", \A m \in n + 1 .. Len(ran') : t \notin ran'[m].touched
               PROVE  files'[t] = Written(ran'[n].op, t)
    BY DEF OnDisk
  <2>1. CASE n \in DOMAIN ran
    <3>1. ran'[n] = ran[n] /\ n \in 1 .. Len(ran) /\ t \in Targets
      BY <1>1, <2>1 DEF RunRecord
    <3>2. t \notin e.touched
      <4>1. Len(ran) + 1 \in n + 1 .. Len(ran')
        BY <1>1, <3>1
      <4> QED  BY <1>1, <4>1
    <3>3. \A m \in n + 1 .. Len(ran) : t \notin ran[m].touched
      <4>1. \A m \in n + 1 .. Len(ran) : m \in n + 1 .. Len(ran') /\ ran'[m] = ran[m]
        BY <1>1, <3>1
      <4> QED  BY <4>1
    <3>4. files[t] = Written(ran[n].op, t)
      BY <2>1, <3>1, <3>3 DEF HInv, OnDisk
    <3> QED  BY <3>1, <3>2, <3>4
  <2>2. CASE n \notin DOMAIN ran
    <3>1. n = Len(ran) + 1
      BY <1>1, <2>2
    <3>2. ran'[n] = e
      BY <1>1, <3>1
    <3> QED  BY <3>2
  <2> QED  BY <2>1, <2>2
<1>4. DOMAIN ran \subseteq DOMAIN ran' /\ \A n \in DOMAIN ran : ran'[n] = ran[n] /\ n < Len(ran')
  BY <1>1
<1>5. \A l \in Lifetimes : /\ Ascending(docs[l].runs, ran')
                           /\ tmp[l] # None => Ascending(tmp[l].runs, ran')
  BY <1>4, StillRemembers DEF HInv
<1>6. Len(ran') \in DOMAIN ran' /\ ran'[Len(ran')] = e
  BY <1>1
<1> QED  BY <1>1, <1>2, <1>3, <1>4, <1>5, <1>6

(* A run of a scope, whole or any part of it.                              *)
LEMMA RanTells ==
  ASSUME IInv, HInv, NEW p \in Procs, cmd[p].pc = "run",
         NEW receipts \in SUBSET Head(cmd[p].todo), NEW left \in SUBSET Head(cmd[p].todo),
         NEW dirty \in BOOLEAN, Ran(cmd[p], receipts, left, dirty), ~dirty => left = receipts
  PROVE  /\ DOMAIN files' = Targets
         /\ Len(ran') = Len(ran) + 1 /\ Len(ran') \in DOMAIN ran'
         /\ ran'[Len(ran')].op = cmd[p].op /\ ran'[Len(ran')].targets = Head(cmd[p].todo)
         /\ DOMAIN ran \subseteq DOMAIN ran' /\ \A n \in DOMAIN ran : ran'[n] = ran[n] /\ n < Len(ran')
         /\ Accounted(ran') /\ OnDisk(ran', files')
         /\ \A l \in Lifetimes : /\ Ascending(docs[l].runs, ran')
                                 /\ tmp[l] # None => Ascending(tmp[l].runs, ran')
<1> DEFINE touched == {t \in left \cup receipts : Touches(cmd[p], t)}
           e == [op |-> cmd[p].op, targets |-> Head(cmd[p].todo), receipts |-> receipts,
                 touched |-> touched, dirty |-> dirty]
<1>1. /\ cmd[p].todo \in Seq(SUBSET Targets) /\ cmd[p].todo # <<>> /\ cmd[p].op \in Operations
      /\ Remembers(cmd[p], ran)
  BY CmdOf DEF Cmd, Knows, HInv
<1>2. Head(cmd[p].todo) \in SUBSET Targets
  BY <1>1
<1>3. ran' = Append(ran, e) /\ files' = Effect(cmd[p], left)
  BY DEF Ran
<1>4. touched \in SUBSET Targets /\ touched = {t \in left \cup receipts : Touches(cmd[p], t)}
  BY <1>2
<1> HIDE DEF touched
<1>5. /\ e \in RunRecord /\ e.op = cmd[p].op /\ e.targets = Head(cmd[p].todo) /\ e.receipts = receipts
      /\ e.touched = touched /\ e.dirty = dirty
  BY <1>1, <1>2, <1>4 DEF RunRecord
<1> HIDE DEF e
<1>6. ASSUME NEW t \in e.receipts \ e.touched  PROVE e.op = "deploy"
  <2>1. ~Touches(cmd[p], t)
    BY <1>4, <1>5, <1>6
  <2>2. cmd[p].policy = "skip"
    BY <2>1 DEF Touches
  <2> QED  BY <1>1, <1>5, <2>2 DEF Remembers, Behind
<1>7. /\ DOMAIN files' = Targets
      /\ \A t \in Targets \ e.touched : files'[t] = files[t]
      /\ \A t \in e.touched : t \in left => files'[t] = Written(e.op, t)
  BY <1>3, <1>4, <1>5 DEF Effect
<1>8. ~e.dirty => e.touched \subseteq e.receipts /\ e.touched \subseteq left
  BY <1>4, <1>5
<1> QED  BY <1>3, <1>5, <1>6, <1>7, <1>8, EntryAdded

LEMMA RunTells ==
  ASSUME IInv, HInv, NEW p \in Procs, RunSucceeds(p) \/ RunFails(p) \/ RunFailsDirty(p)
  PROVE  HInv'
<1>1. PICK receipts \in SUBSET Head(cmd[p].todo), left \in SUBSET Head(cmd[p].todo),
           dirty \in BOOLEAN, failed \in BOOLEAN :
        RunEnds(p, receipts, left, dirty, failed) /\ (~dirty => left = receipts)
  <2>1. CASE RunSucceeds(p)  BY <2>1 DEF RunSucceeds
  <2>2. CASE RunFails(p)  BY <2>2 DEF RunFails
  <2>3. CASE RunFailsDirty(p)
    <3>1. PICK receipts \in SUBSET Head(cmd[p].todo) :
            \E left \in SUBSET receipts : RunEnds(p, receipts, left, TRUE, TRUE)
      BY <2>3 DEF RunFailsDirty
    <3>2. PICK left \in SUBSET receipts : RunEnds(p, receipts, left, TRUE, TRUE)
      BY <3>1
    <3>3. left \in SUBSET Head(cmd[p].todo)
      OBVIOUS
    <3> QED  BY <3>2, <3>3
  <2> QED  BY <2>1, <2>2, <2>3
<1> DEFINE n == Len(ran')
           c == [cmd[p] EXCEPT !.pc = "trace", !.run = n, !.failed = failed]
<1>2. /\ cmd[p].pc = "run" /\ Ran(cmd[p], receipts, left, dirty) /\ Step(p, c)
      /\ UNCHANGED <<docs, tmp, whole>> /\ cmd[p] \in Cmd /\ Remembers(cmd[p], ran)
  BY <1>1, CmdOf DEF RunEnds, At, store, HInv
<1>3. /\ DOMAIN files' = Targets /\ n \in DOMAIN ran'
      /\ ran'[n].op = cmd[p].op /\ ran'[n].targets = Head(cmd[p].todo)
      /\ DOMAIN ran \subseteq DOMAIN ran' /\ \A m \in DOMAIN ran : ran'[m] = ran[m] /\ m < n
      /\ Accounted(ran') /\ OnDisk(ran', files')
      /\ \A l \in Lifetimes : /\ Ascending(docs[l].runs, ran')
                              /\ tmp[l] # None => Ascending(tmp[l].runs, ran')
  BY <1>1, <1>2, RanTells
<1> HIDE DEF n
<1>4. /\ c.pc = "trace" /\ c.op = cmd[p].op /\ c.policy = cmd[p].policy /\ c.life = cmd[p].life
      /\ c.todo = cmd[p].todo /\ c.run = n
  BY <1>2 DEF Cmd
<1> HIDE DEF c
<1>5. Remembers(cmd[p], ran') /\ Ascending(cmd[p].life.runs, ran)
  BY <1>2, <1>3, StillRemembers DEF Remembers, Behind
<1>6. \A i \in DOMAIN cmd[p].life.runs : cmd[p].life.runs[i] < n
  BY <1>3, <1>5 DEF Ascending
<1>7. Remembers(c, ran')
  BY <1>2, <1>3, <1>4, <1>5, <1>6 DEF Remembers, Behind
<1>8. \A plan \in whole' : plan.op # "user"
  BY <1>2 DEF HInv
<1> QED  BY <1>2, <1>3, <1>7, <1>8, StepTells

LEMMA CrashTells == ASSUME IInv, HInv, NEW p \in Procs, Crash(p) PROVE HInv'
<1>1. Step(p, Idle) /\ UNCHANGED <<docs, tmp, whole>> /\ Remembers(Idle, ran')
  BY IdleRemembers DEF Crash, store
<1>2. \A plan \in whole' : plan.op # "user"
  BY <1>1 DEF HInv
<1>3. CASE cmd[p].pc = "run"
  <2>1. PICK done \in SUBSET Head(cmd[p].todo) : Ran(cmd[p], {}, done, TRUE)
    BY <1>3 DEF Crash, At
  <2>2. {} \in SUBSET Head(cmd[p].todo) /\ TRUE \in BOOLEAN
    OBVIOUS
  <2>3. /\ DOMAIN files' = Targets /\ DOMAIN ran \subseteq DOMAIN ran'
        /\ \A m \in DOMAIN ran : ran'[m] = ran[m]
        /\ Accounted(ran') /\ OnDisk(ran', files')
        /\ \A l \in Lifetimes : /\ Ascending(docs[l].runs, ran')
                                /\ tmp[l] # None => Ascending(tmp[l].runs, ran')
    BY <1>3, <2>1, <2>2, RanTells
  <2> QED  BY <1>1, <1>2, <2>3, StepTells
<1>4. CASE cmd[p].pc # "run"
  <2>1. UNCHANGED <<files, ran>>
    BY <1>4 DEF Crash, At
  <2> QED  BY <1>1, <1>2, <2>1, IdleRemembers, QuietTells
<1> QED  BY <1>3, <1>4

LEMMA EditTells == ASSUME IInv, HInv, NEW t \in Targets, Edit(t) PROVE HInv'
<1> DEFINE e == [op |-> "user", targets |-> {t}, receipts |-> {}, touched |-> {t}, dirty |-> FALSE]
<1>1. /\ e \in RunRecord /\ e.op = "user" /\ e.receipts = {} /\ e.touched = {t}
  BY DEF RunRecord, Operations
<1>2. ran' = Append(ran, e) /\ UNCHANGED <<docs, tmp, cmd, whole>>
  BY DEF Edit, store
<1>3. DOMAIN files' = Targets /\ \A u \in Targets \ {t} : files'[u] = files[u]
  BY DEF Edit, HInv
<1> HIDE DEF e
<1>4. /\ DOMAIN ran \subseteq DOMAIN ran' /\ \A m \in DOMAIN ran : ran'[m] = ran[m]
      /\ Accounted(ran') /\ OnDisk(ran', files')
      /\ \A l \in Lifetimes : /\ Ascending(docs[l].runs, ran')
                              /\ tmp[l] # None => Ascending(tmp[l].runs, ran')
  BY <1>1, <1>2, <1>3, EntryAdded
<1>5. \A p \in Procs : Remembers(cmd[p], ran')
  BY <1>4, StillRemembers DEF HInv
<1> QED  BY <1>2, <1>3, <1>4, <1>5 DEF HInv

-----------------------------------------------------------------------------
LEMMA TemporaryTells == ASSUME IInv, HInv, NEW p \in Procs, WriteTemporary(p) PROVE HInv'
<1> DEFINE c == [cmd[p] EXCEPT !.pc = "place"]
<1>1. cmd[p].pc = "write" /\ Step(p, c) /\ UNCHANGED <<docs, ran, files, whole>>
      /\ tmp' = [tmp EXCEPT ![Path(cmd[p])] = Content(cmd[p])]
  BY DEF WriteTemporary, At, history
<1>2. cmd[p] \in Cmd /\ Knows(cmd[p], docs, traces) /\ Remembers(cmd[p], ran)
  BY CmdOf DEF HInv
<1>3. c.pc = "place" /\ c.life = cmd[p].life /\ c.op = cmd[p].op /\ c.policy = cmd[p].policy
      /\ c.previous = cmd[p].previous /\ c.writing = cmd[p].writing /\ c.todo = cmd[p].todo
  BY <1>2 DEF Cmd
<1> HIDE DEF c
<1>4. Remembers(c, ran')
  BY <1>1, <1>2, <1>3 DEF Remembers, Behind
<1>5. ASSUME NEW l \in Lifetimes, tmp'[l] # None  PROVE Ascending(tmp'[l].runs, ran)
  <2>1. CASE Path(cmd[p]) = l
    <3>1. tmp'[l] = Content(cmd[p])
      BY <1>1, <2>1 DEF IInv, Typed
    <3>2. cmd[p].writing \in {"previous", "own"}
      BY <1>1, <1>2, <2>1, IdAssumption DEF Path, Knows, Cmd
    <3>3. CASE cmd[p].writing = "previous"
      <4>1. tmp'[l].runs = cmd[p].previous.runs
        BY <3>1, <3>3 DEF Content, Document
      <4> QED  BY <1>1, <1>2, <3>3, <4>1 DEF Remembers
    <3>4. CASE cmd[p].writing = "own"
      <4>1. tmp'[l].runs = cmd[p].life.runs
        BY <3>1, <3>4 DEF Content, Document
      <4> QED  BY <1>2, <4>1 DEF Remembers, Behind
    <3> QED  BY <3>2, <3>3, <3>4
  <2>2. CASE Path(cmd[p]) # l
    <3>1. tmp'[l] = tmp[l]
      BY <1>1, <2>2 DEF IInv, Typed
    <3> QED  BY <1>5, <3>1 DEF HInv
  <2> QED  BY <2>1, <2>2
<1>6. /\ DOMAIN files' = Targets /\ Accounted(ran') /\ OnDisk(ran', files')
      /\ \A plan \in whole' : plan.op # "user"
      /\ \A l \in Lifetimes : /\ Ascending(docs'[l].runs, ran')
                              /\ tmp'[l] # None => Ascending(tmp'[l].runs, ran')
  BY <1>1, <1>5 DEF HInv
<1> QED  BY <1>1, <1>4, <1>6, StepTells

LEMMA PlaceTells == ASSUME IInv, HInv, NEW p \in Procs, Place(p) PROVE HInv'
<1> DEFINE path == Path(cmd[p])
           c == Placed(cmd[p])
<1>1. /\ cmd[p].pc = "place" /\ tmp[path] # None /\ tmp' = [tmp EXCEPT ![path] = None]
      /\ docs' = (IF path = "current" THEN docs ELSE [docs EXCEPT ![path] = tmp[path]])
      /\ Step(p, c) /\ UNCHANGED <<ran, files, whole>>
  BY DEF Place, At, history
<1>2. cmd[p] \in Cmd /\ Knows(cmd[p], docs, traces) /\ Remembers(cmd[p], ran)
      /\ cmd[p].writing \in {"previous", "own", "pointer"}
  BY <1>1, CmdOf DEF HInv, Knows, Cmd
<1>3. Remembers(c, ran)
  <2>1. CASE cmd[p].writing = "pointer"
    <3>1. c = Left(cmd[p])
      BY <2>1 DEF Placed
    <3> QED  BY <1>1, <1>2, <3>1, LeftRemembers DEF Remembers
  <2>2. CASE cmd[p].writing \in {"previous", "own"}
    <3>1. /\ c.pc = "write" /\ c.writing # "previous" /\ c.op = cmd[p].op /\ c.policy = cmd[p].policy
          /\ c.life = cmd[p].life /\ c.todo = cmd[p].todo
      BY <1>2, <2>2 DEF Placed, Writing, Cmd
    <3> HIDE DEF c
    <3> QED  BY <1>2, <3>1 DEF Remembers, Behind
  <2> QED  BY <1>2, <2>1, <2>2
<1> HIDE DEF c, path
<1>4. ASSUME NEW l \in Lifetimes
      PROVE  /\ Ascending(docs'[l].runs, ran)
             /\ tmp'[l] # None => Ascending(tmp'[l].runs, ran)
  <2>1. CASE path = l
    <3>1. docs'[l] = tmp[l] /\ tmp'[l] = None /\ tmp[l] # None
      BY <1>1, <2>1, IdAssumption DEF IInv, Typed
    <3> QED  BY <3>1 DEF HInv
  <2>2. CASE path # l
    <3>1. docs'[l] = docs[l] /\ tmp'[l] = tmp[l]
      BY <1>1, <2>2 DEF IInv, Typed
    <3> QED  BY <3>1 DEF HInv
  <2> QED  BY <2>1, <2>2
<1>5. /\ DOMAIN files' = Targets /\ Accounted(ran') /\ OnDisk(ran', files')
      /\ \A plan \in whole' : plan.op # "user"
      /\ \A l \in Lifetimes : /\ Ascending(docs'[l].runs, ran')
                              /\ tmp'[l] # None => Ascending(tmp'[l].runs, ran')
      /\ Remembers(c, ran')
  BY <1>1, <1>3, <1>4 DEF HInv
<1> QED  BY <1>1, <1>5, StepTells

LEMMA NextTells == ASSUME IInv, HInv, [Next]_vars PROVE HInv'
<1>1. ASSUME NEW p \in Procs, Command(p)  PROVE HInv'
  BY <1>1, BeginningTells, GraphTells, RunTells, TraceTells, AppendTells, TemporaryTells,
     PlaceTells, CrashTells DEF Command
<1>2. ASSUME NEW t \in Targets, Edit(t)  PROVE HInv'
  BY <1>2, EditTells
<1>3. CASE UNCHANGED vars
  BY <1>3 DEF vars, HInv
<1> QED  BY <1>1, <1>2, <1>3 DEF Next

LEMMA InitTells == Init => HInv
<1> SUFFICES ASSUME Init PROVE HInv
  OBVIOUS
<1>1. Accounted(ran) /\ OnDisk(ran, files)
  BY DEF Init, Accounted, OnDisk
<1>2. \A p \in Procs : Remembers(cmd[p], ran)
  BY IdleRemembers DEF Init
<1>3. \A l \in Lifetimes : Ascending(docs[l].runs, ran)
  BY NoRuns DEF Init, NoDocument
<1> QED  BY <1>1, <1>2, <1>3 DEF Init, HInv, Blank

(* What the fold counts for a target a run of the lifetime touched last.   *)
LEMMA FoldTells ==
  ASSUME IInv, HInv, NEW n \in DOMAIN ran, NEW t \in Targets, LastTouch(n, t), Vouched(n)
  PROVE  Record[t] = files[t]
<1> DEFINE runs == docs[pointer].runs
           counting == Counting(runs, t)
<1>1. pointer \in Lifetimes /\ Ascending(runs, ran) /\ runs \in Seq(Nat)
  BY DEF Vouched, IInv, Typed, HInv, Doc
<1>2. PICK i \in DOMAIN runs : runs[i] = n
  BY DEF Vouched
<1>3. ~ran[n].dirty /\ Readable(n) /\ t \in ran[n].touched /\ ran[n].op # "user"
  BY DEF Vouched, LastTouch, Readable, HInv
<1>4. t \in ran[n].receipts /\ files[t] = Written(ran[n].op, t)
  BY <1>3 DEF HInv, Accounted, OnDisk, LastTouch
<1>5. i \in counting
  BY <1>2, <1>3, <1>4 DEF Counting, FoldRun
<1>6. ASSUME NEW j \in counting  PROVE j <= i
  <2> SUFFICES ASSUME i < j  PROVE FALSE
    BY <1>1, <1>2, <1>6 DEF Counting
  <2> DEFINE m == runs[j]
  <2>1. j \in DOMAIN runs /\ m \in DOMAIN ran /\ n < m /\ t \in ran[m].receipts
    BY <1>1, <1>2, <1>6 DEF Counting, FoldRun, Ascending
  <2>2. t \notin ran[m].touched
    <3>1. n \in 1 .. Len(ran) /\ m \in 1 .. Len(ran)
      BY <2>1 DEF IInv, Typed
    <3>2. m \in n + 1 .. Len(ran)
      BY <2>1, <3>1
    <3> QED  BY <3>2 DEF LastTouch
  <2>3. ran[m].op = "deploy" /\ t \in ran[m].targets /\ t \in ran[n].targets
    BY <1>4, <2>1, <2>2 DEF HInv, Accounted
  <2>4. ran[n].targets \cap ran[m].targets = {}
    BY <1>1, <1>2, <2>1, <2>3 DEF Ascending
  <2> QED  BY <2>3, <2>4
<1>7. LastOf(counting) = i
  <2>1. counting \subseteq Nat
    BY <1>1 DEF Counting
  <2> HIDE DEF counting
  <2>2. \A k \in counting : (\A j \in counting : j <= k) => k = i
    BY <1>5, <1>6, <2>1
  <2> QED  BY <1>5, <1>6, <2>2 DEF LastOf
<1>8. Record[t] = Written(ran[runs[LastOf(counting)]].op, t)
  BY <1>1, <1>5 DEF Record, Fold, Vouched
<1> QED  BY <1>2, <1>4, <1>7, <1>8

(* The fold tells the truth about a target when the last thing that        *)
(* touched it is a run of the current lifetime that was recorded, did not  *)
(* unwind dirty and can be read, for any number of processes, scopes'      *)
(* targets, lifetimes and edits, however commands overlap and wherever     *)
(* they die (Fold, foldRun, AppendRun, writeAtomically).                   *)
THEOREM RecordTellsTruth == Spec => []RecordTruthful
<1>1. IInv /\ HInv => RecordTruthful
  BY FoldTells DEF RecordTruthful
<1>2. IInv /\ HInv /\ [Next]_vars => HInv'
  BY NextTells
<1> QED  BY <1>1, <1>2, InitTells, RecordInvariant, PTL DEF Spec
=============================================================================
