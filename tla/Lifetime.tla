------------------------------ MODULE Lifetime ------------------------------
(***************************************************************************)
(* The record of what writ deployed: lifetimes, their runs and the pointer *)
(* to the current one (cmd/internal/cli/lifetime.go), the documents they   *)
(* name (store.go), the commands that run graphs and append to the record  *)
(* (deploy, upgrade, adopt, decommission) and the fold that reads it back  *)
(* (readback.go).  Commands are processes of their own: nothing but the    *)
(* store is shared, nothing locks it, and any of them may die anywhere.    *)
(* A run of one scope's graph is one step: GraphExecutor and FileUndo say  *)
(* what happens inside it.                                                 *)
(***************************************************************************)
EXTENDS Integers, Sequences, FiniteSets

CONSTANTS
  Procs,       \* the processes commands run in
  Lifetimes,   \* the ids a deploy may mint
  Targets,     \* the files projects deploy
  System,      \* those of the system scope; the others are of home
  Linked,      \* those deployed as links; the others are copied
  Policies,    \* the conflict policies a deploy is given
  None,        \* no pointer, no temporary
  MaxCommands, MaxRuns, MaxMishaps,
  EditsOverlap \* whether users go on editing once commands have overlapped (a bound)

ASSUME ScopeAssumption == System \subseteq Targets /\ Linked \subseteq Targets
ASSUME IdAssumption == "current" \notin Lifetimes
ASSUME PolicyAssumption == Policies \subseteq {"stop", "skip", "replace"}
ASSUME BoundAssumption ==
  {MaxCommands, MaxRuns, MaxMishaps} \subseteq Nat /\ EditsOverlap \in BOOLEAN

VARIABLES
  files,     \* [Targets -> "absent", "user", "link" or "copy"]
  whole,     \* the plans whose graph document is in the store
  torn,      \* the plans whose graph document was cut short
  traces,    \* the runs whose trace is in the store
  docs,      \* the lifetime documents
  pointer,   \* the lifetime the file `current` names
  tmp,       \* the temporary beside each document and beside `current`
  cmd,       \* what each process is doing
  minted,    \* the ids minted so far
  ran,       \* every run and every edit of a user, in order (history)
  alone,     \* no two commands have overlapped so far (history)
  used       \* [bound -> how much of it was used]

vars == <<files, whole, torn, traces, docs, pointer, tmp, cmd, minted, ran, alone, used>>
store == <<whole, torn, traces, docs, pointer, tmp>>
history == <<minted, ran, alone>>

-----------------------------------------------------------------------------
Written(op, t) ==
  IF op = "decommission" THEN "absent"
  ELSE IF op = "adopt" \/ (op = "deploy" /\ t \in Linked) THEN "link" ELSE "copy"
NoDocument == [state |-> "none", runs |-> <<>>]
Document(l) == [state |-> l.state, runs |-> l.runs]
Blank == [t \in Targets |-> "absent"]
(* One graph per scope that has targets, system before home.               *)
Graph(ts) == IF ts = {} THEN <<>> ELSE <<ts>>
Scopes(ts) == Graph(ts \cap System) \o Graph(ts \ System)
(* What the graph of a command claims of a target: the kind of its entry.  *)
Kind(e) == IF e = "link" THEN "link" ELSE "regular"
NoClaim == [t \in Targets |-> "regular"]
NoLifetime == [id |-> None, state |-> "none", runs |-> <<>>]
Idle == [pc |-> "idle", op |-> "none", policy |-> "none", life |-> NoLifetime, previous |-> NoLifetime,
         todo |-> <<>>, claim |-> NoClaim, run |-> 0, failed |-> FALSE, writing |-> "none"]
Plan(c) == [op |-> c.op, targets |-> Head(c.todo)]

Init ==
  /\ files = Blank
  /\ whole = {} /\ torn = {} /\ traces = {}
  /\ docs = [l \in Lifetimes |-> NoDocument] /\ pointer = None
  /\ tmp = [f \in Lifetimes \cup {"current"} |-> None]
  /\ cmd = [p \in Procs |-> Idle]
  /\ minted = {} /\ ran = <<>> /\ alone = TRUE
  /\ used = [b \in {"commands", "mishaps"} |-> 0]

Spend(b, max) == used[b] < max /\ used' = [used EXCEPT ![b] = @ + 1]

-----------------------------------------------------------------------------
(* The read-back.  A run whose trace or graph cannot be read is a finding: *)
(* it is left out of the record.  Folded in the order they were written,   *)
(* of the runs with a receipt for a target the last is what counts.        *)
Readable(n) == n \in traces /\ [op |-> ran[n].op, targets |-> ran[n].targets] \in whole
FoldRun(n, t) == Readable(n) /\ t \in ran[n].receipts
Counting(runs, t) == {i \in DOMAIN runs : FoldRun(runs[i], t)}
FirstOf(S) == CHOOSE i \in S : \A j \in S : i <= j
LastOf(S) == CHOOSE i \in S : \A j \in S : j <= i
Fold(l) ==
  [t \in Targets |-> LET counting == Counting(docs[l].runs, t)
                     IN  IF counting = {} THEN "absent"
                         ELSE Written(ran[docs[l].runs[LastOf(counting)]].op, t)]
Record == IF pointer = None THEN Blank ELSE Fold(pointer)
AsRecorded(t) == files[t] # "user" /\ Record[t] = files[t]

(* A process leaves the scope it is at, for the next one or for good: an   *)
(* adoption stops at the first group that failed, the others go on.        *)
Left(c) ==
  IF Len(c.todo) = 1 \/ (c.op = "adopt" /\ c.failed) THEN Idle
  ELSE [c EXCEPT !.pc = "graph", !.todo = Tail(@), !.failed = FALSE]
Step(p, c) == cmd' = [cmd EXCEPT ![p] = c]
At(p, pc) == cmd[p].pc = pc
Starts(p) ==
  /\ At(p, "idle") /\ Spend("commands", MaxCommands)
  /\ alone' = (alone /\ \A q \in Procs : At(q, "idle"))

-----------------------------------------------------------------------------
(* Commands.  A refused pre-flight changes nothing.                        *)
Deploy(p) ==
  /\ Starts(p)
  /\ \E ts \in (SUBSET Targets) \ {{}}, policy \in Policies, l \in Lifetimes \ minted :
       /\ policy = "stop" => \A t \in ts : files[t] = "absent" \/ AsRecorded(t)
       /\ Step(p, [Idle EXCEPT !.pc = "graph", !.op = "deploy", !.policy = policy,
                     !.life = [id |-> l, state |-> "current", runs |-> <<>>], !.todo = Scopes(ts)])
       /\ minted' = minted \cup {l}
  /\ UNCHANGED <<files, store, ran>>

RequireCurrentLifetime(p) ==
  /\ Starts(p) /\ pointer # None
  /\ \E op \in {"upgrade", "adopt", "decommission"} :
       Step(p, [Idle EXCEPT !.pc = "select", !.op = op,
                  !.life = [id |-> pointer, state |-> docs[pointer].state, runs |-> docs[pointer].runs]])
  /\ UNCHANGED <<files, store, minted, ran>>

Selectable(op) ==
  {t \in Targets : \/ op = "decommission" /\ Record[t] # "absent"
                   \/ op = "upgrade" /\ Record[t] = "copy"
                   \/ op = "adopt" /\ files[t] = "user"}
Select(p) ==
  /\ At(p, "select")
  /\ \E ts \in SUBSET Selectable(cmd[p].op) :
       Step(p, IF ts = {} THEN Idle
               ELSE [cmd[p] EXCEPT !.pc = "graph", !.todo = Scopes(ts),
                                !.claim = [t \in Targets |-> Kind(Record[t])]])
  /\ UNCHANGED <<files, store, history, used>>

(* The document of a plan is written once, in place: whatever is at its    *)
(* path counts as written.                                                 *)
Saved(c) == Plan(c) \in whole \cup torn
WriteGraph(p) ==
  /\ At(p, "graph")
  /\ whole' = IF Saved(cmd[p]) THEN whole ELSE whole \cup {Plan(cmd[p])}
  /\ Step(p, [cmd[p] EXCEPT !.pc = "run"])
  /\ UNCHANGED <<files, torn, traces, docs, pointer, tmp, history, used>>
(* Cut short or not begun, and the process may die of it.                  *)
WriteGraphFails(p) ==
  /\ At(p, "graph") /\ ~Saved(cmd[p]) /\ Spend("mishaps", MaxMishaps)
  /\ torn' \in {torn, torn \cup {Plan(cmd[p])}}
  /\ Step(p, Left([cmd[p] EXCEPT !.failed = TRUE])) \/ Step(p, Idle)
  /\ UNCHANGED <<files, whole, traces, docs, pointer, tmp, history>>

(* Pre-flight of the run: the kind of entry a claim asserts is the one     *)
(* found.  A decommission forgives an entry that is gone.                  *)
Verified(c, t) ==
  CASE c.op = "decommission" -> files[t] = "absent" \/ Kind(files[t]) = c.claim[t]
    [] c.op = "adopt" -> files[t] \notin {"absent", "link"}
    [] OTHER -> TRUE
(* The write seam: under skip an occupied target is left alone, and its    *)
(* receipt is that of a success.                                           *)
Touches(c, t) == ~(c.policy = "skip" /\ files[t] # "absent")
Effect(c, ts) == [t \in Targets |-> IF t \in ts /\ Touches(c, t) THEN Written(c.op, t) ELSE files[t]]
Ran(c, receipts, left, dirty) ==
  /\ Len(ran) < MaxRuns
  /\ files' = Effect(c, left)
  /\ ran' = Append(ran, [op |-> c.op, targets |-> Head(c.todo), receipts |-> receipts,
                         touched |-> {t \in left \cup receipts : Touches(c, t)}, dirty |-> dirty])
RunEnds(p, receipts, left, dirty, failed) ==
  /\ At(p, "run")
  /\ Ran(cmd[p], receipts, left, dirty)
  /\ Step(p, [cmd[p] EXCEPT !.pc = "trace", !.run = Len(ran'), !.failed = failed])
  /\ UNCHANGED <<store, minted, alone, used>>
RunSucceeds(p) ==
  LET ts == Head(cmd[p].todo) IN
  /\ At(p, "run") /\ \A t \in ts : Verified(cmd[p], t)
  /\ RunEnds(p, ts, ts, FALSE, FALSE)
(* Unwound: the files are as they were and the trace has no receipt left.  *)
RunFails(p) == RunEnds(p, {}, {}, FALSE, TRUE)
(* An unwind that fails keeps every receipt, those it compensated as well. *)
RunFailsDirty(p) ==
  /\ At(p, "run") /\ \A t \in Head(cmd[p].todo) : Verified(cmd[p], t)
  /\ \E receipts \in SUBSET Head(cmd[p].todo) : \E kept \in (SUBSET receipts) \ {{}} :
       RunEnds(p, receipts, kept, TRUE, TRUE)

(* A trace that cannot be written, or indexed, or linked, is only warned   *)
(* about: the run is not recorded, though its trace may be there.          *)
WriteTrace(p) ==
  /\ At(p, "trace")
  /\ traces' = traces \cup {cmd[p].run}
  /\ Step(p, [cmd[p] EXCEPT !.pc = "append"])
  /\ UNCHANGED <<files, whole, torn, docs, pointer, tmp, history, used>>
RecordedAnyway(c) == [c EXCEPT !.pc = "append"]
Unrecorded(c) == Left(c)
WriteTraceFails(p) ==
  /\ At(p, "trace") /\ Spend("mishaps", MaxMishaps)
  /\ traces' \in {traces, traces \cup {cmd[p].run}}
  /\ Step(p, Unrecorded(cmd[p]))
  /\ UNCHANGED <<files, whole, torn, docs, pointer, tmp, history>>

-----------------------------------------------------------------------------
(* AppendRun, on the lifetime as this process has it in memory.  The run   *)
(* is added there before anything is written.                              *)
RefusesNone(l) == FALSE
Refuses(l) == l.state # "current"
Writing(c, what) == [c EXCEPT !.pc = "write", !.writing = what]
(* replacePrevious: once, on the first run, and only what is current.      *)
Replaces(l) == Len(l.runs) = 1 /\ pointer \notin {None, l.id} /\ docs[pointer].state = "current"
ReplacePrevious(c) ==
  IF Replaces(c.life)
  THEN Writing([c EXCEPT !.previous = [id |-> pointer, state |-> "replaced", runs |-> docs[pointer].runs]],
               "previous")
  ELSE Writing(c, "own")
AppendRun(p) ==
  /\ At(p, "append")
  /\ Step(p, IF Refuses(cmd[p].life) THEN Left(cmd[p])
             ELSE ReplacePrevious([cmd[p] EXCEPT !.life.runs = Append(@, cmd[p].run)]))
  /\ UNCHANGED <<files, store, history, used>>
(* The store cannot be opened, or its directory cannot be made.            *)
AppendRunFails(p) ==
  /\ At(p, "append") /\ ~Refuses(cmd[p].life) /\ Spend("mishaps", MaxMishaps)
  /\ Step(p, Left([cmd[p] EXCEPT !.life.runs = Append(@, cmd[p].run)]))
  /\ UNCHANGED <<files, store, history>>

(* writeAtomically: a temporary of a fixed name, then a rename, which      *)
(* places what the temporary holds by then, or fails when it is gone.      *)
Path(c) ==
  CASE c.writing = "previous" -> c.previous.id
    [] c.writing = "own" -> c.life.id
    [] c.writing = "pointer" -> "current"
Content(c) ==
  CASE c.writing = "previous" -> Document(c.previous)
    [] c.writing = "own" -> Document(c.life)
    [] c.writing = "pointer" -> c.life.id
Placed(c) ==
  CASE c.writing = "previous" -> Writing(c, "own")
    [] c.writing = "own" -> Writing(c, "pointer")
    [] c.writing = "pointer" -> Left(c)
WriteTemporary(p) ==
  /\ At(p, "write")
  /\ tmp' = [tmp EXCEPT ![Path(cmd[p])] = Content(cmd[p])]
  /\ Step(p, [cmd[p] EXCEPT !.pc = "place"])
  /\ UNCHANGED <<files, whole, torn, traces, docs, pointer, history, used>>
Place(p) ==
  LET path == Path(cmd[p]) IN
  /\ At(p, "place") /\ tmp[path] # None
  /\ tmp' = [tmp EXCEPT ![path] = None]
  /\ docs' = IF path = "current" THEN docs ELSE [docs EXCEPT ![path] = tmp[path]]
  /\ pointer' = IF path = "current" THEN tmp[path] ELSE pointer
  /\ Step(p, Placed(cmd[p]))
  /\ UNCHANGED <<files, whole, torn, traces, history, used>>
(* Another process took the temporary away.                                *)
PlaceFails(p) ==
  /\ At(p, "place") /\ tmp[Path(cmd[p])] = None
  /\ Step(p, Left(cmd[p]))
  /\ UNCHANGED <<files, store, history, used>>
StoreFails(p) ==
  /\ cmd[p].pc \in {"write", "place"} /\ Spend("mishaps", MaxMishaps)
  /\ Step(p, Left(cmd[p]))
  /\ UNCHANGED <<files, store, history>>

-----------------------------------------------------------------------------
(* A process dies; in the middle of a run it leaves any part of it done.   *)
Crash(p) ==
  /\ ~At(p, "idle") /\ Spend("mishaps", MaxMishaps)
  /\ Step(p, Idle)
  /\ IF At(p, "run") THEN \E done \in SUBSET Head(cmd[p].todo) : Ran(cmd[p], {}, done, TRUE)
     ELSE UNCHANGED <<files, ran>>
  /\ UNCHANGED <<store, minted, alone>>

(* A user writes a file of his own at a target, or removes what is there.  *)
Edit(t) ==
  /\ (alone \/ EditsOverlap) /\ Spend("mishaps", MaxMishaps)
  /\ \E e \in {"absent", "user"} \ {files[t]} : files' = [files EXCEPT ![t] = e]
  /\ ran' = Append(ran, [op |-> "user", targets |-> {t}, receipts |-> {}, touched |-> {t}, dirty |-> FALSE])
  /\ UNCHANGED <<store, cmd, minted, alone>>

Command(p) ==
  \/ Deploy(p) \/ RequireCurrentLifetime(p) \/ Select(p)
  \/ WriteGraph(p) \/ WriteGraphFails(p)
  \/ RunSucceeds(p) \/ RunFails(p) \/ RunFailsDirty(p)
  \/ WriteTrace(p) \/ WriteTraceFails(p)
  \/ AppendRun(p) \/ AppendRunFails(p)
  \/ WriteTemporary(p) \/ Place(p) \/ PlaceFails(p) \/ StoreFails(p)
  \/ Crash(p)
Next == (\E p \in Procs : Command(p)) \/ (\E t \in Targets : Edit(t))
Spec == Init /\ [][Next]_vars

-----------------------------------------------------------------------------
(* Whatever dies or fails wherever, and however commands overlap, what the *)
(* store says can be read: `current` names a document with a run, and the  *)
(* trace of every run any document names is there (WriteLifetimeTrace, and *)
(* the order of the writes of AppendRun).                                  *)
RecordReadable ==
  /\ pointer # None => docs[pointer].runs # <<>>
  /\ \A l \in Lifetimes : \A i \in DOMAIN docs[l].runs : docs[l].runs[i] \in traces

(* The fold tells the truth about a target when the last thing that        *)
(* touched it is a run of the current lifetime that was recorded, did not  *)
(* unwind dirty and can be read: through failed scopes, lost records,      *)
(* crashed commands, replaced lifetimes, edits, and whatever commands      *)
(* overlap (Fold, AppendRun, replacePrevious).  A run that unwound dirty   *)
(* touched what it has a receipt for, put back or not.                     *)
LastTouch(n, t) == t \in ran[n].touched /\ \A m \in n + 1 .. Len(ran) : t \notin ran[m].touched
Vouched(n) ==
  /\ pointer # None
  /\ \E i \in DOMAIN docs[pointer].runs : docs[pointer].runs[i] = n
  /\ ~ran[n].dirty /\ Readable(n)
RecordTruthful ==
  \A n \in DOMAIN ran : \A t \in Targets : LastTouch(n, t) /\ Vouched(n) => Record[t] = files[t]

(* Nothing writes into history: the document of a lifetime that was        *)
(* replaced never changes again, even when the command that replaced it    *)
(* died before the pointer moved (AppendRun refuses it).                   *)
HistoryClosed ==
  [][alone' => \A l \in Lifetimes : docs[l].state = "replaced" => docs'[l] = docs[l]]_vars
=============================================================================
