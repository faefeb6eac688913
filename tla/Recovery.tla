------------------------------ MODULE Recovery ------------------------------
(***************************************************************************)
(* Checkpoints on disk, the event log, and a process that may end at any   *)
(* moment (engine/checkpoint.go, state/serialization.go, state/event.go,   *)
(* RestoreFromFile and RestoreFromMarking of engine/engine.go).  The loop  *)
(* of the engine and its waiter goroutines fire transitions, which move    *)
(* tokens and append events; another goroutine, the operator, saves        *)
(* checkpoints and the log and loads them again, in the same process or in *)
(* a later one.  The places, which Restoration has in full, are queues     *)
(* here; a RemoveToken may fail while a peek of that place is in progress. *)
(***************************************************************************)
EXTENDS EventLog, FiniteSets, SequencesExt

CONSTANTS
  loop,            \* the goroutine of the loop
  Waiter,          \* waiter goroutines
  Place,
  TokenId,
  In, Out,         \* In[t], Out[t]: the place t takes its token from, puts it into
  InitialTokens,   \* InitialTokens[p]: the IDs of the tokens of the net as built,
                   \* which has each token once
  Odd,             \* tokens whose Data a registry may not know, or that have none
  MaxStarts,       \* bound on the starts of the process
  MaxIds           \* MaxIds[n]: bound on the event IDs of the n-th process

Thread == Waiter \cup {loop}

ASSUME RecoveryAssumption ==
  /\ loop \notin Waiter /\ IsFiniteSet(Place) /\ IsFiniteSet(TokenId)
  /\ In \in [Transition -> Place] /\ Out \in [Transition -> Place]
  /\ InitialTokens \in [Place -> Seq(TokenId)]
  /\ \A i \in TokenId :
       \E p \in Place : \E k \in DOMAIN InitialTokens[p] :
         \A q \in Place : \A l \in DOMAIN InitialTokens[q] :
           InitialTokens[q][l] = i <=> q = p /\ l = k
  /\ Odd \subseteq TokenId
  /\ MaxStarts \in Nat /\ MaxIds \in [1 .. MaxStarts -> Nat]

VARIABLES
  tokens,          \* tokens[p]: the content of p
  fire,            \* fire[th]: the firing of th
  running,         \* the engine is not stopped
  everRan,         \* the engine of this process has run: it may have waiters
  counter,         \* eventIDCounter
  saver,           \* what the operator does
  file,            \* the file on disk: a checkpoint or a log
  starts,          \* number of starts of the process
  took,            \* history: the events of the firings that took their token
  dirty            \* history: something has happened that may cost or copy tokens

volatile == <<tokens, fire, running, everRan, counter, took, dirty>>
vars == <<logVars, volatile, saver, file, starts>>

-----------------------------------------------------------------------------
(* What becomes of the Data of a token in a file: a type that is registered *)
(* comes back, nil Data cannot be written, and a type that is not           *)
(* registered where the file is read cannot be read.                        *)
Data == {"plain", "nil", "foreign"}

(* A token has an ID, Data, and Metadata that no file has.                  *)
Token == [id : TokenId, data : Data, meta : BOOLEAN]

IsMarking(m) == DOMAIN m \subseteq Place /\ m \in [DOMAIN m -> Seq(Token)]

NoMarking == [p \in {} |-> <<>>]

InitialContent(data) ==
  [p \in Place |->
     [i \in DOMAIN InitialTokens[p] |->
        [id |-> InitialTokens[p][i], data |-> data[InitialTokens[p][i]], meta |-> TRUE]]]

TokenData == {d \in [TokenId -> Data] : \A i \in TokenId \ Odd : d[i] = "plain"}

NoToken == [id |-> None, data |-> "nil", meta |-> FALSE]

NoEvent == [id |-> NoId, type |-> "started", trans |-> None, at |-> 0]

Firing(pc, t, e, tok) == [pc |-> pc, t |-> t, ev |-> e, tok |-> tok]

Idle == Firing("idle", None, NoEvent, NoToken)

(* The firing has a token in its hands.                                     *)
Holds(th) == fire[th].pc \in {"task", "log_failed", "rollback", "produce"}

(* kind is the method, taken what GetMarking has so far, events the log;    *)
(* quiet: no firing had or took or gave a token meanwhile; owed: the events *)
(* of the firings that the marking shows; started: the engine was started   *)
(* after the check of its state.                                            *)
NoJob ==
  [pc |-> "idle", kind |-> "none", todo |-> {}, taken |-> NoMarking,
   events |-> <<>>, quiet |-> TRUE, owed |-> {}, limit |-> 0, started |-> FALSE]

(* A file that os.WriteFile has emptied is "torn" until it is written.      *)
NoFile == [NoJob EXCEPT !.pc = "file"]

(* NewEvent: the counter is one of the process.                             *)
NewEvent(type, t) ==
  [id |-> counter + 1, type |-> type, trans |-> t, at |-> starts]

-----------------------------------------------------------------------------
(* Firing: FireUnchecked, step by step.                                     *)

SetFire(th, f) == fire' = [fire EXCEPT ![th] = f]

(* A step that moves a token while GetMarking goes from place to place.     *)
Disturb == saver' = [saver EXCEPT !.quiet = @ /\ saver.pc # "capture"]

(* The loop has found t enabled; a waiter was left when it was.             *)
Begin(th, t) ==
  /\ fire[th].pc = "idle"
  /\ \A u \in Thread : fire[u].t # t
  /\ IF th = loop THEN running /\ tokens[In[t]] # <<>> ELSE everRan
  /\ counter < MaxIds[starts]
  /\ counter' = counter + 1
  /\ SetFire(th, Firing("log_fired", t, NewEvent("fired", t), NoToken))
  /\ UNCHANGED <<logVars, tokens, running, everRan, saver, took, dirty>>

(* The error of Append is dropped.                                          *)
LogFired(th) ==
  /\ fire[th].pc = "log_fired"
  /\ AppendEvent(fire[th].ev)
  /\ SetFire(th, [fire[th] EXCEPT !.pc = "consume"])
  /\ UNCHANGED <<tokens, running, everRan, counter, saver, took, dirty>>

Consume(th) ==
  LET p == In[fire[th].t] IN
  /\ fire[th].pc = "consume" /\ tokens[p] # <<>>
  /\ tokens' = [tokens EXCEPT ![p] = Tail(@)]
  /\ SetFire(th, [fire[th] EXCEPT !.pc = "task", !.ev = NoEvent,
                                 !.tok = Head(tokens[p])])
  /\ took' = took \cup {fire[th].ev}
  /\ Disturb
  /\ UNCHANGED <<logVars, running, everRan, counter, dirty>>

(* The place is empty, or looks empty because a peek has drained it.        *)
ConsumeFails(th) ==
  /\ fire[th].pc = "consume"
  /\ tokens[In[fire[th].t]] = <<>> \/ saver.pc = "capture"
  /\ SetFire(th, Idle)
  /\ UNCHANGED <<logVars, tokens, running, everRan, counter, saver, took,
                 dirty>>

TaskReturns(th) ==
  /\ fire[th].pc = "task"
  /\ \/ /\ SetFire(th, [fire[th] EXCEPT !.pc = "produce"])
        /\ UNCHANGED counter
     \/ /\ counter < MaxIds[starts]
        /\ counter' = counter + 1
        /\ SetFire(th, [fire[th] EXCEPT !.pc = "log_failed",
                                        !.ev = NewEvent("failed", fire[th].t)])
  /\ UNCHANGED <<logVars, tokens, running, everRan, saver, took, dirty>>

LogFailed(th) ==
  /\ fire[th].pc = "log_failed"
  /\ AppendEvent(fire[th].ev)
  /\ SetFire(th, [fire[th] EXCEPT !.pc = "rollback"])
  /\ UNCHANGED <<tokens, running, everRan, counter, saver, took, dirty>>

(* rollbackTokens and produceOutputTokens; both add at the end.             *)
Give(th) ==
  LET p == IF fire[th].pc = "rollback" THEN In[fire[th].t] ELSE Out[fire[th].t] IN
  /\ fire[th].pc \in {"rollback", "produce"}
  /\ tokens' = [tokens EXCEPT ![p] = Append(@, fire[th].tok)]
  /\ SetFire(th, Idle)
  /\ Disturb
  /\ UNCHANGED <<logVars, running, everRan, counter, took, dirty>>

-----------------------------------------------------------------------------
(* The engine, as far as firings and restores depend on it.                 *)

Start ==
  /\ ~running /\ counter < MaxIds[starts]
  /\ running' = TRUE /\ everRan' = TRUE
  /\ counter' = counter + 1
  /\ AppendEvent(NewEvent("started", None))
  /\ saver' = [saver EXCEPT !.started = saver.pc = "restore"]
  /\ UNCHANGED <<tokens, fire, took, dirty>>

(* Stop waits for the loop, not for the waiters.                            *)
Stop ==
  /\ running /\ fire[loop].pc = "idle" /\ counter < MaxIds[starts]
  /\ running' = FALSE
  /\ counter' = counter + 1
  /\ AppendEvent(NewEvent("stopped", None))
  /\ UNCHANGED <<tokens, fire, everRan, saver, took, dirty>>

-----------------------------------------------------------------------------
(* The operator saves.                                                      *)

Busy == \E th \in Thread : Holds(th)

(* Checkpoint ("marking") and CheckpointWithEvents ("workflow").            *)
Checkpoint(kind) ==
  /\ saver.pc = "idle"
  /\ saver' = [NoJob EXCEPT !.pc = "capture", !.kind = kind, !.todo = Place,
                            !.quiet = ~Busy /\ ~dirty]
  /\ UNCHANGED <<logVars, volatile>>

(* Serialize gives up at a token without Data, and no file is touched.      *)
Encodes(m) == \A p \in DOMAIN m : \A i \in DOMAIN m[p] : m[p][i].data # "nil"

(* The marking is complete.                                                 *)
Captured(s) ==
  IF ~Encodes(s.taken) THEN NoJob
  ELSE [s EXCEPT !.pc = IF s.kind = "marking" THEN "open" ELSE "events",
                 !.owed = IF s.kind = "marking" THEN {} ELSE took]

Capture ==
  \E p \in saver.todo :
    LET s == [saver EXCEPT !.todo = @ \ {p},
                           !.taken = [q \in DOMAIN @ \cup {p} |->
                                        IF q = p THEN tokens[p] ELSE @[q]]] IN
    /\ saver.pc = "capture"
    /\ saver' = IF s.todo = {} THEN Captured(s) ELSE s
    /\ UNCHANGED <<logVars, volatile>>

(* Mutant: a log that has dropped events is not saved.                      *)
TakeEventsIfComplete ==
  /\ saver.pc = "events"
  /\ saver' = [saver EXCEPT !.pc = "open", !.limit = log.limit,
                            !.events = IF Len(log.events) = Len(accepted)
                                       THEN GetAll ELSE <<>>]
  /\ UNCHANGED <<logVars, volatile>>

(* The log is read after the marking.                                       *)
TakeEvents ==
  /\ saver.pc = "events"
  /\ saver' = [saver EXCEPT !.pc = "open", !.events = GetAll, !.limit = log.limit]
  /\ UNCHANGED <<logVars, volatile>>

SaveLog ==
  /\ saver.pc = "idle"
  /\ saver' = [NoJob EXCEPT !.pc = "open", !.kind = "log", !.events = GetAll]
  /\ UNCHANGED <<logVars, volatile>>

(* os.WriteFile: the old content goes first.                                *)
OpenFile ==
  /\ saver.pc = "open"
  /\ saver' = [saver EXCEPT !.pc = "write"]
  /\ file' = [NoFile EXCEPT !.kind = "torn"]
  /\ UNCHANGED <<logVars, volatile>>

WriteFile ==
  /\ saver.pc = "write"
  /\ saver' = NoJob
  /\ file' = [saver EXCEPT !.pc = "file"]
  /\ UNCHANGED <<logVars, volatile>>

-----------------------------------------------------------------------------
(* The operator loads.                                                      *)

(* DeserializeMarking gives back the ID and the Data of a token.            *)
Decoded(m) ==
  [p \in DOMAIN m |-> [i \in DOMAIN m[p] |-> [m[p][i] EXCEPT !.meta = FALSE]]]

Decodes(m) ==
  \A p \in DOMAIN m : \A i \in DOMAIN m[p] : m[p][i].data # "foreign"

(* Mutant: an empty file is an empty marking.                               *)
ReadableEvenIfTorn == file.kind # "none" /\ Decodes(file.taken)

(* A file that is not there or not complete is an error; the places of a    *)
(* workflow file are one level further down than LoadMarkingFromFile looks, *)
(* which leaves it with a marking of no places, and no error.               *)
Readable == file.kind = "workflow" \/ (file.kind = "marking" /\ Decodes(file.taken))

MarkingOf == IF file.kind = "marking" THEN Decoded(file.taken) ELSE NoMarking

(* RestoreFromFile up to the check of RestoreFromMarking; the errors change *)
(* nothing.                                                                 *)
RestoreFromFile ==
  /\ saver.pc = "idle" /\ Readable /\ ~running
  /\ saver' = [file EXCEPT !.pc = "restore", !.taken = MarkingOf, !.started = FALSE]
  /\ UNCHANGED <<logVars, volatile>>

(* A firing that the check could not see has a token in its hands.          *)
Overlaps == \E th \in Thread : Holds(th) /\ (th # loop \/ saver.started)

(* The mutex is free again when RestoreMarkingToNet clears and fills.       *)
RestoreMarking ==
  /\ saver.pc = "restore"
  /\ tokens' = [p \in Place |-> IF p \in DOMAIN saver.taken THEN saver.taken[p] ELSE <<>>]
  /\ saver' = NoJob
  /\ dirty' = (~saver.quiet \/ saver.kind = "workflow" \/ Overlaps)
  /\ UNCHANGED <<logVars, fire, running, everRan, counter, took>>

(* A new process may begin with the log of an old one, or clear its log.    *)
LoadLog ==
  /\ saver.pc = "idle" /\ ~everRan /\ file.kind = "log"
  /\ Load(file.events)
  /\ UNCHANGED <<tokens, fire, running, everRan, counter, took, dirty, saver>>

ClearLog ==
  /\ saver.pc = "idle" /\ ~running /\ \A th \in Thread : fire[th].pc = "idle"
  /\ Clear
  /\ took' = {}
  /\ UNCHANGED <<tokens, fire, running, everRan, counter, dirty, saver>>

-----------------------------------------------------------------------------
(* The process ends, which a task that panics in a goroutine of the engine  *)
(* is enough for, and another builds the net again.                         *)
NewProcess ==
  /\ \E data \in TokenData : tokens' = InitialContent(data)
  /\ fire' = [th \in Thread |-> Idle]
  /\ running' = FALSE /\ everRan' = FALSE /\ counter' = 0
  /\ took' = {} /\ dirty' = FALSE
  /\ saver' = NoJob
  /\ Renew

Crash ==
  /\ starts < MaxStarts
  /\ starts' = starts + 1
  /\ NewProcess
  /\ UNCHANGED file

Init ==
  /\ \E data \in TokenData : tokens = InitialContent(data)
  /\ fire = [th \in Thread |-> Idle]
  /\ running = FALSE /\ everRan = FALSE /\ counter = 0
  /\ took = {} /\ dirty = FALSE
  /\ saver = NoJob /\ file = [NoFile EXCEPT !.kind = "none"]
  /\ starts = 1
  /\ LogInit

FiringStep ==
  \E th \in Thread :
    \/ \E t \in Transition : Begin(th, t)
    \/ LogFired(th) \/ Consume(th) \/ ConsumeFails(th) \/ TaskReturns(th)
    \/ LogFailed(th) \/ Give(th)

OperatorStep ==
  \/ \E kind \in {"marking", "workflow"} : Checkpoint(kind)
  \/ Capture \/ TakeEvents \/ SaveLog
  \/ RestoreFromFile \/ RestoreMarking \/ LoadLog \/ ClearLog

Next ==
  \/ (FiringStep \/ Start \/ Stop \/ OperatorStep) /\ UNCHANGED <<file, starts>>
  \/ (OpenFile \/ WriteFile) /\ UNCHANGED starts
  \/ Crash

Spec == Init /\ [][Next]_vars

-----------------------------------------------------------------------------
IsRecord(s) ==
  /\ s.kind \in {"none", "torn", "marking", "workflow", "log"}
  /\ s.todo \subseteq Place /\ IsMarking(s.taken)
  /\ s.events \in Seq(Event) /\ s.owed \subseteq Event

TypeOK ==
  /\ tokens \in [Place -> Seq(Token)]
  /\ counter \in Nat /\ starts \in 1 .. MaxStarts
  /\ took \subseteq Event
  /\ IsRecord(saver) /\ IsRecord(file)

(* An event is in a log, or the log has forgotten it, being full, or has    *)
(* refused it: every process counts its event IDs from 1, and one that      *)
(* began with the log of an earlier process meets them again.               *)
Covers(events, limit, e) ==
  \/ e \in Range(events)
  \/ \E f \in Range(events) : f.id = e.id /\ f.at < e.at
  \/ limit > 0 /\ Len(events) = limit

(* A workflow file tells how its marking came about: it has the event of    *)
(* every firing that took a token, although marking and log are read one    *)
(* after the other while transitions fire and fail.                         *)
EventsCoverMarking ==
  file.kind = "workflow" => \A e \in file.owed : Covers(file.events, file.limit, e)

InPlaces(i) == {s \in UNION {{p} \X DOMAIN tokens[p] : p \in Place} :
                  tokens[s[1]][s[2]].id = i}

InHands(i) == {th \in Thread : Holds(th) /\ fire[th].tok.id = i}

(* No token is lost or doubled, over firings that fail, checkpoints, crashes *)
(* in the middle of them, and restores; but a checkpoint is only as good as  *)
(* the moment it was taken at (NewMarking goes from place to place), a       *)
(* restore must not overlap a firing that the check of the engine state      *)
(* cannot see, and a workflow file does not restore (ResumesFromCheckpoint). *)
EachTokenOnce ==
  ~dirty => \A i \in TokenId : Cardinality(InPlaces(i)) + Cardinality(InHands(i)) = 1

IdsOf(m) == [p \in Place |-> IF p \in DOMAIN m THEN [i \in DOMAIN m[p] |-> m[p][i].id]
                             ELSE <<>>]

(* "Together they provide a complete picture of workflow state that can be  *)
(* used for checkpointing, recovery, and debugging" (WorkflowState): a      *)
(* restore from the file that a checkpoint wrote brings its tokens back.    *)
ResumesFromCheckpoint ==
  [][saver.pc = "restore" /\ saver'.pc = "idle" /\ starts' = starts =>
       IdsOf(tokens') = IdsOf(file.taken)]_vars
=============================================================================
