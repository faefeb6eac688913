----------------------------- MODULE Restoration -----------------------------
(***************************************************************************)
(* Checkpoints (state/marking.go, state/restoration.go): NewMarking takes  *)
(* a snapshot of a net, RestoreMarkingToNet puts one into it.  Both are    *)
(* loops over the places that call PeekTokens, Clear and AddToken of       *)
(* PlaceChannel; the loops range over Go maps, so that the order of the    *)
(* places is arbitrary.  One goroutine, restorer, takes and restores       *)
(* checkpoints; the others move tokens meanwhile: nothing in the package   *)
(* keeps them out.                                                         *)
(***************************************************************************)
EXTENDS PlaceChannel, SequencesExt

CONSTANTS
  restorer,
  Unknown,         \* place IDs of checkpoints that the net does not have
  Checkpoints,     \* markings that may be restored beside those taken here
  InitialContent,
  MaxOps,          \* bound on the checkpoints taken and restored
  MaxMoves         \* bound on the tokens the others move

(* A checkpoint may come from another version of the net.                   *)
IsMarking(m) ==
  DOMAIN m \subseteq Place \cup Unknown /\ m \in [DOMAIN m -> Seq(Token)]

ASSUME RestorationAssumption ==
  /\ restorer \in Thread
  /\ Place # {} /\ Unknown \cap Place = {}
  /\ \A m \in Checkpoints : IsMarking(m)
  /\ InitialContent \in [Place -> Seq(Token)]
  /\ \A p \in Place : Len(InitialContent[p]) <= Capacity[p]
  /\ MaxOps \in Nat /\ MaxMoves \in Nat

VARIABLES
  job,       \* what the restorer does
  saved,     \* the checkpoints taken
  ops,       \* number of checkpoints taken and restored
  moves,     \* number of tokens the others have moved
  start,     \* history: the channels when the job began
  touched,   \* history: another thread has used a channel since then
  stayed     \* history: the <<place, token>> that have stayed there since then

jobVars == <<job, saved, ops, start>>
restoreVars == <<placeVars, jobVars, moves, touched, stayed>>

-----------------------------------------------------------------------------

Phases == {"idle", "snapshot", "backup", "clear", "restore", "undo_clear", "undo"}

(* The loop of a phase is at the place at, has still to visit todo, and has *)
(* still to add rest to at.  taken is the snapshot or the backup as far as  *)
(* it has come, from the marking to restore.                                *)
Job(pc, from) ==
  [pc |-> pc, todo |-> Place, at |-> None, rest |-> <<>>,
   taken |-> [p \in {} |-> <<>>], from |-> from]

Idle == [Job("idle", [p \in {} |-> <<>>]) EXCEPT !.todo = {}]

Do(j) == job' = j

(* The place call of the phase has returned.                                *)
Returned(pc) == job.pc = pc /\ call[restorer].pc = "done"

-----------------------------------------------------------------------------
(* Where the loops go on.                                                   *)

PeekFrom(j) ==
  \E p \in j.todo : /\ Do([j EXCEPT !.todo = @ \ {p}, !.at = p])
                    /\ CallPeekTokens(restorer, p)

(* The tokens that Clear returns are discarded.                             *)
ClearFrom(j) ==
  \E p \in j.todo : /\ Do([j EXCEPT !.todo = @ \ {p}, !.at = p])
                    /\ CallClear(restorer, p)

(* Mutant: only the place that failed is cleared.                           *)
UndoHere(j) == [j EXCEPT !.pc = "undo_clear", !.todo = {j.at}, !.rest = <<>>]

(* The first error of the restore loop: restoreFromBackup.                  *)
Undo(j) == [j EXCEPT !.pc = "undo_clear", !.todo = Place, !.rest = <<>>]

(* The two loops that fill the net; one without tokens is passed over.      *)
Source(j) == IF j.pc = "restore" THEN j.from ELSE j.taken

ToFill(m) == {p \in DOMAIN m : p \notin Place \/ m[p] # <<>>}

AddAt(j, p, ts) ==
  /\ Do([j EXCEPT !.at = p, !.todo = @ \ {p}, !.rest = Tail(ts)])
  /\ CallAddToken(restorer, p, Head(ts))

AddFrom(j) ==
  IF j.rest # <<>> THEN AddAt(j, j.at, j.rest)
  ELSE \/ j.todo = {} /\ Do(Idle) /\ UNCHANGED call
       \/ \E p \in j.todo : IF p \in Place THEN AddAt(j, p, Source(j)[p])
                            ELSE ClearFrom(Undo(j))

-----------------------------------------------------------------------------
(* The restorer.                                                            *)

NewMarking ==
  /\ job.pc = "idle" /\ ops < MaxOps
  /\ PeekFrom(Job("snapshot", Idle.from))
  /\ ops' = ops + 1 /\ start' = tokens
  /\ UNCHANGED saved

RestoreMarkingToNet ==
  /\ job.pc = "idle" /\ ops < MaxOps
  /\ \E m \in Checkpoints \cup saved : PeekFrom(Job("backup", m))
  /\ ops' = ops + 1 /\ start' = tokens
  /\ UNCHANGED saved

(* The marking m with the tokens ts for place p.                            *)
With(m, p, ts) ==
  [q \in DOMAIN m \cup {p} |-> IF q = p THEN ts ELSE m[q]]

Captured ==
  LET j == [job EXCEPT !.taken = With(@, job.at, call[restorer].seen)] IN
  /\ Returned("snapshot") \/ Returned("backup")
  /\ \/ j.todo # {} /\ PeekFrom(j) /\ UNCHANGED saved
     \/ /\ j.todo = {} /\ j.pc = "snapshot"
        /\ saved' = saved \cup {j.taken}
        /\ Do(Idle) /\ UNCHANGED call
     \/ /\ j.todo = {} /\ j.pc = "backup"
        /\ ClearFrom([j EXCEPT !.pc = "clear", !.todo = Place])
        /\ UNCHANGED saved
  /\ UNCHANGED <<ops, start>>

Cleared ==
  /\ \/ Returned("clear")
        /\ IF job.todo # {} THEN ClearFrom(job)
           ELSE AddFrom([job EXCEPT !.pc = "restore", !.todo = ToFill(job.from)])
     \/ Returned("undo_clear")
        /\ IF job.todo # {} THEN ClearFrom(job)
           ELSE AddFrom([job EXCEPT !.pc = "undo", !.todo = ToFill(job.taken)])
  /\ UNCHANGED <<saved, ops, start>>

(* AddToken errors end the restore; restoreFromBackup ignores them.         *)
Added ==
  /\ \/ Returned("restore") /\ call[restorer].ok /\ AddFrom(job)
     \/ Returned("restore") /\ ~call[restorer].ok /\ ClearFrom(Undo(job))
     \/ Returned("undo") /\ AddFrom(job)
  /\ UNCHANGED <<saved, ops, start>>

-----------------------------------------------------------------------------
(* The others: consumeInputTokens and produceOutputTokens of a transition   *)
(* that moves one token.                                                    *)

Take(th) ==
  /\ call[th].pc = "idle" /\ moves < MaxMoves
  /\ \E p \in Place : CallRemoveToken(th, p)
  /\ moves' = moves + 1

Put(th) ==
  /\ call[th].pc = "done"
  /\ \/ /\ call[th].tok # None
        /\ \E p \in Place : CallAddToken(th, p, call[th].tok)
     \/ /\ call[th].tok = None
        /\ Set(th, NoCall)
  /\ UNCHANGED moves

-----------------------------------------------------------------------------
RestorerStep ==
  /\ \/ /\ NewMarking \/ RestoreMarkingToNet \/ Captured \/ Cleared \/ Added
        /\ UNCHANGED <<tokens, totalTokens, peekMu, history>>
     \/ PlaceStep(restorer) /\ UNCHANGED jobVars
  /\ IF job.pc = "idle"
     THEN /\ touched' = \E th \in Thread \ {restorer} : call[th].pc # "idle"
          /\ stayed' = UNION {{p} \X Range(tokens[p]) : p \in Place}
     ELSE UNCHANGED <<touched, stayed>>
  /\ UNCHANGED moves

OtherStep(th) ==
  /\ \/ (Take(th) \/ Put(th)) /\ UNCHANGED <<tokens, totalTokens, peekMu, history>>
     \/ PlaceStep(th) /\ UNCHANGED moves
  /\ touched' = TRUE
  /\ stayed' = stayed \ {<<p, tokens[p][1]>> :
                            p \in {q \in Place : Len(tokens'[q]) < Len(tokens[q])}}
  /\ UNCHANGED jobVars

RestoreInit ==
  /\ PlaceInit(InitialContent)
  /\ job = Idle /\ saved = {} /\ ops = 0 /\ moves = 0
  /\ start = InitialContent /\ touched = FALSE /\ stayed = {}

RestoreNext == RestorerStep \/ \E th \in Thread \ {restorer} : OtherStep(th)

RestoreFairness ==
  /\ WF_restoreVars(RestorerStep)
  /\ \A th \in Thread \ {restorer} : WF_restoreVars(OtherStep(th))

RestoreSpec == RestoreInit /\ [][RestoreNext]_restoreVars /\ RestoreFairness

-----------------------------------------------------------------------------
RestoreTypeOK ==
  /\ PlaceTypeOK
  /\ job.pc \in Phases
  /\ job.todo \subseteq Place \cup Unknown
  /\ job.pc # "idle" => job.at \in Place
  /\ job.rest \in Seq(Token)
  /\ IsMarking(job.taken) /\ IsMarking(job.from)
  /\ \A m \in saved : DOMAIN m = Place /\ IsMarking(m)
  /\ ops \in 0 .. MaxOps /\ moves \in 0 .. MaxMoves

(* A snapshot is not atomic, the others move tokens while its loop goes     *)
(* from place to place.  But a token that stays where it is all the time is *)
(* in it, in its place, even while PeekTokens has it out of the channel.    *)
SnapshotHasWhatStayed ==
  [][job.pc = "snapshot" /\ job'.pc = "idle" =>
       \E m \in saved' : /\ m = With(job.taken, job.at, call[restorer].seen)
                         /\ \A s \in stayed : s[2] \in Range(m[s[1]])]_restoreVars

Content(m) == [p \in Place |-> IF p \in DOMAIN m THEN m[p] ELSE <<>>]

(* A restore that nobody disturbs makes the marking of the net that of the  *)
(* checkpoint, or fails and leaves the net as it was, in FIFO order, though *)
(* it had cleared every place.  Only when the net has a global limit is     *)
(* that not so: Clear does not count its tokens out, and the limit refuses  *)
(* the checkpoint first and then the backup.                                *)
QuietRestoreIsAllOrNothing ==
  [][~touched /\ job'.pc = "idle" /\ GlobalCapacity = 0 =>
       /\ job.pc \in {"clear", "restore"} => tokens' = Content(job.from)
       /\ job.pc \in {"undo_clear", "undo"} => tokens' = start]_restoreVars

StuckInClear ==
  call[restorer].pc = "clr_recv" /\ tokens[call[restorer].place] = <<>>

(* Snapshots and restores return, unless Clear has seen a token that        *)
(* another thread then took: it waits for the next one with the peek mutex  *)
(* held.                                                                    *)
RestorerReturns == job.pc # "idle" ~> (job.pc = "idle" \/ StuckInClear)
=============================================================================
