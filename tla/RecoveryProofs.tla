--------------------------- MODULE RecoveryProofs ---------------------------
(***************************************************************************)
(* First the event log alone: its slice and its index agree, for every     *)
(* limit and every history of appends, clears, loads and restarts.  LogOK  *)
(* is inductive once the types are known: an append to a full log drops    *)
(* the head of the slice, and because no two events of the slice share an  *)
(* ID, taking that ID out of the index takes nothing else out.             *)
(*                                                                         *)
(* Then what Recovery does to the log, step by step of its firings and of  *)
(* its operator and over its crashes, is what EventLog allows: no          *)
(* interleaving appends anything but an event, and what is loaded from the *)
(* file is a log.  The events in hands and in the file must be events for  *)
(* that, which is the invariant.                                           *)
(*                                                                         *)
(* Last, the tokens: each of them is in one place or in one pair of hands, *)
(* over firings, checkpoints, restores and crashes.                        *)
(***************************************************************************)
EXTENDS Recovery, FiniteSetTheorems, SequenceTheorems, TLAPS

LogTypeOK ==
  log.events \in Seq(Event) /\ log.limit \in Nat /\ accepted \in Seq(Event)

LogInv == LogTypeOK /\ LogOK

(* Appending leaves the elements where they are.                            *)
LEMMA LongerSequence ==
  ASSUME NEW S, NEW q \in Seq(S), NEW x \in S
  PROVE  /\ Append(q, x) \in Seq(S)
         /\ Len(q) \in Nat
         /\ Len(Append(q, x)) = Len(q) + 1
         /\ \A i \in 1 .. Len(q) : Append(q, x)[i] = q[i]
         /\ Append(q, x)[Len(q) + 1] = x
  OBVIOUS

(* Dropping the head moves every element one place down.                    *)
LEMMA ShorterSequence ==
  ASSUME NEW S, NEW q \in Seq(S), Len(q) > 0
  PROVE  /\ Tail(q) \in Seq(S)
         /\ Len(Tail(q)) = Len(q) - 1
         /\ \A i \in 1 .. Len(Tail(q)) : Tail(q)[i] = q[i + 1]
         /\ Head(q) = q[1]
<1>1. q # <<>>
  OBVIOUS
<1> QED
  BY <1>1

(* Without its first event, the slice matches the index without its ID.     *)
LEMMA IndexWithoutHead ==
  ASSUME NEW es \in Seq(Event), NEW index, IndexMatches(es, index), Len(es) > 0,
         NEW rest, rest = [n \in DOMAIN index \ {Head(es).id} |-> index[n]]
  PROVE  IndexMatches(Tail(es), rest)
<1> DEFINE fs == Tail(es)
<1>1. /\ fs \in Seq(Event) /\ Len(fs) = Len(es) - 1 /\ Len(es) \in Nat
      /\ \A i \in 1 .. Len(fs) : fs[i] = es[i + 1]
      /\ Head(es) = es[1]
  BY ShorterSequence
<1> HIDE DEF fs
<1>2. \A i \in 1 .. Len(fs) : i + 1 \in 1 .. Len(es) /\ i + 1 # 1
  BY <1>1
<1>3. ASSUME NEW i \in 1 .. Len(fs), NEW j \in 1 .. Len(fs), fs[i].id = fs[j].id
      PROVE  i = j
  <2>1. \A m, n \in 1 .. Len(es) : es[m].id = es[n].id => m = n
    BY DEF IndexMatches
  <2>2. /\ i + 1 \in 1 .. Len(es) /\ j + 1 \in 1 .. Len(es)
        /\ es[i + 1].id = es[j + 1].id
    BY <1>1, <1>2, <1>3
  <2>3. i + 1 = j + 1
    BY <2>1, <2>2
  <2> QED
    BY <2>3
<1>4. ASSUME NEW i \in 1 .. Len(fs)
      PROVE  fs[i].id \in DOMAIN rest /\ rest[fs[i].id] = fs[i]
  <2>1. fs[i] = es[i + 1] /\ i + 1 \in 1 .. Len(es) /\ 1 \in 1 .. Len(es)
    BY <1>1, <1>2
  <2>2. fs[i].id # es[1].id
    BY <2>1, <1>2 DEF IndexMatches
  <2>3. fs[i].id \in DOMAIN index /\ index[fs[i].id] = fs[i]
    BY <2>1 DEF IndexMatches
  <2> QED
    BY <2>2, <2>3, <1>1
<1>5. ASSUME NEW n \in DOMAIN rest PROVE \E i \in 1 .. Len(fs) : fs[i].id = n
  <2>1. n \in DOMAIN index /\ n # es[1].id
    BY <1>1
  <2>2. PICK k \in 1 .. Len(es) : es[k].id = n
    BY <2>1 DEF IndexMatches
  <2>3. k # 1
    BY <2>1, <2>2
  <2>4. k - 1 \in 1 .. Len(fs) /\ (k - 1) + 1 = k
    BY <2>3, <1>1
  <2>5. fs[k - 1] = es[k]
    BY <2>4, <1>1
  <2> QED
    BY <2>2, <2>4, <2>5
<1>6. DOMAIN rest = {fs[i].id : i \in 1 .. Len(fs)}
  <2>1. ASSUME NEW n \in {fs[i].id : i \in 1 .. Len(fs)} PROVE n \in DOMAIN rest
    BY <1>4
  <2>2. ASSUME NEW n \in DOMAIN rest PROVE n \in {fs[i].id : i \in 1 .. Len(fs)}
    BY <1>5
  <2> QED
    BY <2>1, <2>2
<1>7. IndexMatches(fs, rest)
  BY <1>3, <1>4, <1>6 DEF IndexMatches
<1> QED
  BY <1>7 DEF fs

(* With one more event, whose ID is new, the slice matches the index with   *)
(* that event.                                                              *)
LEMMA IndexWithLast ==
  ASSUME NEW es \in Seq(Event), NEW index, IndexMatches(es, index),
         NEW e \in Event, e.id \notin DOMAIN index,
         NEW more, more = [n \in DOMAIN index \cup {e.id} |-> IF n = e.id THEN e ELSE index[n]]
  PROVE  IndexMatches(Append(es, e), more)
<1> DEFINE fs == Append(es, e)
<1>1. /\ fs \in Seq(Event) /\ Len(fs) = Len(es) + 1 /\ Len(es) \in Nat
      /\ \A i \in 1 .. Len(es) : fs[i] = es[i]
      /\ fs[Len(es) + 1] = e
  BY LongerSequence
<1> HIDE DEF fs
<1>2. \A i \in 1 .. Len(fs) : i \in 1 .. Len(es) \/ i = Len(es) + 1
  BY <1>1
<1>3. \A i \in 1 .. Len(es) : es[i].id \in DOMAIN index /\ es[i].id # e.id
  BY DEF IndexMatches
<1>4. ASSUME NEW i \in 1 .. Len(fs), NEW j \in 1 .. Len(fs), fs[i].id = fs[j].id
      PROVE  i = j
  <2>1. i \in 1 .. Len(es) \/ i = Len(es) + 1
    BY <1>2
  <2>2. j \in 1 .. Len(es) \/ j = Len(es) + 1
    BY <1>2
  <2>3. CASE i \in 1 .. Len(es) /\ j \in 1 .. Len(es)
    BY <2>3, <1>1, <1>4 DEF IndexMatches
  <2>4. CASE i = Len(es) + 1 \/ j = Len(es) + 1
    BY <2>1, <2>2, <2>4, <1>1, <1>3, <1>4
  <2> QED
    BY <2>1, <2>2, <2>3, <2>4
<1>5. ASSUME NEW i \in 1 .. Len(fs)
      PROVE  fs[i].id \in DOMAIN more /\ more[fs[i].id] = fs[i]
  <2>1. CASE i \in 1 .. Len(es)
    <3>1. fs[i] = es[i] /\ fs[i].id \in DOMAIN index /\ fs[i].id # e.id
      BY <2>1, <1>1, <1>3
    <3>2. index[fs[i].id] = fs[i]
      BY <2>1, <3>1 DEF IndexMatches
    <3> QED
      BY <3>1, <3>2
  <2>2. CASE i = Len(es) + 1
    BY <2>2, <1>1
  <2> QED
    BY <2>1, <2>2, <1>2
<1>6. ASSUME NEW n \in DOMAIN more PROVE \E i \in 1 .. Len(fs) : fs[i].id = n
  <2>1. CASE n = e.id
    <3>1. Len(es) + 1 \in 1 .. Len(fs)
      BY <1>1
    <3> QED
      BY <2>1, <3>1, <1>1
  <2>2. CASE n # e.id
    <3>1. n \in DOMAIN index
      BY <2>2
    <3>2. PICK k \in 1 .. Len(es) : es[k].id = n
      BY <3>1 DEF IndexMatches
    <3>3. k \in 1 .. Len(fs) /\ fs[k] = es[k]
      BY <1>1
    <3> QED
      BY <3>2, <3>3
  <2> QED
    BY <2>1, <2>2
<1>7. DOMAIN more = {fs[i].id : i \in 1 .. Len(fs)}
  <2>1. ASSUME NEW n \in {fs[i].id : i \in 1 .. Len(fs)} PROVE n \in DOMAIN more
    BY <1>5
  <2>2. ASSUME NEW n \in DOMAIN more PROVE n \in {fs[i].id : i \in 1 .. Len(fs)}
    BY <1>6
  <2> QED
    BY <2>1, <2>2
<1>8. IndexMatches(fs, more)
  BY <1>4, <1>5, <1>7 DEF IndexMatches
<1> QED
  BY <1>8 DEF fs

(* The newest events taken stay the newest when the oldest goes and one     *)
(* comes, or when there is room and one comes.                              *)
LEMMA NewestShifted ==
  ASSUME NEW es \in Seq(Event), NEW taken \in Seq(Event), NEW limit \in Nat,
         NewestOf(es, taken, limit), limit > 0, Len(es) >= limit, NEW e \in Event
  PROVE  NewestOf(Append(Tail(es), e), Append(taken, e), limit)
<1> DEFINE r == Tail(es)  fs == Append(r, e)  after == Append(taken, e)
<1>1. Len(es) \in Nat /\ Len(taken) \in Nat /\ Len(es) = limit /\ Len(es) > 0
  BY DEF NewestOf
<1>2. /\ r \in Seq(Event) /\ Len(r) = Len(es) - 1
      /\ \A i \in 1 .. Len(r) : r[i] = es[i + 1]
  BY <1>1, ShorterSequence
<1> HIDE DEF r
<1>3. /\ Len(fs) = Len(r) + 1
      /\ \A i \in 1 .. Len(r) : fs[i] = r[i]
      /\ fs[Len(r) + 1] = e
  BY <1>2, LongerSequence
<1>4. /\ Len(after) = Len(taken) + 1
      /\ \A i \in 1 .. Len(taken) : after[i] = taken[i]
      /\ after[Len(taken) + 1] = e
  BY LongerSequence
<1> HIDE DEF fs, after
<1>5. Len(fs) = Len(es)
  BY <1>1, <1>2, <1>3
<1>6. ASSUME NEW i \in 1 .. Len(fs) PROVE fs[i] = after[Len(after) - Len(fs) + i]
  <2>1. CASE i = Len(es)
    <3>1. Len(after) - Len(fs) + i = Len(taken) + 1 /\ i = Len(r) + 1
      BY <2>1, <1>1, <1>2, <1>4, <1>5
    <3> QED
      BY <3>1, <1>3, <1>4
  <2>2. CASE i # Len(es)
    <3>1. i \in 1 .. Len(r) /\ i + 1 \in 1 .. Len(es)
      BY <2>2, <1>1, <1>2, <1>5
    <3>2. fs[i] = es[i + 1]
      BY <3>1, <1>2, <1>3
    <3>3. es[i + 1] = taken[Len(taken) - Len(es) + (i + 1)]
      BY <3>1 DEF NewestOf
    <3>4. /\ Len(taken) - Len(es) + (i + 1) = Len(after) - Len(fs) + i
          /\ Len(taken) - Len(es) + (i + 1) \in 1 .. Len(taken)
      BY <3>1, <1>1, <1>4, <1>5 DEF NewestOf
    <3> QED
      BY <3>2, <3>3, <3>4, <1>4
  <2> QED
    BY <2>1, <2>2
<1>7. NewestOf(fs, after, limit)
  BY <1>1, <1>4, <1>5, <1>6 DEF NewestOf
<1> QED
  BY <1>7 DEF fs, after, r

LEMMA NewestLonger ==
  ASSUME NEW es \in Seq(Event), NEW taken \in Seq(Event), NEW limit \in Nat,
         NewestOf(es, taken, limit), limit > 0 => Len(es) < limit, NEW e \in Event
  PROVE  NewestOf(Append(es, e), Append(taken, e), limit)
<1> DEFINE fs == Append(es, e)  after == Append(taken, e)
<1>1. Len(es) \in Nat /\ Len(taken) \in Nat /\ Len(es) = Len(taken)
  BY DEF NewestOf
<1>2. /\ Len(fs) = Len(es) + 1
      /\ \A i \in 1 .. Len(es) : fs[i] = es[i]
      /\ fs[Len(es) + 1] = e
  BY LongerSequence
<1>3. /\ Len(after) = Len(taken) + 1
      /\ \A i \in 1 .. Len(taken) : after[i] = taken[i]
      /\ after[Len(taken) + 1] = e
  BY LongerSequence
<1> HIDE DEF fs, after
<1>4. ASSUME NEW i \in 1 .. Len(fs) PROVE fs[i] = after[Len(after) - Len(fs) + i]
  <2>1. Len(after) - Len(fs) + i = i
    BY <1>1, <1>2, <1>3
  <2>2. CASE i = Len(es) + 1
    BY <2>1, <2>2, <1>1, <1>2, <1>3
  <2>3. CASE i # Len(es) + 1
    <3>1. i \in 1 .. Len(es) /\ Len(taken) - Len(es) + i = i
      BY <2>3, <1>1, <1>2
    <3>2. es[i] = taken[i]
      BY <3>1 DEF NewestOf
    <3> QED
      BY <3>1, <3>2, <2>1, <1>1, <1>2, <1>3
  <2> QED
    BY <2>2, <2>3
<1>5. NewestOf(fs, after, limit)
  BY <1>1, <1>2, <1>3, <1>4 DEF NewestOf
<1> QED
  BY <1>5 DEF fs, after

-----------------------------------------------------------------------------
(* A new log is empty, and so is its index.                                 *)
LEMMA NewLogMatches ==
  ASSUME NEW max \in Nat, NEW l, l = NewMemoryEventLog(max), NEW taken, taken = <<>>
  PROVE  /\ l.events \in Seq(Event) /\ l.limit \in Nat /\ taken \in Seq(Event)
         /\ IndexMatches(l.events, l.index) /\ NewestOf(l.events, taken, l.limit)
<1>1. PICK q : q = <<>>
  OBVIOUS
<1>2. q \in Seq(Event) /\ Len(q) = 0
  BY <1>1
<1>3. l.events = q /\ l.limit = max /\ taken = q /\ DOMAIN l.index = {}
  BY <1>1 DEF NewMemoryEventLog
<1>4. 1 .. Len(q) = {}
  BY <1>2
<1> HIDE <1>1
<1>5. IndexMatches(q, l.index)
  BY <1>3, <1>4 DEF IndexMatches
<1>6. NewestOf(q, q, max)
  BY <1>2, <1>4 DEF NewestOf
<1> QED
  BY <1>2, <1>3, <1>5, <1>6

(* A log that was read from a file has an entry for each of its events,     *)
(* since the file it accepts holds no ID twice.                             *)
LEMMA IndexLoaded ==
  ASSUME NEW es \in Seq(Event), Loads(es)
  PROVE  IndexMatches(es, Loaded(es).index)
<1> DEFINE ids == {es[i].id : i \in 1 .. Len(es)}
           ix  == [n \in ids |-> es[CHOOSE i \in 1 .. Len(es) : es[i].id = n]]
<1>1. Loaded(es).index = ix
  BY DEF Loaded
<1>2. \A i, j \in 1 .. Len(es) : es[i].id = es[j].id => i = j
  BY DEF Loads
<1>3. ASSUME NEW i \in 1 .. Len(es) PROVE ix[es[i].id] = es[i]
  <2> DEFINE k == CHOOSE j \in 1 .. Len(es) : es[j].id = es[i].id
  <2>1. k \in 1 .. Len(es) /\ es[k].id = es[i].id
    OBVIOUS
  <2>2. k = i
    BY <2>1, <1>2
  <2>3. ix[es[i].id] = es[k]
    OBVIOUS
  <2> QED
    BY <2>2, <2>3
<1>4. DOMAIN ix = ids
  OBVIOUS
<1> QED
  BY <1>1, <1>2, <1>3, <1>4 DEF IndexMatches

(* An append to a full log takes the head out of the slice and of the       *)
(* index first; either way one event with a new ID is added to both.        *)
LEMMA AppendPreservesLogInv ==
  ASSUME LogInv, NEW e \in Event, AppendEvent(e)
  PROVE  LogInv'
<1> DEFINE es == log.events  ix == log.index  lim == log.limit
<1>1. /\ es \in Seq(Event) /\ lim \in Nat /\ accepted \in Seq(Event)
      /\ IndexMatches(es, ix) /\ NewestOf(es, accepted, lim)
  BY DEF LogInv, LogTypeOK, LogOK
<1>2. CASE Refused(e) /\ UNCHANGED logVars
  BY <1>2 DEF LogInv, LogTypeOK, LogOK, logVars
<1>3. CASE ~Refused(e) /\ log' = Appended(log, e) /\ accepted' = Append(accepted, e)
  <2>1. e.id \notin DOMAIN ix
    BY <1>3 DEF Refused, Known
  <2>2. accepted' \in Seq(Event)
    BY <1>1, <1>3
  <2>3. log'.limit = lim
    BY <1>3 DEF Appended
  <2>4. CASE AtCapacity(log)
    <3> DEFINE rest == [n \in DOMAIN ix \ {Head(es).id} |-> ix[n]]
               more == [n \in DOMAIN rest \cup {e.id} |-> IF n = e.id THEN e ELSE rest[n]]
    <3>1. lim > 0 /\ Len(es) >= lim /\ Len(es) > 0
      BY <2>4, <1>1 DEF AtCapacity
    <3>2. IndexMatches(Tail(es), rest) /\ Tail(es) \in Seq(Event)
      BY <1>1, <3>1, IndexWithoutHead, ShorterSequence
    <3>3. e.id \notin DOMAIN rest
      BY <2>1
    <3>4. IndexMatches(Append(Tail(es), e), more)
      BY ZenonT(30), <3>2, <3>3, IndexWithLast
    <3>5. log'.events = Append(Tail(es), e)
      BY <1>3, <2>4 DEF Appended
    <3>6. log'.index = more
      BY <1>3, <2>4 DEF Appended, Dropped
    <3>7. NewestOf(Append(Tail(es), e), Append(accepted, e), lim)
      BY <1>1, <3>1, NewestShifted
    <3>8. Append(Tail(es), e) \in Seq(Event)
      BY <3>2
    <3> QED
      BY <1>1, <1>3, <2>2, <2>3, <3>4, <3>5, <3>6, <3>7, <3>8
         DEF LogInv, LogTypeOK, LogOK
  <2>5. CASE ~AtCapacity(log)
    <3> DEFINE more == [n \in DOMAIN ix \cup {e.id} |-> IF n = e.id THEN e ELSE ix[n]]
    <3>1. lim > 0 => Len(es) < lim
      BY <2>5, <1>1 DEF AtCapacity
    <3>2. IndexMatches(Append(es, e), more)
      BY <1>1, <2>1, IndexWithLast
    <3>3. log'.events = Append(es, e)
      BY <1>3, <2>5 DEF Appended
    <3>4. log'.index = more
      BY <1>3, <2>5 DEF Appended, Dropped
    <3>5. NewestOf(Append(es, e), Append(accepted, e), lim)
      BY <1>1, <3>1, NewestLonger
    <3>6. Append(es, e) \in Seq(Event)
      BY <1>1
    <3> QED
      BY <1>1, <1>3, <2>2, <2>3, <3>2, <3>3, <3>4, <3>5, <3>6
         DEF LogInv, LogTypeOK, LogOK
  <2> QED
    BY <2>4, <2>5
<1> QED
  BY <1>2, <1>3 DEF AppendEvent

LEMMA LoadPreservesLogInv ==
  ASSUME NEW es \in Seq(Event), Load(es)
  PROVE  LogInv'
<1>1. log'.events = es /\ log'.limit = 0 /\ log'.index = Loaded(es).index /\ accepted' = es
  BY DEF Load, Loaded
<1>2. IndexMatches(es, Loaded(es).index)
  BY IndexLoaded DEF Load
<1>3. Len(es) \in Nat
  OBVIOUS
<1>4. NewestOf(es, es, 0)
  BY <1>3 DEF NewestOf
<1> QED
  BY <1>1, <1>2, <1>4 DEF LogInv, LogTypeOK, LogOK

(* Every step of the log preserves it.                                      *)
LEMMA LogStep == LogInv /\ [LogNext]_logVars => LogInv'
<1> SUFFICES ASSUME LogInv, [LogNext]_logVars PROVE LogInv'
  OBVIOUS
<1>1. ASSUME NEW e \in Event, AppendEvent(e) PROVE LogInv'
  BY <1>1, AppendPreservesLogInv
<1>2. ASSUME NEW es \in Seq(Event), Load(es) PROVE LogInv'
  BY <1>2, LoadPreservesLogInv
<1>3. CASE Clear
  BY <1>3, NewLogMatches DEF Clear, LogInv, LogTypeOK, LogOK
<1>4. CASE Renew
  BY <1>4, NewLogMatches, EventLogAssumption DEF Renew, LogInv, LogTypeOK, LogOK
<1>5. CASE UNCHANGED logVars
  BY <1>5 DEF LogInv, LogTypeOK, LogOK, logVars
<1> QED
  BY <1>1, <1>2, <1>3, <1>4, <1>5 DEF LogNext

(* For every limit, and after every history of appends, clears, loads and   *)
(* restarts, the slice and the index of MemoryEventLog (eventlog.go) hold   *)
(* the same events, each once, and they are the newest that were taken.     *)
THEOREM LogStaysConsistent == LogSpec => []LogOK
<1>1. LogInit => LogInv
  BY NewLogMatches, EventLogAssumption DEF LogInit, LogInv, LogTypeOK, LogOK
<1>2. LogInv /\ [LogNext]_logVars => LogInv'
  BY LogStep
<1>3. LogInv => LogOK
  BY DEF LogInv
<1> QED
  BY <1>1, <1>2, <1>3, PTL DEF LogSpec

-----------------------------------------------------------------------------
FiringOK(f) ==
  /\ f = Firing(f.pc, f.t, f.ev, f.tok)
  /\ f.t \in Transition \cup {None} /\ f.ev \in Event

JobOK(s) ==
  /\ s = [pc |-> s.pc, kind |-> s.kind, todo |-> s.todo, taken |-> s.taken,
          events |-> s.events, quiet |-> s.quiet, owed |-> s.owed,
          limit |-> s.limit, started |-> s.started]
  /\ s.events \in Seq(Event)

FiringsOK ==
  /\ \A th \in Thread : FiringOK(fire[th])
  /\ DOMAIN fire = Thread /\ fire = [th \in Thread |-> fire[th]]

HandsOK ==
  /\ FiringsOK
  /\ counter \in Nat /\ starts \in Nat
  /\ JobOK(saver) /\ JobOK(file)

RecoveryInv == HandsOK /\ LogInv

(* NewEvent makes events.                                                   *)
LEMMA NewEventIsEvent ==
  ASSUME counter \in Nat, starts \in Nat, NEW type \in EventType,
         NEW t \in Transition \cup {None}
  PROVE  NewEvent(type, t) \in Event
  BY DEF NewEvent, Event

LEMMA NoEventIsEvent == NoEvent \in Event
  BY DEF NoEvent, Event, EventType, NoId

LEMMA IdleOK == FiringOK(Idle)
  BY NoEventIsEvent DEF FiringOK, Idle, Firing

(* The fields of a firing are set one by one.                               *)
LEMMA FiringUpdates ==
  ASSUME NEW f, FiringOK(f), NEW pc, NEW e \in Event, NEW tok
  PROVE  /\ FiringOK([f EXCEPT !.pc = pc])
         /\ FiringOK([f EXCEPT !.pc = pc, !.ev = e])
         /\ FiringOK([f EXCEPT !.pc = pc, !.ev = e, !.tok = tok])
<1>1. /\ f = Firing(f.pc, f.t, f.ev, f.tok)
      /\ f.t \in Transition \cup {None} /\ f.ev \in Event
  BY DEF FiringOK
<1> DEFINE g == [f EXCEPT !.pc = pc]
<1>2. g = Firing(pc, f.t, f.ev, f.tok)
  BY <1>1 DEF Firing
<1> HIDE DEF g
<1> DEFINE h == [g EXCEPT !.ev = e]
<1>3. h = Firing(pc, f.t, e, f.tok)
  BY <1>2 DEF Firing
<1> HIDE DEF h
<1> DEFINE k == [h EXCEPT !.tok = tok]
<1>4. k = Firing(pc, f.t, e, tok)
  BY <1>3 DEF Firing
<1> HIDE DEF k
<1>5. FiringOK(g) /\ FiringOK(h) /\ FiringOK(k)
  BY <1>1, <1>2, <1>3, <1>4 DEF FiringOK, Firing
<1>6. /\ g = [f EXCEPT !.pc = pc]
      /\ h = [f EXCEPT !.pc = pc, !.ev = e]
      /\ k = [f EXCEPT !.pc = pc, !.ev = e, !.tok = tok]
  BY Zenon DEF g, h, k
<1> QED
  BY <1>5, <1>6, Zenon

LEMMA NoJobOK == JobOK(NoJob)
<1>1. NoJob.events = <<>>
  BY DEF NoJob
<1>2. NoJob.events \in Seq(Event)
  BY <1>1
<1> QED
  BY <1>2 DEF JobOK, NoJob

(* One goroutine goes on with its firing.                                   *)
LEMMA SetFireOK ==
  ASSUME FiringsOK, NEW th \in Thread, NEW f, FiringOK(f), SetFire(th, f)
  PROVE  FiringsOK'
<1>1. fire' = [fire EXCEPT ![th] = f]
  BY DEF SetFire
<1>2. DOMAIN fire' = Thread /\ \A u \in Thread : fire'[u] = IF u = th THEN f ELSE fire[u]
  BY <1>1 DEF FiringsOK
<1>3. \A u \in Thread : FiringOK(fire'[u])
  BY <1>2 DEF FiringsOK
<1>4. fire' = [u \in Thread |-> fire'[u]]
  BY <1>1, <1>2 DEF FiringsOK
<1> QED
  BY <1>2, <1>3, <1>4 DEF FiringsOK, FiringOK, Firing

(* A step of a firing: the firing is well formed again, and what it appends *)
(* is an event.                                                             *)
LEMMA FiringStepOK ==
  ASSUME HandsOK, FiringStep, UNCHANGED <<file, starts>>
  PROVE  HandsOK' /\ [LogNext]_logVars
<1> PICK th \in Thread :
      \/ \E t \in Transition : Begin(th, t)
      \/ LogFired(th) \/ Consume(th) \/ ConsumeFails(th) \/ TaskReturns(th)
      \/ LogFailed(th) \/ Give(th)
  BY DEF FiringStep
<1> DEFINE f == fire[th]
<1>1. /\ FiringsOK /\ f = Firing(f.pc, f.t, f.ev, f.tok)
      /\ f.t \in Transition \cup {None} /\ f.ev \in Event
      /\ counter \in Nat /\ starts \in Nat /\ JobOK(saver) /\ JobOK(file)
  BY DEF HandsOK, FiringsOK, FiringOK
<1>0. FiringOK(f)
  BY DEF HandsOK, FiringsOK
<1>2. file' = file /\ starts' = starts
  OBVIOUS
<1>3. ASSUME NEW t \in Transition, Begin(th, t) PROVE HandsOK' /\ [LogNext]_logVars
  <2>1. NewEvent("fired", t) \in Event
    BY <1>1, NewEventIsEvent DEF EventType
  <2>2. FiringOK(Firing("log_fired", t, NewEvent("fired", t), NoToken))
    BY <2>1 DEF FiringOK, Firing
  <2>3. FiringsOK'
    BY <1>1, <1>3, <2>2, SetFireOK DEF Begin
  <2>4. /\ counter' = counter + 1 /\ saver' = saver /\ UNCHANGED logVars
    BY <1>3 DEF Begin
  <2> QED
    BY <1>1, <1>2, <2>3, <2>4 DEF HandsOK, JobOK
<1>4. CASE LogFired(th)
  <2>1. FiringOK([f EXCEPT !.pc = "consume"])
    BY <1>1 DEF FiringOK, Firing
  <2>2. FiringsOK'
    BY <1>1, <1>4, <2>1, SetFireOK DEF LogFired
  <2>3. counter' = counter /\ saver' = saver /\ AppendEvent(f.ev)
    BY <1>4 DEF LogFired
  <2> QED
    BY <1>1, <1>2, <2>2, <2>3 DEF HandsOK, JobOK, LogNext
<1>5. CASE Consume(th)
  <2>1. FiringOK([f EXCEPT !.pc = "task", !.ev = NoEvent, !.tok = Head(tokens[In[f.t]])])
    BY <1>0, NoEventIsEvent, FiringUpdates
  <2>2. FiringsOK'
    BY <1>1, <1>5, <2>1, SetFireOK DEF Consume
  <2>3. counter' = counter /\ JobOK(saver') /\ UNCHANGED logVars
    BY <1>1, <1>5 DEF Consume, Disturb, JobOK
  <2> QED
    BY <1>1, <1>2, <2>2, <2>3 DEF HandsOK, JobOK
<1>6. CASE ConsumeFails(th)
  <2>1. FiringsOK'
    BY <1>1, <1>6, IdleOK, SetFireOK DEF ConsumeFails
  <2>2. counter' = counter /\ saver' = saver /\ UNCHANGED logVars
    BY <1>6 DEF ConsumeFails
  <2> QED
    BY <1>1, <1>2, <2>1, <2>2 DEF HandsOK, JobOK
<1>7. CASE TaskReturns(th)
  <2>1. FiringOK([f EXCEPT !.pc = "produce"])
    BY <1>1 DEF FiringOK, Firing
  <2>2. NewEvent("failed", f.t) \in Event
    BY <1>1, NewEventIsEvent DEF EventType
  <2>3. FiringOK([f EXCEPT !.pc = "log_failed", !.ev = NewEvent("failed", f.t)])
    BY <1>0, <2>2, FiringUpdates
  <2>4. FiringsOK'
    BY <1>1, <1>7, <2>1, <2>3, SetFireOK DEF TaskReturns
  <2>5. counter' \in Nat /\ saver' = saver /\ UNCHANGED logVars
    BY <1>1, <1>7 DEF TaskReturns
  <2> QED
    BY <1>1, <1>2, <2>4, <2>5 DEF HandsOK, JobOK
<1>8. CASE LogFailed(th)
  <2>1. FiringOK([f EXCEPT !.pc = "rollback"])
    BY <1>1 DEF FiringOK, Firing
  <2>2. FiringsOK'
    BY <1>1, <1>8, <2>1, SetFireOK DEF LogFailed
  <2>3. counter' = counter /\ saver' = saver /\ AppendEvent(f.ev)
    BY <1>8 DEF LogFailed
  <2> QED
    BY <1>1, <1>2, <2>2, <2>3 DEF HandsOK, JobOK, LogNext
<1>9. CASE Give(th)
  <2>1. FiringsOK'
    BY <1>1, <1>9, IdleOK, SetFireOK DEF Give
  <2>2. counter' = counter /\ JobOK(saver') /\ UNCHANGED logVars
    BY <1>1, <1>9 DEF Give, Disturb, JobOK
  <2> QED
    BY <1>1, <1>2, <2>1, <2>2 DEF HandsOK, JobOK
<1> QED
  BY <1>3, <1>4, <1>5, <1>6, <1>7, <1>8, <1>9

(* Start and Stop log one event each.                                       *)
LEMMA EngineStepOK ==
  ASSUME HandsOK, Start \/ Stop, UNCHANGED <<file, starts>>
  PROVE  HandsOK' /\ [LogNext]_logVars
<1>1. counter \in Nat /\ starts \in Nat /\ FiringsOK /\ JobOK(saver) /\ JobOK(file)
  BY DEF HandsOK
<1>2. NewEvent("started", None) \in Event /\ NewEvent("stopped", None) \in Event
  BY <1>1, NewEventIsEvent DEF EventType
<1>3. LogNext
  BY <1>2 DEF Start, Stop, LogNext
<1>4. fire' = fire /\ counter' = counter + 1 /\ file' = file /\ starts' = starts
  BY DEF Start, Stop
<1>5. JobOK(saver')
  BY <1>1 DEF Start, Stop, JobOK
<1> QED
  BY <1>1, <1>3, <1>4, <1>5 DEF HandsOK, FiringsOK, FiringOK, JobOK

(* The fields of a job are set one by one.                                  *)
LEMMA JobUpdates ==
  ASSUME NEW s, JobOK(s), NEW v
  PROVE  /\ JobOK([s EXCEPT !.pc = v]) /\ JobOK([s EXCEPT !.kind = v])
         /\ JobOK([s EXCEPT !.todo = v]) /\ JobOK([s EXCEPT !.taken = v])
         /\ JobOK([s EXCEPT !.quiet = v]) /\ JobOK([s EXCEPT !.owed = v])
         /\ JobOK([s EXCEPT !.limit = v]) /\ JobOK([s EXCEPT !.started = v])
         /\ v \in Seq(Event) => JobOK([s EXCEPT !.events = v])
<1> DEFINE R(a, b, c, d, e, q, o, l, n) ==
      [pc |-> a, kind |-> b, todo |-> c, taken |-> d, events |-> e,
       quiet |-> q, owed |-> o, limit |-> l, started |-> n]
<1>1. /\ s = R(s.pc, s.kind, s.todo, s.taken, s.events, s.quiet, s.owed, s.limit, s.started)
      /\ s.events \in Seq(Event)
  BY DEF JobOK
<1>2. \A a, b, c, d, e, q, o, l, n : e \in Seq(Event) => JobOK(R(a, b, c, d, e, q, o, l, n))
  BY DEF JobOK
<1>3. /\ [s EXCEPT !.pc = v]
          = R(v, s.kind, s.todo, s.taken, s.events, s.quiet, s.owed, s.limit, s.started)
      /\ [s EXCEPT !.kind = v]
          = R(s.pc, v, s.todo, s.taken, s.events, s.quiet, s.owed, s.limit, s.started)
      /\ [s EXCEPT !.todo = v]
          = R(s.pc, s.kind, v, s.taken, s.events, s.quiet, s.owed, s.limit, s.started)
      /\ [s EXCEPT !.taken = v]
          = R(s.pc, s.kind, s.todo, v, s.events, s.quiet, s.owed, s.limit, s.started)
      /\ [s EXCEPT !.quiet = v]
          = R(s.pc, s.kind, s.todo, s.taken, s.events, v, s.owed, s.limit, s.started)
      /\ [s EXCEPT !.owed = v]
          = R(s.pc, s.kind, s.todo, s.taken, s.events, s.quiet, v, s.limit, s.started)
      /\ [s EXCEPT !.limit = v]
          = R(s.pc, s.kind, s.todo, s.taken, s.events, s.quiet, s.owed, v, s.started)
      /\ [s EXCEPT !.started = v]
          = R(s.pc, s.kind, s.todo, s.taken, s.events, s.quiet, s.owed, s.limit, v)
      /\ [s EXCEPT !.events = v]
          = R(s.pc, s.kind, s.todo, s.taken, v, s.quiet, s.owed, s.limit, s.started)
  BY <1>1
<1> HIDE DEF R
<1> QED
  BY <1>1, <1>2, <1>3

(* Several fields at a time, as the steps of the operator set them.         *)
LEMMA JobUpdatesTogether ==
  ASSUME NEW s, JobOK(s), NEW p, NEW k, NEW q, NEW es \in Seq(Event)
  PROVE  /\ JobOK([s EXCEPT !.pc = p, !.kind = k, !.events = es])
         /\ JobOK([s EXCEPT !.pc = p, !.events = es, !.limit = k])
         /\ JobOK([s EXCEPT !.pc = p, !.taken = k, !.started = q])
         /\ JobOK([s EXCEPT !.todo = k, !.taken = q])
         /\ JobOK([s EXCEPT !.pc = p, !.owed = k])
<1> DEFINE a == [s EXCEPT !.pc = p]
           t == [s EXCEPT !.todo = k]
<1>1. JobOK(a) /\ JobOK(t)
  BY JobUpdates
<1> HIDE DEF a, t
<1> DEFINE b == [a EXCEPT !.kind = k]
           c == [a EXCEPT !.events = es]
           d == [a EXCEPT !.taken = k]
           u == [t EXCEPT !.taken = q]
           v == [a EXCEPT !.owed = k]
<1>2. JobOK(b) /\ JobOK(c) /\ JobOK(d) /\ JobOK(u) /\ JobOK(v)
  BY <1>1, JobUpdates
<1> HIDE DEF b, c, d
<1> DEFINE x == [b EXCEPT !.events = es]
           y == [c EXCEPT !.limit = k]
           z == [d EXCEPT !.started = q]
<1>3. JobOK(x) /\ JobOK(y) /\ JobOK(z)
  BY <1>2, JobUpdates
<1>4. /\ x = [s EXCEPT !.pc = p, !.kind = k, !.events = es]
      /\ y = [s EXCEPT !.pc = p, !.events = es, !.limit = k]
      /\ z = [s EXCEPT !.pc = p, !.taken = k, !.started = q]
      /\ u = [s EXCEPT !.todo = k, !.taken = q]
      /\ v = [s EXCEPT !.pc = p, !.owed = k]
  BY Zenon DEF a, b, c, d, t
<1> HIDE DEF u, v, x, y, z
<1> QED
  BY <1>2, <1>3, <1>4, Zenon

(* A step of the operator: what it has in hands are events of the log or of *)
(* the file, and what it loads into the log were once in a log.             *)
LEMMA OperatorStepOK ==
  ASSUME RecoveryInv, OperatorStep, UNCHANGED <<file, starts>>
  PROVE  HandsOK' /\ [LogNext]_logVars
<1>1. /\ FiringsOK /\ counter \in Nat /\ starts \in Nat
      /\ JobOK(saver) /\ JobOK(file) /\ GetAll \in Seq(Event)
      /\ JobOK(NoJob)
  BY NoJobOK DEF RecoveryInv, HandsOK, LogInv, LogTypeOK, GetAll
<1>2. file' = file /\ starts' = starts
  OBVIOUS
<1>3. ASSUME JobOK(saver'), UNCHANGED <<fire, counter>>, [LogNext]_logVars
      PROVE  HandsOK' /\ [LogNext]_logVars
  BY <1>1, <1>2, <1>3 DEF HandsOK, FiringsOK, FiringOK, JobOK
<1>4. ASSUME NEW kind \in {"marking", "workflow"}, Checkpoint(kind) PROVE JobOK(saver')
  BY <1>1, <1>4 DEF Checkpoint, JobOK
<1>5. ASSUME Capture PROVE JobOK(saver')
  <2> PICK p \in saver.todo :
        LET q == [saver EXCEPT !.todo = @ \ {p},
                               !.taken = [r \in DOMAIN @ \cup {p} |->
                                            IF r = p THEN tokens[p] ELSE @[r]]]
        IN saver' = IF q.todo = {} THEN Captured(q) ELSE q
    BY <1>5 DEF Capture
  <2> DEFINE q == [saver EXCEPT !.todo = @ \ {p},
                                !.taken = [r \in DOMAIN @ \cup {p} |->
                                             IF r = p THEN tokens[p] ELSE @[r]]]
  <2>1. JobOK(q)
    BY <1>1, JobUpdatesTogether
  <2>2. saver' = q \/ saver' = Captured(q)
    OBVIOUS
  <2> HIDE DEF q
  <2>3. JobOK(Captured(q))
    BY <1>1, <2>1, JobUpdatesTogether DEF Captured
  <2> QED
    BY <2>1, <2>2, <2>3
<1>6. ASSUME TakeEvents PROVE JobOK(saver')
  BY <1>1, <1>6, JobUpdatesTogether DEF TakeEvents
<1>7. ASSUME SaveLog PROVE JobOK(saver')
  BY <1>1, <1>7, JobUpdatesTogether DEF SaveLog
<1>8. ASSUME RestoreFromFile PROVE JobOK(saver')
  BY <1>1, <1>8, JobUpdatesTogether DEF RestoreFromFile
<1>9. CASE RestoreMarking
  BY <1>1, <1>3, <1>9 DEF RestoreMarking, logVars
<1>10. CASE LoadLog
  <2>1. LogNext
    BY <1>1, <1>10 DEF LoadLog, LogNext, JobOK
  <2> QED
    BY <1>1, <1>3, <1>10, <2>1 DEF LoadLog
<1>11. CASE ClearLog
  BY <1>1, <1>3, <1>11 DEF ClearLog, LogNext
<1>12. CASE Checkpoint("marking") \/ Checkpoint("workflow")
  BY <1>3, <1>4, <1>12 DEF Checkpoint, volatile, logVars
<1>13. CASE Capture
  BY <1>3, <1>5, <1>13 DEF Capture, volatile, logVars
<1>14. CASE TakeEvents \/ SaveLog \/ RestoreFromFile
  BY <1>3, <1>6, <1>7, <1>8, <1>14 DEF TakeEvents, SaveLog, RestoreFromFile, volatile, logVars
<1> QED
  BY <1>9, <1>10, <1>11, <1>12, <1>13, <1>14 DEF OperatorStep

(* The file gets what the operator has in hands.                            *)
LEMMA FileStepOK ==
  ASSUME HandsOK, OpenFile \/ WriteFile, UNCHANGED starts
  PROVE  HandsOK' /\ [LogNext]_logVars
<1>1. /\ FiringsOK /\ counter \in Nat /\ starts \in Nat
      /\ JobOK(saver) /\ JobOK(file) /\ JobOK(NoJob)
  BY NoJobOK DEF HandsOK
<1>2. JobOK(NoFile)
  BY <1>1, JobUpdates DEF NoFile
<1>3. UNCHANGED <<fire, counter, starts, logVars>>
  BY DEF OpenFile, WriteFile, volatile
<1>4. JobOK(saver') /\ JobOK(file')
  <2>1. CASE OpenFile
    <3>1. JobOK([saver EXCEPT !.pc = "write"])
      BY <1>1, JobUpdates
    <3>2. JobOK([NoFile EXCEPT !.kind = "torn"])
      BY <1>2, JobUpdates
    <3> QED
      BY <2>1, <3>1, <3>2 DEF OpenFile
  <2>2. CASE WriteFile
    <3>1. JobOK([saver EXCEPT !.pc = "file"])
      BY <1>1, JobUpdates
    <3> QED
      BY <1>1, <2>2, <3>1 DEF WriteFile
  <2> QED
    BY <2>1, <2>2
<1> QED
  BY <1>1, <1>3, <1>4 DEF HandsOK, FiringsOK, FiringOK, JobOK

(* A process begins with empty hands and an empty log.                      *)
LEMMA CrashOK ==
  ASSUME HandsOK, Crash
  PROVE  HandsOK' /\ [LogNext]_logVars
<1>1. starts \in Nat /\ JobOK(file) /\ JobOK(NoJob)
  BY NoJobOK DEF HandsOK
<1>2. /\ starts' = starts + 1 /\ counter' = 0 /\ saver' = NoJob /\ file' = file
      /\ fire' = [th \in Thread |-> Idle] /\ Renew
  BY DEF Crash, NewProcess
<1>3. FiringsOK'
  BY <1>2, IdleOK DEF FiringsOK, FiringOK, Firing
<1> QED
  BY <1>1, <1>2, <1>3 DEF HandsOK, LogNext, JobOK

LEMMA InitOK == Init => RecoveryInv
<1> SUFFICES ASSUME Init PROVE RecoveryInv
  OBVIOUS
<1>1. FiringsOK
  BY IdleOK DEF Init, FiringsOK
<1>2. JobOK(saver) /\ JobOK(file)
  <2>1. JobOK(NoFile)
    BY NoJobOK, JobUpdates DEF NoFile
  <2> QED
    BY <2>1, NoJobOK, JobUpdates DEF Init
<1>3. LogInv
  BY NewLogMatches, EventLogAssumption DEF Init, LogInit, LogInv, LogTypeOK, LogOK
<1> QED
  BY <1>1, <1>2, <1>3 DEF RecoveryInv, HandsOK, Init

LEMMA StepOK == RecoveryInv /\ [Next]_vars => RecoveryInv' /\ [LogNext]_logVars
<1> SUFFICES ASSUME RecoveryInv, [Next]_vars
             PROVE  RecoveryInv' /\ [LogNext]_logVars
  OBVIOUS
<1>1. HandsOK /\ LogInv
  BY DEF RecoveryInv
<1>2. HandsOK' /\ [LogNext]_logVars
  <2>1. CASE FiringStep /\ UNCHANGED <<file, starts>>
    BY <1>1, <2>1, FiringStepOK
  <2>2. CASE (Start \/ Stop) /\ UNCHANGED <<file, starts>>
    BY <1>1, <2>2, EngineStepOK
  <2>3. CASE OperatorStep /\ UNCHANGED <<file, starts>>
    BY <2>3, OperatorStepOK
  <2>4. CASE (OpenFile \/ WriteFile) /\ UNCHANGED starts
    BY <1>1, <2>4, FileStepOK
  <2>5. CASE Crash
    BY <1>1, <2>5, CrashOK
  <2>6. CASE UNCHANGED vars
    BY <1>1, <2>6 DEF vars, volatile, HandsOK, FiringsOK, FiringOK, JobOK, logVars
  <2> QED
    BY <2>1, <2>2, <2>3, <2>4, <2>5, <2>6 DEF Next
<1>3. LogInv'
  BY <1>1, <1>2, LogStep
<1> QED
  BY <1>2, <1>3 DEF RecoveryInv

(* Whatever the engine, the operator and the crashes of the process do, the *)
(* log does what MemoryEventLog (state/eventlog.go) does.                   *)
THEOREM RecoveryUsesLog == Spec => LogSpec
<1>1. Init => LogInit
  BY DEF Init
<1>2. QED
  BY <1>1, InitOK, StepOK, PTL DEF Spec, LogSpec

(* In every instance, with any number of goroutines, crashes and loads, the *)
(* slice and the index of the log of the running process agree.             *)
THEOREM RecoveredLogConsistent == Spec => []LogOK
  BY RecoveryUsesLog, LogStaysConsistent, PTL

-----------------------------------------------------------------------------
(* Events are numbered: those of earlier processes are old, those of this   *)
(* one have numbers up to the counter, and one that a firing is about to    *)
(* log has a number that no event of this process in the log has.           *)
Pending(th) == fire[th].pc \in {"log_fired", "log_failed"}

Numbered(e) == e.at < starts \/ (e.at = starts /\ e.id <= counter)

NumbersOK ==
  /\ \A e \in Range(log.events) : Numbered(e)
  /\ \A e \in Range(saver.events) : Numbered(e)
  /\ \A e \in Range(file.events) : Numbered(e)

PendingOK ==
  /\ \A th \in Thread : Pending(th) =>
       /\ fire[th].ev.at = starts /\ fire[th].ev.id # NoId /\ fire[th].ev.id <= counter
       /\ \A f \in Range(log.events) : f.at = starts => f.id # fire[th].ev.id
  /\ \A th, u \in Thread :
       Pending(th) /\ Pending(u) /\ th # u => fire[th].ev.id # fire[u].ev.id

(* A process that has not run its engine has numbered and taken nothing.    *)
UnusedOK ==
  /\ running => everRan
  /\ ~everRan => /\ counter = 0 /\ took = {}
                 /\ \A th \in Thread : fire[th].pc = "idle"

(* The log covers the firings that took their tokens, those that are about  *)
(* to, and those that a finished marking shows.                             *)
LogCovers(e) == Covers(log.events, log.limit, e)

LogCoverOK ==
  /\ \A e \in took : LogCovers(e)
  /\ \A th \in Thread : fire[th].pc = "consume" => LogCovers(fire[th].ev)
  /\ saver.pc = "events" => \A e \in saver.owed : LogCovers(e)

(* What is being written covers its marking.                                *)
JobCoverOK ==
  saver.pc \in {"open", "write"} /\ saver.kind = "workflow" =>
    \A e \in saver.owed : Covers(saver.events, saver.limit, e)

CoverInv ==
  NumbersOK /\ PendingOK /\ UnusedOK /\ LogCoverOK /\ JobCoverOK /\ EventsCoverMarking

(* The job, as far as its events are concerned.                             *)
SameJob ==
  /\ saver'.pc = saver.pc /\ saver'.kind = saver.kind /\ saver'.owed = saver.owed
  /\ saver'.events = saver.events /\ saver'.limit = saver.limit

LEMMA SequenceRange ==
  ASSUME NEW es \in Seq(Event)
  PROVE  Range(es) \subseteq Event /\ Range(es) = {es[i] : i \in 1 .. Len(es)}
  BY DEF Range

(* An append adds one event to what the log lists, and drops others only    *)
(* when the log is full.                                                    *)
LEMMA AppendEffect ==
  ASSUME LogInv, NEW e \in Event, AppendEvent(e)
  PROVE  /\ Range(log'.events) \subseteq Range(log.events) \cup {e}
         /\ \A x : LogCovers(x) => LogCovers(x)'
         /\ e.id # NoId /\ (\A f \in Range(log.events) : f.id = e.id => f.at < e.at)
              => LogCovers(e)'
<1> DEFINE es == log.events  ds == log'.events
<1>1. /\ es \in Seq(Event) /\ log.limit \in Nat /\ Len(es) \in Nat
      /\ log.limit > 0 => Len(es) <= log.limit
      /\ DOMAIN log.index = {es[n].id : n \in 1 .. Len(es)}
  BY DEF LogInv, LogTypeOK, LogOK, NewestOf, IndexMatches
<1>2. Range(es) = {es[n] : n \in 1 .. Len(es)}
  BY <1>1, SequenceRange
<1>3. CASE Refused(e) /\ UNCHANGED logVars
  <2>1. log' = log
    BY <1>3 DEF logVars
  <2>2. e.id # NoId => \E f \in Range(es) : f.id = e.id
    BY <1>1, <1>2, <1>3 DEF Refused, Known
  <2> QED
    BY <2>1, <2>2 DEF LogCovers, Covers
<1>4. CASE ~Refused(e) /\ log' = Appended(log, e)
  <2>1. log'.limit = log.limit
    BY <1>4 DEF Appended
  <2>2. CASE AtCapacity(log)
    <3>1. Len(es) > 0 /\ Len(es) = log.limit /\ log.limit > 0
      BY <1>1, <2>2 DEF AtCapacity
    <3>2. ds = Append(Tail(es), e)
      BY <1>4, <2>2 DEF Appended
    <3>3. /\ Tail(es) \in Seq(Event) /\ Len(Tail(es)) = Len(es) - 1
          /\ \A n \in 1 .. Len(Tail(es)) : Tail(es)[n] = es[n + 1]
      BY <1>1, <3>1, ShorterSequence
    <3> DEFINE q == Tail(es)
    <3> HIDE DEF q
    <3>4. /\ Append(q, e) \in Seq(Event) /\ Len(Append(q, e)) = Len(q) + 1
          /\ \A n \in 1 .. Len(q) : Append(q, e)[n] = q[n]
          /\ Append(q, e)[Len(q) + 1] = e
      BY <3>3, LongerSequence DEF q
    <3>5. Len(ds) = log'.limit /\ log'.limit > 0
      BY <1>1, <2>1, <3>1, <3>2, <3>3, <3>4 DEF q
    <3>6. Range(ds) = {ds[n] : n \in 1 .. Len(ds)}
      BY <3>2, <3>4, SequenceRange DEF q
    <3>7. ASSUME NEW n \in 1 .. Len(ds) PROVE ds[n] \in Range(es) \cup {e}
      <4>1. CASE n = Len(q) + 1
        BY <3>2, <3>4, <4>1 DEF q
      <4>2. CASE n # Len(q) + 1
        <5>1. n \in 1 .. Len(q) /\ n + 1 \in 1 .. Len(es)
          BY <1>1, <3>2, <3>3, <3>4, <4>2 DEF q
        <5>2. ds[n] = es[n + 1]
          BY <3>2, <3>3, <3>4, <5>1 DEF q
        <5> QED
          BY <1>2, <5>1, <5>2
      <4> QED
        BY <4>1, <4>2
    <3>8. \A x : LogCovers(x)'
      BY <3>5 DEF LogCovers, Covers
    <3> QED
      BY <3>6, <3>7, <3>8
  <2>3. CASE ~AtCapacity(log)
    <3>1. ds = Append(es, e)
      BY <1>4, <2>3 DEF Appended
    <3>2. /\ ds \in Seq(Event) /\ Len(ds) = Len(es) + 1
          /\ \A n \in 1 .. Len(es) : ds[n] = es[n]
          /\ ds[Len(es) + 1] = e
      BY <1>1, <3>1, LongerSequence
    <3>3. Range(ds) = {ds[n] : n \in 1 .. Len(ds)}
      BY <3>2, SequenceRange
    <3>4. Range(ds) = Range(es) \cup {e}
      <4>1. ASSUME NEW n \in 1 .. Len(ds) PROVE ds[n] \in Range(es) \cup {e}
        <5>1. n = Len(es) + 1 \/ n \in 1 .. Len(es)
          BY <1>1, <3>2
        <5> QED
          BY <1>2, <3>2, <5>1
      <4>2. ASSUME NEW n \in 1 .. Len(es) PROVE es[n] \in Range(ds)
        <5>1. n \in 1 .. Len(ds) /\ ds[n] = es[n]
          BY <1>1, <3>2
        <5> QED
          BY <3>3, <5>1
      <4>3. e \in Range(ds)
        <5>1. Len(es) + 1 \in 1 .. Len(ds)
          BY <1>1, <3>2
        <5> QED
          BY <3>2, <3>3, <5>1
      <4> QED
        BY <1>2, <3>3, <4>1, <4>2, <4>3
    <3>5. ~(log.limit > 0 /\ Len(es) = log.limit)
      BY <1>1, <2>3 DEF AtCapacity
    <3> QED
      BY <3>4, <3>5 DEF LogCovers, Covers
  <2> QED
    BY <2>2, <2>3
<1> QED
  BY <1>3, <1>4 DEF AppendEvent

LEMMA CoverTypes ==
  ASSUME RecoveryInv
  PROVE  /\ counter \in Nat /\ starts \in Nat
         /\ \A th \in Thread : fire[th].ev \in Event /\ fire[th].t \in Transition \cup {None}
         /\ Range(log.events) \subseteq Event
         /\ Range(saver.events) \subseteq Event /\ Range(file.events) \subseteq Event
<1>1. /\ log.events \in Seq(Event) /\ saver.events \in Seq(Event)
      /\ file.events \in Seq(Event)
  BY DEF RecoveryInv, HandsOK, JobOK, LogInv, LogTypeOK
<1>2. /\ Range(log.events) \subseteq Event
      /\ Range(saver.events) \subseteq Event /\ Range(file.events) \subseteq Event
  BY <1>1, SequenceRange
<1> QED
  BY <1>2 DEF RecoveryInv, HandsOK, FiringsOK, FiringOK

(* What a step of a firing keeps.  It may number one event, or append the   *)
(* one that it has numbered, or take a token after it has logged that.      *)
LEMMA FiringCovers ==
  ASSUME RecoveryInv, CoverInv, NEW th \in Thread, NEW f, SetFire(th, f),
         SameJob, UNCHANGED <<file, starts, running, everRan>>, everRan,
         counter' \in Nat, counter' >= counter,
         \/ UNCHANGED logVars
         \/ /\ Pending(th) /\ f.pc \notin {"log_fired", "log_failed"}
            /\ Range(log'.events) \subseteq Range(log.events) \cup {fire[th].ev}
            /\ \A x : LogCovers(x) => LogCovers(x)',
         f.pc \in {"log_fired", "log_failed"} =>
           f.ev.at = starts /\ f.ev.id = counter + 1 /\ counter' = counter + 1,
         f.pc = "consume" => Covers(log'.events, log'.limit, f.ev),
         \A e \in took' : e \in took \/ (fire[th].pc = "consume" /\ e = fire[th].ev)
  PROVE  CoverInv'
<1>1. /\ counter \in Nat /\ starts \in Nat
      /\ \A u \in Thread : fire[u].ev \in Event
      /\ Range(log.events) \subseteq Event
      /\ Range(saver.events) \subseteq Event /\ Range(file.events) \subseteq Event
  BY CoverTypes
<1>2. NumbersOK /\ PendingOK /\ UnusedOK /\ LogCoverOK /\ JobCoverOK /\ EventsCoverMarking
  BY DEF CoverInv
<1>3. \A u \in Thread : fire'[u] = IF u = th THEN f ELSE fire[u]
  BY DEF SetFire, RecoveryInv, HandsOK, FiringsOK
<1>4. /\ \A e \in Range(log'.events) : e \in Range(log.events) \/ (Pending(th) /\ e = fire[th].ev)
      /\ f.pc \in {"log_fired", "log_failed"} => log' = log
      /\ \A x : LogCovers(x) => LogCovers(x)'
  <2>1. CASE UNCHANGED logVars
    BY <2>1 DEF logVars, LogCovers, Covers
  <2>2. CASE /\ Pending(th) /\ f.pc \notin {"log_fired", "log_failed"}
             /\ Range(log'.events) \subseteq Range(log.events) \cup {fire[th].ev}
             /\ \A x : LogCovers(x) => LogCovers(x)'
    BY <2>2
  <2> QED
    BY <2>1, <2>2
<1>5. \A e \in Event : Numbered(e) => Numbered(e)'
  BY <1>1 DEF Numbered, Event
<1>6. NumbersOK'
  <2>1. ASSUME NEW e \in Range(log'.events) PROVE Numbered(e)'
    <3>1. CASE e \in Range(log.events)
      BY <1>1, <1>2, <1>5, <3>1 DEF NumbersOK
    <3>2. CASE Pending(th) /\ e = fire[th].ev
      BY <1>1, <1>2, <3>2 DEF PendingOK, Numbered, Event
    <3> QED
      BY <1>4, <3>1, <3>2
  <2>2. \A e \in Range(saver'.events) : Numbered(e)'
    BY <1>1, <1>2, <1>5 DEF NumbersOK, SameJob
  <2>3. \A e \in Range(file'.events) : Numbered(e)'
    BY <1>1, <1>2, <1>5 DEF NumbersOK
  <2> QED
    BY <2>1, <2>2, <2>3 DEF NumbersOK
<1>7. ASSUME NEW u \in Thread, Pending(u)'
      PROVE  /\ fire'[u].ev.at = starts /\ fire'[u].ev.id # NoId
             /\ fire'[u].ev.id <= counter'
             /\ \A g \in Range(log'.events) : g.at = starts => g.id # fire'[u].ev.id
  <2>1. CASE u = th
    <3>1. fire'[u] = f /\ f.pc \in {"log_fired", "log_failed"}
      BY <1>3, <1>7, <2>1 DEF Pending
    <3>2. \A g \in Range(log.events) : g.at = starts => g.id <= counter /\ g.id \in Nat
      BY <1>1, <1>2 DEF NumbersOK, Numbered, Event
    <3> QED
      BY <1>1, <1>4, <3>1, <3>2 DEF NoId
  <2>2. CASE u # th
    <3>1. fire'[u] = fire[u] /\ Pending(u)
      BY <1>3, <1>7, <2>2 DEF Pending
    <3>2. /\ fire[u].ev.at = starts /\ fire[u].ev.id # NoId /\ fire[u].ev.id <= counter
          /\ \A g \in Range(log.events) : g.at = starts => g.id # fire[u].ev.id
      BY <1>2, <3>1 DEF PendingOK
    <3>3. Pending(th) => fire[th].ev.id # fire[u].ev.id
      BY <1>2, <2>2, <3>1 DEF PendingOK
    <3>4. fire[u].ev.id \in Nat
      BY <1>1 DEF Event
    <3>5. fire[u].ev.id <= counter'
      BY <1>1, <3>2, <3>4
    <3> QED
      BY <1>4, <3>1, <3>2, <3>3, <3>5
  <2> QED
    BY <2>1, <2>2
<1>8. ASSUME NEW u \in Thread, NEW w \in Thread, Pending(u)', Pending(w)', u # w
      PROVE  fire'[u].ev.id # fire'[w].ev.id
  <2>1. \A x \in Thread : Pending(x) => fire[x].ev.id <= counter /\ fire[x].ev.id \in Nat
    BY <1>1, <1>2 DEF PendingOK, Event
  <2>2. CASE u = th
    BY <1>1, <1>3, <1>8, <2>1, <2>2 DEF Pending
  <2>3. CASE w = th
    BY <1>1, <1>3, <1>8, <2>1, <2>3 DEF Pending
  <2>4. CASE u # th /\ w # th
    BY <1>2, <1>3, <1>8, <2>4 DEF Pending, PendingOK
  <2> QED
    BY <2>2, <2>3, <2>4
<1>9. PendingOK'
  BY <1>7, <1>8 DEF PendingOK
<1>10. UnusedOK'
  BY <1>2 DEF UnusedOK
<1>11. LogCoverOK'
  <2> DEFINE Now(e) == Covers(log'.events, log'.limit, e)
  <2>0. \A x : LogCovers(x) => Now(x)
    BY <1>4 DEF LogCovers
  <2> HIDE DEF Now
  <2>1. \A e \in took' : Now(e)
    BY <1>2, <2>0 DEF LogCoverOK
  <2>2. \A u \in Thread : fire'[u].pc = "consume" => Now(fire'[u].ev)
    <3>1. f.pc = "consume" => Now(f.ev)
      BY DEF Now
    <3> QED
      BY <1>2, <1>3, <2>0, <3>1 DEF LogCoverOK
  <2>3. saver'.pc = "events" => \A e \in saver'.owed : Now(e)
    BY <1>2, <2>0 DEF LogCoverOK, SameJob
  <2> QED
    BY <2>1, <2>2, <2>3 DEF LogCoverOK, LogCovers, Now
<1>12. JobCoverOK' /\ EventsCoverMarking'
  BY <1>2 DEF JobCoverOK, EventsCoverMarking, SameJob, Covers
<1> QED
  BY <1>6, <1>9, <1>10, <1>11, <1>12 DEF CoverInv

LEMMA FiringFields ==
  ASSUME NEW f, FiringOK(f), NEW pc, NEW e, NEW tok
  PROVE  /\ [f EXCEPT !.pc = pc].pc = pc /\ [f EXCEPT !.pc = pc].ev = f.ev
         /\ [f EXCEPT !.pc = pc, !.ev = e].pc = pc
         /\ [f EXCEPT !.pc = pc, !.ev = e].ev = e
         /\ [f EXCEPT !.pc = pc, !.ev = e, !.tok = tok].pc = pc
<1>1. f = Firing(f.pc, f.t, f.ev, f.tok)
  BY DEF FiringOK
<1> QED
  BY <1>1 DEF Firing

LEMMA JobFields ==
  ASSUME NEW s, JobOK(s), NEW v, NEW y,
         y = [s EXCEPT !.quiet = v] \/ y = [s EXCEPT !.started = v]
  PROVE  /\ y.pc = s.pc /\ y.kind = s.kind /\ y.owed = s.owed
         /\ y.events = s.events /\ y.limit = s.limit
  BY DEF JobOK

LEMMA DisturbSameJob ==
  ASSUME JobOK(saver), Disturb PROVE SameJob
  BY JobFields DEF Disturb, SameJob

(* Each step of a firing is one of those that FiringCovers speaks of.       *)
LEMMA FiringStepCovers ==
  ASSUME RecoveryInv, CoverInv, FiringStep, UNCHANGED <<file, starts>>
  PROVE  CoverInv'
<1> PICK th \in Thread :
      \/ \E t \in Transition : Begin(th, t)
      \/ LogFired(th) \/ Consume(th) \/ ConsumeFails(th) \/ TaskReturns(th)
      \/ LogFailed(th) \/ Give(th)
  BY DEF FiringStep
<1> DEFINE f == fire[th]
<1>1. /\ counter \in Nat /\ starts \in Nat /\ FiringOK(f) /\ JobOK(saver)
      /\ f.ev \in Event /\ LogInv
  BY DEF RecoveryInv, HandsOK, FiringsOK, FiringOK
<1>2. UNCHANGED <<file, starts>>
  OBVIOUS
<1>3. f.pc # "idle" => everRan
  BY DEF CoverInv, UnusedOK
<1>4. running => everRan
  BY DEF CoverInv, UnusedOK
<1>5. saver' = saver => SameJob
  BY DEF SameJob
<1>6. /\ Idle.pc = "idle"
      /\ \A t \in Transition :
           LET e == NewEvent("fired", t) IN
           /\ Firing("log_fired", t, e, NoToken).pc = "log_fired"
           /\ Firing("log_fired", t, e, NoToken).ev = e
      /\ \A type, t : /\ NewEvent(type, t).at = starts
                      /\ NewEvent(type, t).id = counter + 1
  BY DEF Idle, Firing, NewEvent
<1>7. ASSUME NEW t \in Transition, Begin(th, t) PROVE CoverInv'
  <2> DEFINE g == Firing("log_fired", t, NewEvent("fired", t), NoToken)
  <2>1. g.pc = "log_fired" /\ g.ev.at = starts /\ g.ev.id = counter + 1
    BY <1>6
  <2>2. /\ SetFire(th, g) /\ counter' = counter + 1
        /\ UNCHANGED <<logVars, running, everRan, saver, took>> /\ everRan
    BY <1>4, <1>7 DEF Begin
  <2> HIDE DEF g
  <2> QED
    BY <1>1, <1>2, <1>5, <2>1, <2>2, FiringCovers
<1>8. CASE LogFired(th)
  <2> DEFINE g == [f EXCEPT !.pc = "consume"]
  <2>1. g.pc = "consume" /\ g.ev = f.ev
    BY <1>1, FiringFields
  <2>2. /\ SetFire(th, g) /\ Pending(th) /\ AppendEvent(f.ev)
        /\ UNCHANGED <<running, everRan, counter, saver, took>> /\ everRan
    BY <1>3, <1>8 DEF LogFired, Pending
  <2>3. /\ Range(log'.events) \subseteq Range(log.events) \cup {f.ev}
        /\ \A x : LogCovers(x) => LogCovers(x)'
    BY <1>1, <2>2, AppendEffect
  <2>4. Covers(log'.events, log'.limit, f.ev)
    <3>1. /\ f.ev.id # NoId /\ f.ev.at = starts
          /\ \A h \in Range(log.events) : h.at = starts => h.id # f.ev.id
      BY <2>2 DEF CoverInv, PendingOK
    <3>2. \A h \in Range(log.events) : h.at < starts \/ h.at = starts
      BY DEF CoverInv, NumbersOK, Numbered
    <3>3. \A h \in Range(log.events) : h.id = f.ev.id => h.at < f.ev.at
      BY <3>1, <3>2
    <3> QED
      BY <1>1, <2>2, <3>1, <3>3, AppendEffect DEF LogCovers
  <2> HIDE DEF g
  <2> QED
    BY <1>1, <1>2, <1>5, <2>1, <2>2, <2>3, <2>4, FiringCovers
<1>9. CASE Consume(th)
  <2> DEFINE g == [f EXCEPT !.pc = "task", !.ev = NoEvent, !.tok = Head(tokens[In[f.t]])]
  <2>1. g.pc = "task"
    BY <1>1, FiringFields
  <2>2. /\ SetFire(th, g) /\ f.pc = "consume" /\ took' = took \cup {f.ev} /\ SameJob
        /\ UNCHANGED <<logVars, running, everRan, counter>> /\ everRan
    BY <1>1, <1>3, <1>9, DisturbSameJob DEF Consume
  <2> HIDE DEF g
  <2> QED
    BY <1>1, <1>2, <2>1, <2>2, FiringCovers
<1>10. CASE ConsumeFails(th)
  <2>1. /\ SetFire(th, Idle)
        /\ UNCHANGED <<logVars, running, everRan, counter, saver, took>> /\ everRan
    BY <1>3, <1>10 DEF ConsumeFails
  <2> QED
    BY <1>1, <1>2, <1>5, <1>6, <2>1, FiringCovers
<1>11. CASE TaskReturns(th)
  <2>1. CASE SetFire(th, [f EXCEPT !.pc = "produce"]) /\ UNCHANGED counter
    <3> DEFINE g == [f EXCEPT !.pc = "produce"]
    <3>1. g.pc = "produce"
      BY <1>1, FiringFields
    <3>2. UNCHANGED <<logVars, running, everRan, saver, took>> /\ everRan
      BY <1>3, <1>11 DEF TaskReturns
    <3>3. SetFire(th, g) /\ counter' = counter
      BY <2>1
    <3> HIDE DEF g
    <3> QED
      BY <1>1, <1>2, <1>5, <3>1, <3>2, <3>3, FiringCovers
  <2>2. CASE /\ counter' = counter + 1
             /\ SetFire(th, [f EXCEPT !.pc = "log_failed", !.ev = NewEvent("failed", f.t)])
    <3> DEFINE g == [f EXCEPT !.pc = "log_failed", !.ev = NewEvent("failed", f.t)]
    <3>1. g.pc = "log_failed" /\ g.ev.at = starts /\ g.ev.id = counter + 1
      BY <1>1, <1>6, FiringFields
    <3>2. UNCHANGED <<logVars, running, everRan, saver, took>> /\ everRan
      BY <1>3, <1>11 DEF TaskReturns
    <3>3. SetFire(th, g)
      BY <2>2
    <3> HIDE DEF g
    <3> QED
      BY <1>1, <1>2, <1>5, <2>2, <3>1, <3>2, <3>3, FiringCovers
  <2> QED
    BY <1>11, <2>1, <2>2 DEF TaskReturns
<1>12. CASE LogFailed(th)
  <2> DEFINE g == [f EXCEPT !.pc = "rollback"]
  <2>1. g.pc = "rollback"
    BY <1>1, FiringFields
  <2>2. /\ SetFire(th, g) /\ Pending(th) /\ AppendEvent(f.ev)
        /\ UNCHANGED <<running, everRan, counter, saver, took>> /\ everRan
    BY <1>3, <1>12 DEF LogFailed, Pending
  <2>3. /\ Range(log'.events) \subseteq Range(log.events) \cup {f.ev}
        /\ \A x : LogCovers(x) => LogCovers(x)'
    BY <1>1, <2>2, AppendEffect
  <2> HIDE DEF g
  <2> QED
    BY <1>1, <1>2, <1>5, <2>1, <2>2, <2>3, FiringCovers
<1>13. CASE Give(th)
  <2>1. /\ SetFire(th, Idle) /\ SameJob
        /\ UNCHANGED <<logVars, running, everRan, counter, took>> /\ everRan
    BY <1>1, <1>3, <1>13, DisturbSameJob DEF Give
  <2> QED
    BY <1>1, <1>2, <1>6, <2>1, FiringCovers
<1> QED
  BY <1>7, <1>8, <1>9, <1>10, <1>11, <1>12, <1>13

(* Start and Stop number an event and append it at once.                    *)
LEMMA EngineStepCovers ==
  ASSUME RecoveryInv, CoverInv, Start \/ Stop, UNCHANGED <<file, starts>>
  PROVE  CoverInv'
<1>1. /\ counter \in Nat /\ starts \in Nat
      /\ \A u \in Thread : fire[u].ev \in Event
      /\ Range(log.events) \subseteq Event
      /\ Range(saver.events) \subseteq Event /\ Range(file.events) \subseteq Event
      /\ LogInv /\ JobOK(saver)
  BY CoverTypes DEF RecoveryInv, HandsOK
<1>2. NumbersOK /\ PendingOK /\ UnusedOK /\ LogCoverOK /\ JobCoverOK /\ EventsCoverMarking
  BY DEF CoverInv
<1>3. PICK e \in Event : AppendEvent(e) /\ e.at = starts /\ e.id = counter + 1
  <2>1. ASSUME NEW type \in {"started", "stopped"}
        PROVE  /\ NewEvent(type, None) \in Event
               /\ NewEvent(type, None).at = starts /\ NewEvent(type, None).id = counter + 1
    BY <1>1, NewEventIsEvent DEF EventType, NewEvent
  <2> QED
    BY <2>1 DEF Start, Stop
<1>4. /\ counter' = counter + 1 /\ fire' = fire /\ took' = took
      /\ file' = file /\ starts' = starts
  BY DEF Start, Stop
<1>5. SameJob
  BY <1>1, JobFields DEF Start, Stop, SameJob
<1>6. /\ Range(log'.events) \subseteq Range(log.events) \cup {e}
      /\ \A x : LogCovers(x) => LogCovers(x)'
  BY <1>1, <1>3, AppendEffect
<1>7. \A x \in Event : Numbered(x) => Numbered(x)'
  BY <1>1, <1>4 DEF Numbered, Event
<1>8. NumbersOK'
  <2>1. Numbered(e)'
    BY <1>3, <1>4 DEF Numbered
  <2> QED
    BY <1>1, <1>2, <1>4, <1>5, <1>6, <1>7, <2>1 DEF NumbersOK, SameJob
<1>9. PendingOK'
  <2>1. ASSUME NEW u \in Thread, Pending(u)
        PROVE  fire[u].ev.id <= counter' /\ e.id # fire[u].ev.id
    BY <1>1, <1>2, <1>3, <1>4, <2>1 DEF PendingOK, Event
  <2> QED
    BY <1>2, <1>4, <1>6, <2>1 DEF PendingOK, Pending
<1>10. UnusedOK'
  BY <1>2 DEF UnusedOK, Start, Stop
<1>11. LogCoverOK' /\ JobCoverOK' /\ EventsCoverMarking'
  BY <1>2, <1>4, <1>5, <1>6
  DEF LogCoverOK, LogCovers, JobCoverOK, EventsCoverMarking, SameJob, Covers
<1> QED
  BY <1>8, <1>9, <1>10, <1>11 DEF CoverInv

(* A step that leaves the log and the firings alone keeps what is said of   *)
(* them; what is left to show is about the job.                             *)
LEMMA JobCovers ==
  ASSUME RecoveryInv, CoverInv, UNCHANGED <<log, fire, running, everRan, counter, took, starts>>,
         Range(saver'.events) \subseteq Range(log.events) \cup Range(saver.events) \cup Range(file.events),
         Range(file'.events) \subseteq Range(saver.events) \cup Range(file.events),
         saver'.pc = "events" => \A e \in saver'.owed : LogCovers(e),
         JobCoverOK', EventsCoverMarking'
  PROVE  CoverInv'
<1>1. NumbersOK'
  BY DEF CoverInv, NumbersOK, Numbered
<1>2. PendingOK' /\ UnusedOK'
  BY DEF CoverInv, PendingOK, Pending, UnusedOK
<1>3. LogCoverOK'
  BY DEF CoverInv, LogCoverOK, LogCovers
<1> QED
  BY <1>1, <1>2, <1>3 DEF CoverInv

LEMMA JobFieldsTogether ==
  ASSUME NEW s, JobOK(s), NEW p, NEW k, NEW q, NEW es, NEW m
  PROVE  /\ LET x == [s EXCEPT !.pc = p, !.kind = k, !.todo = q, !.quiet = m]
            IN x.pc = p /\ x.events = s.events
         /\ LET x == [s EXCEPT !.pc = p, !.events = es, !.limit = k]
            IN x.pc = p /\ x.kind = s.kind /\ x.owed = s.owed /\ x.events = es /\ x.limit = k
         /\ LET x == [s EXCEPT !.pc = p, !.kind = k, !.events = es]
            IN x.pc = p /\ x.kind = k /\ x.events = es
         /\ LET x == [s EXCEPT !.pc = p, !.taken = k, !.started = q]
            IN x.pc = p /\ x.events = s.events
         /\ LET x == [s EXCEPT !.pc = p]
            IN /\ x.pc = p /\ x.kind = s.kind /\ x.owed = s.owed
               /\ x.events = s.events /\ x.limit = s.limit
         /\ LET x == [s EXCEPT !.kind = k] IN x.kind = k /\ x.events = s.events
  BY DEF JobOK

LEMMA EmptyRange == Range(<<>>) = {}
  BY DEF Range

LEMMA NoJobFields == /\ JobOK(NoJob) /\ NoJob.pc = "idle" /\ NoJob.events = <<>>
                     /\ JobOK(NoFile) /\ NoFile.events = <<>>
<1>1. NoJob.pc = "idle" /\ NoJob.events = <<>>
  BY DEF NoJob
<1>2. JobOK(NoFile)
  BY NoJobOK, JobUpdates DEF NoFile
<1>3. NoFile.events = <<>>
  BY DEF NoFile, NoJob
<1> QED
  BY <1>1, <1>2, <1>3, NoJobOK

(* The operator takes owed and events in this order.                        *)
LEMMA OperatorStepCovers ==
  ASSUME RecoveryInv, CoverInv, OperatorStep, UNCHANGED <<file, starts>>
  PROVE  CoverInv'
<1>1. /\ JobOK(saver) /\ JobOK(file) /\ JobOK(NoJob) /\ NoJob.pc = "idle"
      /\ NoJob.events = <<>> /\ Range(<<>>) = {} /\ log.events \in Seq(Event)
  BY NoJobFields, EmptyRange DEF RecoveryInv, HandsOK, LogInv, LogTypeOK
<1>2. NumbersOK /\ PendingOK /\ UnusedOK /\ LogCoverOK /\ JobCoverOK /\ EventsCoverMarking
  BY DEF CoverInv
<1>3. EventsCoverMarking'
  BY <1>2 DEF EventsCoverMarking
<1>4. Range(file'.events) \subseteq Range(saver.events) \cup Range(file.events)
  OBVIOUS
<1>5. ASSUME UNCHANGED <<log, fire, running, everRan, counter, took>>,
             Range(saver'.events)
               \subseteq Range(log.events) \cup Range(saver.events) \cup Range(file.events),
             saver'.pc = "events" => \A e \in saver'.owed : LogCovers(e),
             JobCoverOK'
      PROVE  CoverInv'
  BY <1>3, <1>4, <1>5, JobCovers
<1>6. ASSUME NEW kind \in {"marking", "workflow"}, Checkpoint(kind) PROVE CoverInv'
  <2>1. saver'.pc = "capture" /\ saver'.events = <<>>
    BY <1>1, <1>6, JobFieldsTogether DEF Checkpoint
  <2> QED
    BY <1>1, <1>5, <1>6, <2>1 DEF Checkpoint, volatile, logVars, JobCoverOK
<1>7. CASE Capture
  <2> PICK p \in saver.todo :
        LET q == [saver EXCEPT !.todo = @ \ {p},
                               !.taken = [r \in DOMAIN @ \cup {p} |->
                                            IF r = p THEN tokens[p] ELSE @[r]]]
        IN saver' = IF q.todo = {} THEN Captured(q) ELSE q
    BY <1>7 DEF Capture
  <2> DEFINE q == [saver EXCEPT !.todo = @ \ {p},
                                !.taken = [r \in DOMAIN @ \cup {p} |->
                                             IF r = p THEN tokens[p] ELSE @[r]]]
  <2> DEFINE taken == [r \in DOMAIN saver.taken \cup {p} |->
                         IF r = p THEN tokens[p] ELSE saver.taken[r]]
  <2>0. q = [saver EXCEPT !.todo = saver.todo \ {p}, !.taken = taken]
    OBVIOUS
  <2>1. JobOK(q) /\ q.pc = "capture" /\ q.kind = saver.kind /\ q.events = saver.events
    <3> saver.pc = "capture"
      BY <1>7 DEF Capture
    <3> HIDE DEF q, taken
    <3>1. JobOK(q)
      BY <1>1, <2>0, JobUpdatesTogether
    <3> QED
      BY <1>1, <2>0, <3>1 DEF JobOK
  <2>2. saver' = q \/ saver' = Captured(q)
    OBVIOUS
  <2>3. UNCHANGED <<log, fire, running, everRan, counter, took>>
    BY <1>7 DEF Capture, volatile, logVars
  <2> HIDE DEF q
  <2>4. CASE saver' = q
    BY <1>5, <2>1, <2>3, <2>4 DEF JobCoverOK
  <2>5. CASE saver' = NoJob
    BY <1>1, <1>5, <2>3, <2>5 DEF JobCoverOK
  <2>6. CASE q.kind = "marking" /\ saver' = [q EXCEPT !.pc = "open", !.owed = {}]
    <3>1. saver'.pc = "open" /\ saver'.kind = "marking" /\ saver'.events = saver.events
      BY <2>1, <2>6 DEF JobOK
    <3> QED
      BY <1>5, <2>3, <3>1 DEF JobCoverOK
  <2>7. CASE q.kind # "marking" /\ saver' = [q EXCEPT !.pc = "events", !.owed = took]
    <3>1. saver'.pc = "events" /\ saver'.owed = took /\ saver'.events = saver.events
      BY <2>1, <2>7 DEF JobOK
    <3> QED
      BY <1>2, <1>5, <2>3, <3>1 DEF JobCoverOK, LogCoverOK
  <2> QED
    BY <2>2, <2>4, <2>5, <2>6, <2>7 DEF Captured
<1>8. CASE TakeEvents
  <2>1. /\ saver'.pc = "open" /\ saver'.owed = saver.owed
        /\ saver'.events = log.events /\ saver'.limit = log.limit
    BY <1>1, <1>8, JobFieldsTogether DEF TakeEvents, GetAll
  <2>2. \A e \in saver.owed : Covers(log.events, log.limit, e)
    BY <1>2, <1>8 DEF TakeEvents, LogCoverOK, LogCovers
  <2>3. JobCoverOK'
    BY <2>1, <2>2 DEF JobCoverOK
  <2> QED
    BY <1>5, <1>8, <2>1, <2>3 DEF TakeEvents, volatile, logVars
<1>9. CASE SaveLog
  <2>1. saver'.pc = "open" /\ saver'.kind = "log" /\ saver'.events = log.events
    BY <1>1, <1>9, JobFieldsTogether DEF SaveLog, GetAll
  <2> QED
    BY <1>5, <1>9, <2>1 DEF SaveLog, volatile, logVars, JobCoverOK
<1>10. CASE RestoreFromFile
  <2>1. saver'.pc = "restore" /\ saver'.events = file.events
    BY <1>1, <1>10, JobFieldsTogether DEF RestoreFromFile
  <2> QED
    BY <1>5, <1>10, <2>1 DEF RestoreFromFile, volatile, logVars, JobCoverOK
<1>11. CASE RestoreMarking
  BY <1>1, <1>5, <1>11 DEF RestoreMarking, logVars, JobCoverOK
<1>12. CASE LoadLog
  <2>1. /\ log'.events = file.events /\ saver.pc = "idle" /\ took = {} /\ counter = 0
        /\ \A th \in Thread : fire[th].pc = "idle"
        /\ UNCHANGED <<fire, running, everRan, counter, took, saver>>
    BY <1>2, <1>12 DEF LoadLog, Load, Loaded, UnusedOK
  <2>2. NumbersOK'
    BY <1>2, <2>1 DEF NumbersOK, Numbered
  <2>3. PendingOK' /\ UnusedOK' /\ LogCoverOK' /\ JobCoverOK'
    BY <1>2, <2>1 DEF PendingOK, Pending, UnusedOK, LogCoverOK, JobCoverOK
  <2> QED
    BY <1>3, <2>2, <2>3 DEF CoverInv
<1>13. CASE ClearLog
  <2>1. /\ log'.events = <<>> /\ saver.pc = "idle" /\ took' = {}
        /\ \A th \in Thread : fire[th].pc = "idle"
        /\ UNCHANGED <<fire, running, everRan, counter, saver>>
    BY <1>13 DEF ClearLog, Clear, NewMemoryEventLog
  <2>2. NumbersOK'
    BY <1>1, <1>2, <2>1 DEF NumbersOK, Numbered
  <2>3. PendingOK' /\ UnusedOK' /\ LogCoverOK' /\ JobCoverOK'
    BY <1>2, <2>1 DEF PendingOK, Pending, UnusedOK, LogCoverOK, JobCoverOK
  <2> QED
    BY <1>3, <2>2, <2>3 DEF CoverInv
<1> QED
  BY <1>6, <1>7, <1>8, <1>9, <1>10, <1>11, <1>12, <1>13 DEF OperatorStep

(* A written file is as good as what was to be written.                     *)
LEMMA FileStepCovers ==
  ASSUME RecoveryInv, CoverInv, OpenFile \/ WriteFile, UNCHANGED starts
  PROVE  CoverInv'
<1>1. /\ JobOK(saver) /\ JobOK(NoJob) /\ NoJob.pc = "idle" /\ NoJob.events = <<>>
      /\ JobOK(NoFile) /\ NoFile.events = <<>> /\ Range(<<>>) = {}
      /\ JobCoverOK
  BY NoJobFields, EmptyRange DEF RecoveryInv, HandsOK, CoverInv
<1>2. UNCHANGED <<log, fire, running, everRan, counter, took, starts>>
  BY DEF OpenFile, WriteFile, volatile, logVars
<1>3. CASE OpenFile
  <2>1. /\ saver.pc = "open" /\ saver'.pc = "write" /\ saver'.kind = saver.kind
        /\ saver'.owed = saver.owed /\ saver'.events = saver.events
        /\ saver'.limit = saver.limit
    BY <1>1, <1>3, JobFieldsTogether DEF OpenFile
  <2>2. file'.kind = "torn" /\ file'.events = <<>>
    BY <1>1, <1>3, JobFieldsTogether DEF OpenFile
  <2>3. JobCoverOK' /\ EventsCoverMarking'
    BY <1>1, <2>1, <2>2 DEF JobCoverOK, EventsCoverMarking
  <2> QED
    BY <1>1, <1>2, <2>1, <2>2, <2>3, JobCovers
<1>4. CASE WriteFile
  <2>1. saver.pc = "write" /\ saver' = NoJob
    BY <1>4 DEF WriteFile
  <2>2. /\ file'.kind = saver.kind /\ file'.owed = saver.owed
        /\ file'.events = saver.events /\ file'.limit = saver.limit
    BY <1>1, <1>4, JobFieldsTogether DEF WriteFile
  <2>3. JobCoverOK' /\ EventsCoverMarking'
    BY <1>1, <2>1, <2>2 DEF JobCoverOK, EventsCoverMarking
  <2> QED
    BY <1>1, <1>2, <2>1, <2>2, <2>3, JobCovers
<1> QED
  BY <1>3, <1>4

LEMMA CrashCovers ==
  ASSUME RecoveryInv, CoverInv, Crash
  PROVE  CoverInv'
<1>1. /\ counter \in Nat /\ starts \in Nat /\ Range(file.events) \subseteq Event
      /\ NoJob.pc = "idle" /\ NoJob.events = <<>> /\ Range(<<>>) = {}
      /\ NumbersOK /\ EventsCoverMarking
  BY CoverTypes, NoJobFields, EmptyRange DEF CoverInv
<1>2. /\ starts' = starts + 1 /\ counter' = 0 /\ saver' = NoJob /\ file' = file
      /\ fire' = [th \in Thread |-> Idle] /\ log'.events = <<>>
      /\ running' = FALSE /\ everRan' = FALSE /\ took' = {}
  BY DEF Crash, NewProcess, Renew, NewMemoryEventLog
<1>3. \A th \in Thread : fire'[th].pc = "idle"
  BY <1>2 DEF Idle, Firing
<1>4. NumbersOK'
  BY <1>1, <1>2 DEF NumbersOK, Numbered, Event
<1>5. PendingOK' /\ UnusedOK' /\ LogCoverOK' /\ JobCoverOK'
  BY <1>1, <1>2, <1>3 DEF PendingOK, Pending, UnusedOK, LogCoverOK, JobCoverOK
<1>6. EventsCoverMarking'
  BY <1>1, <1>2 DEF EventsCoverMarking
<1> QED
  BY <1>4, <1>5, <1>6 DEF CoverInv

LEMMA InitCovers == Init => CoverInv
<1> SUFFICES ASSUME Init PROVE CoverInv
  OBVIOUS
<1>1. /\ saver.pc = "idle" /\ saver.events = <<>> /\ log.events = <<>> /\ Range(<<>>) = {}
      /\ file.kind = "none" /\ file.events = <<>>
  <2>1. /\ [NoFile EXCEPT !.kind = "none"].kind = "none"
        /\ [NoFile EXCEPT !.kind = "none"].events = <<>>
    BY NoJobFields DEF JobOK
  <2> QED
    BY <2>1, NoJobFields, EmptyRange DEF Init, LogInit, NewMemoryEventLog
<1>2. /\ \A th \in Thread : fire[th].pc = "idle"
      /\ running = FALSE /\ everRan = FALSE /\ counter = 0 /\ took = {}
  BY DEF Init, Idle, Firing
<1> QED
  BY <1>1, <1>2
  DEF CoverInv, NumbersOK, PendingOK, Pending, UnusedOK, LogCoverOK, JobCoverOK,
      EventsCoverMarking

LEMMA StepCovers == RecoveryInv /\ CoverInv /\ [Next]_vars => CoverInv'
<1> SUFFICES ASSUME RecoveryInv, CoverInv, [Next]_vars
             PROVE  CoverInv'
  OBVIOUS
<1>1. CASE FiringStep /\ UNCHANGED <<file, starts>>
  BY <1>1, FiringStepCovers
<1>2. CASE (Start \/ Stop) /\ UNCHANGED <<file, starts>>
  BY <1>2, EngineStepCovers
<1>3. CASE OperatorStep /\ UNCHANGED <<file, starts>>
  BY <1>3, OperatorStepCovers
<1>4. CASE (OpenFile \/ WriteFile) /\ UNCHANGED starts
  BY <1>4, FileStepCovers
<1>5. CASE Crash
  BY <1>5, CrashCovers
<1>6. CASE UNCHANGED vars
  <2>1. /\ log' = log /\ fire' = fire /\ saver' = saver /\ file' = file
        /\ UNCHANGED <<running, everRan, counter, took, starts>>
    BY <1>6 DEF vars, volatile, logVars
  <2> QED
    BY <2>1
    DEF CoverInv, NumbersOK, Numbered, PendingOK, Pending, UnusedOK, LogCoverOK, LogCovers,
        JobCoverOK, EventsCoverMarking
<1> QED
  BY <1>1, <1>2, <1>3, <1>4, <1>5, <1>6 DEF Next

(* In every instance, a workflow file has the event of every firing that    *)
(* its marking shows, although marking and log are read one after the other *)
(* (CheckpointWithEvents) while transitions fire, unless its log was full,  *)
(* or had refused the event as one of an earlier process.                   *)
THEOREM FileCoversMarking == Spec => []EventsCoverMarking
<1>1. Init => RecoveryInv /\ CoverInv
  BY InitOK, InitCovers
<1>2. RecoveryInv /\ CoverInv /\ [Next]_vars => RecoveryInv' /\ CoverInv'
  BY StepOK, StepCovers
<1>3. CoverInv => EventsCoverMarking
  BY DEF CoverInv
<1> QED
  BY <1>1, <1>2, <1>3, PTL DEF Spec

-----------------------------------------------------------------------------
(* Each token once.  A restore makes good what dirty stands for when its    *)
(* checkpoint had each token once; whoever takes one must know that nothing *)
(* was in hands when the capture began and that what it has so far is still *)
(* in the places.                                                           *)
IsAt(m, p, k, i) == p \in DOMAIN m /\ k \in 1 .. Len(m[p]) /\ m[p][k].id = i

Nowhere(m, i) == \A p, k : ~IsAt(m, p, k, i)

OnlyAt(m, p, k, i) == \A q, l : IsAt(m, q, l, i) <=> q = p /\ l = k

Once(m, i) == \E p, k : OnlyAt(m, p, k, i)

Whole(m) == DOMAIN m = Place /\ \A i \in TokenId : Once(m, i)

HasIt(th, i) == Holds(th) /\ fire[th].tok.id = i

NoHandHas(i) == \A th \in Thread : ~HasIt(th, i)

OneHandHas(i) == \E th \in Thread : \A u \in Thread : HasIt(u, i) <=> u = th

TokenOnce(i) == \/ Once(tokens, i) /\ NoHandHas(i)
                \/ Nowhere(tokens, i) /\ OneHandHas(i)

TokensOK ==
  /\ tokens \in [Place -> Seq(Token)]
  /\ \A th \in Thread : /\ Holds(th) => fire[th].tok \in Token
                        /\ fire[th].pc # "idle" => fire[th].t \in Transition
  /\ IsMarking(saver.taken) /\ IsMarking(file.taken)
  /\ saver.todo \subseteq Place /\ file.todo \subseteq Place
  /\ saver.quiet \in BOOLEAN /\ file.quiet \in BOOLEAN

(* Stop waits for the loop, and a restore that no Start overlapped still    *)
(* has the engine stopped.                                                  *)
StoppedOK ==
  /\ running \/ fire[loop].pc = "idle"
  /\ saver.pc = "restore" => /\ saver.kind \in {"marking", "workflow"}
                             /\ saver.started = TRUE \/ ~running

CaptureOK ==
  saver.pc = "capture" /\ saver.quiet = TRUE =>
    /\ ~dirty /\ ~Busy
    /\ saver.todo \cup DOMAIN saver.taken = Place
    /\ \A p \in DOMAIN saver.taken : saver.taken[p] = tokens[p]

SavedOK ==
  /\ saver.kind = "marking" /\ saver.quiet = TRUE
     /\ saver.pc \in {"events", "open", "write", "restore"}
       => Whole(saver.taken)
  /\ file.kind = "marking" /\ file.quiet = TRUE => Whole(file.taken)

OnceOK == ~dirty => \A i \in TokenId : TokenOnce(i)

OnceInv == TokensOK /\ StoppedOK /\ CaptureOK /\ SavedOK /\ OnceOK

(* The head of the queue p goes.                                            *)
LEMMA HeadGoes ==
  ASSUME NEW m \in [Place -> Seq(Token)], NEW p \in Place, m[p] # <<>>,
         NEW i
  PROVE  LET n == [m EXCEPT ![p] = Tail(@)] IN
         /\ Once(m, i) => IF i = Head(m[p]).id THEN Nowhere(n, i) ELSE Once(n, i)
         /\ Nowhere(m, i) => Nowhere(n, i)
<1> DEFINE n == [m EXCEPT ![p] = Tail(@)]
<1>1. /\ m[p] \in Seq(Token) /\ Len(m[p]) \in Nat \ {0} /\ Head(m[p]) = m[p][1]
      /\ Len(Tail(m[p])) = Len(m[p]) - 1
      /\ \A k \in 1 .. Len(Tail(m[p])) : Tail(m[p])[k] = m[p][k + 1]
  BY HeadTailProperties, EmptySeq, LenProperties
<1>2. DOMAIN n = Place /\ DOMAIN m = Place
      /\ \A q \in Place : n[q] = IF q = p THEN Tail(m[p]) ELSE m[q]
  OBVIOUS
<1> HIDE DEF n
<1>3. \A q, l : q # p => (IsAt(n, q, l, i) <=> IsAt(m, q, l, i))
  BY <1>2 DEF IsAt
<1>4. \A l : IsAt(n, p, l, i) => l \in Nat /\ IsAt(m, p, l + 1, i)
  <2> TAKE l
  <2> HAVE IsAt(n, p, l, i)
  <2>1. l \in 1 .. Len(Tail(m[p])) /\ Tail(m[p])[l].id = i
    BY <1>2 DEF IsAt
  <2>2. m[p][l + 1].id = i /\ l + 1 \in 1 .. Len(m[p]) /\ l \in Nat
    BY <1>1, <2>1
  <2> QED BY <1>2, <2>2 DEF IsAt
<1>5. \A l : l # 1 /\ IsAt(m, p, l, i) => l - 1 \in Nat /\ IsAt(n, p, l - 1, i)
  <2> TAKE l
  <2> HAVE l # 1 /\ IsAt(m, p, l, i)
  <2>1. l \in 1 .. Len(m[p]) /\ l # 1 /\ m[p][l].id = i
    BY DEF IsAt
  <2>2. l - 1 \in 1 .. Len(Tail(m[p]))
    BY <1>1, <2>1
  <2>3. Tail(m[p])[l - 1] = m[p][l]
    <3>1. Tail(m[p])[l - 1] = m[p][(l - 1) + 1]
      BY <1>1, <2>2
    <3>2. (l - 1) + 1 = l
      BY <2>1
    <3> QED BY <3>1, <3>2
  <2> QED BY <1>1, <1>2, <2>1, <2>2, <2>3 DEF IsAt
<1>6. IsAt(m, p, 1, i) <=> i = Head(m[p]).id
  BY <1>1, <1>2 DEF IsAt
<1>7. \A q, l : IsAt(m, q, l, i) => l \in Nat
  BY <1>1, <1>2 DEF IsAt
<1>8. Nowhere(m, i) => Nowhere(n, i)
  BY <1>3, <1>4 DEF Nowhere
<1>9. ASSUME Once(m, i)
      PROVE  IF i = Head(m[p]).id THEN Nowhere(n, i) ELSE Once(n, i)
  <2>1. PICK q, k : \A r, l : IsAt(m, r, l, i) <=> r = q /\ l = k
    BY <1>9 DEF Once, OnlyAt
  <2>2. IsAt(m, q, k, i) /\ k \in Nat
    BY <1>7, <2>1
  <2>3. CASE i = Head(m[p]).id
    <3>1. q = p /\ k = 1
      BY <1>6, <2>1, <2>3
    <3>2. ASSUME NEW r, NEW l, IsAt(n, r, l, i) PROVE FALSE
      <4>1. CASE r = p
        <5>1. l \in Nat /\ IsAt(m, p, l + 1, i)
          BY <1>4, <3>2, <4>1
        <5>2. l + 1 = 1
          BY <2>1, <3>1, <5>1
        <5>3. l \in 1 .. Len(n[p])
          BY <3>2, <4>1 DEF IsAt
        <5> QED BY <5>1, <5>2, <5>3
      <4>2. CASE r # p
        BY <1>3, <2>1, <3>1, <3>2, <4>2
      <4> QED BY <4>1, <4>2
    <3> QED BY <2>3, <3>2 DEF Nowhere
  <2>4. CASE i # Head(m[p]).id
    <3>1. CASE q = p
      <4>1. k # 1
        BY <1>6, <2>2, <2>4, <3>1
      <4>2. IsAt(n, p, k - 1, i)
        BY <1>5, <2>2, <3>1, <4>1
      <4>3. \A r, l : IsAt(n, r, l, i) => r = p /\ l = k - 1
        <5> TAKE r, l
        <5> HAVE IsAt(n, r, l, i)
        <5>1. r = p
          BY <1>3, <2>1, <3>1
        <5>2. l \in Nat /\ IsAt(m, p, l + 1, i)
          BY <1>4, <5>1
        <5>3. l + 1 = k
          BY <2>1, <5>2
        <5> QED BY <5>1, <5>2, <5>3
      <4> DEFINE d == k - 1
      <4>4. \A r, l : IsAt(n, r, l, i) <=> r = p /\ l = d
        BY <4>2, <4>3
      <4> HIDE DEF d
      <4>5. OnlyAt(n, p, d, i)
        BY <4>4 DEF OnlyAt
      <4> QED BY <2>4, <4>5 DEF Once
    <3>2. CASE q # p
      <4>1. ASSUME NEW l, IsAt(n, p, l, i) PROVE FALSE
        BY <1>4, <2>1, <3>2, <4>1
      <4>2. \A r, l : IsAt(n, r, l, i) <=> r = q /\ l = k
        BY <1>3, <2>1, <3>2, <4>1
      <4>3. OnlyAt(n, q, k, i)
        BY <4>2 DEF OnlyAt
      <4> QED BY <2>4, <4>3 DEF Once
    <3> QED BY <3>1, <3>2
  <2> QED BY <2>3, <2>4
<1> QED BY <1>8, <1>9 DEF n

(* A token goes to the end of the queue p.                                  *)
LEMMA TokenComes ==
  ASSUME NEW m \in [Place -> Seq(Token)], NEW p \in Place, NEW t \in Token,
         NEW i
  PROVE  LET n == [m EXCEPT ![p] = Append(@, t)] IN
         /\ i # t.id => (Once(m, i) => Once(n, i)) /\ (Nowhere(m, i) => Nowhere(n, i))
         /\ i = t.id /\ Nowhere(m, i) => Once(n, i)
<1> DEFINE n == [m EXCEPT ![p] = Append(@, t)]
<1>1. /\ m[p] \in Seq(Token) /\ Len(m[p]) \in Nat
      /\ Len(Append(m[p], t)) = Len(m[p]) + 1
      /\ \A k \in 1 .. Len(m[p]) : Append(m[p], t)[k] = m[p][k]
      /\ Append(m[p], t)[Len(m[p]) + 1] = t
  BY AppendProperties, LenProperties
<1>2. DOMAIN n = Place /\ DOMAIN m = Place
      /\ \A q \in Place : n[q] = IF q = p THEN Append(m[p], t) ELSE m[q]
  OBVIOUS
<1> HIDE DEF n
<1> DEFINE e == Len(m[p]) + 1
<1>3. \A q, l : q # p => (IsAt(n, q, l, i) <=> IsAt(m, q, l, i))
  BY <1>2 DEF IsAt
<1>4. \A l : IsAt(n, p, l, i) <=> IsAt(m, p, l, i) \/ (l = e /\ i = t.id)
  <2> TAKE l
  <2>1. CASE l \in 1 .. Len(m[p])
    BY <1>1, <1>2, <2>1 DEF IsAt
  <2>2. CASE l = e
    BY <1>1, <1>2, <2>2 DEF IsAt
  <2>3. CASE l \notin 1 .. Len(m[p]) /\ l # e
    BY <1>1, <1>2, <2>3 DEF IsAt
  <2> QED BY <2>1, <2>2, <2>3
<1> HIDE DEF e
<1>5. ASSUME i # t.id PROVE \A q, l : IsAt(n, q, l, i) <=> IsAt(m, q, l, i)
  BY <1>3, <1>4, <1>5
<1>6. i # t.id => (Once(m, i) => Once(n, i)) /\ (Nowhere(m, i) => Nowhere(n, i))
  <2>1. CASE i # t.id
    <3>1. Once(m, i) => Once(n, i)
      <4>1. ASSUME Once(m, i) PROVE Once(n, i)
        <5>1. PICK q, k : \A r, l : IsAt(m, r, l, i) <=> r = q /\ l = k
          BY <4>1 DEF Once, OnlyAt
        <5>2. \A r, l : IsAt(n, r, l, i) <=> r = q /\ l = k
          BY <1>5, <2>1, <5>1
        <5>3. OnlyAt(n, q, k, i)
          BY <5>2 DEF OnlyAt
        <5> QED BY <5>3 DEF Once
      <4> QED BY <4>1
    <3>2. Nowhere(m, i) => Nowhere(n, i)
      BY <1>5, <2>1 DEF Nowhere
    <3> QED BY <3>1, <3>2
  <2> QED BY <2>1
<1>7. ASSUME i = t.id, Nowhere(m, i) PROVE Once(n, i)
  <2>1. \A q, l : IsAt(n, q, l, i) <=> q = p /\ l = e
    <3> TAKE q, l
    <3>1. CASE q = p
      BY <1>4, <1>7, <3>1 DEF Nowhere
    <3>2. CASE q # p
      BY <1>3, <1>7, <3>2 DEF Nowhere
    <3> QED BY <3>1, <3>2
  <2>2. OnlyAt(n, p, e, i)
    BY <2>1 DEF OnlyAt
  <2> QED BY <2>2 DEF Once
<1> QED BY <1>6, <1>7 DEF n

HoldSteps == {"task", "log_failed", "rollback", "produce"}

LEMMA FiringParts ==
  ASSUME NEW f, FiringOK(f), NEW pc, NEW e, NEW tok
  PROVE  /\ [f EXCEPT !.pc = pc].t = f.t /\ [f EXCEPT !.pc = pc].tok = f.tok
         /\ [f EXCEPT !.pc = pc, !.ev = e].t = f.t
         /\ [f EXCEPT !.pc = pc, !.ev = e].tok = f.tok
         /\ [f EXCEPT !.pc = pc, !.ev = e, !.tok = tok].t = f.t
         /\ [f EXCEPT !.pc = pc, !.ev = e, !.tok = tok].tok = tok
<1>1. f = Firing(f.pc, f.t, f.ev, f.tok)
  BY DEF FiringOK
<1> QED
  BY <1>1 DEF Firing

LEMMA FireAfter ==
  ASSUME FiringsOK, NEW th \in Thread, NEW g, SetFire(th, g)
  PROVE  \A u \in Thread : fire'[u] = IF u = th THEN g ELSE fire[u]
  BY DEF FiringsOK, SetFire

(* The tokens stay where they are.                                          *)
LEMMA OnceKept ==
  ASSUME OnceOK, UNCHANGED <<tokens, dirty>>,
         \A u \in Thread : \A i : HasIt(u, i)' <=> HasIt(u, i)
  PROVE  OnceOK'
<1>1. \A i : (NoHandHas(i) => NoHandHas(i)') /\ (OneHandHas(i) => OneHandHas(i)')
  BY DEF NoHandHas, OneHandHas
<1>2. \A i : TokenOnce(i) => TokenOnce(i)'
  BY <1>1 DEF TokenOnce
<1> QED
  BY <1>2 DEF OnceOK

(* A step of a firing that moves no token.                                  *)
LEMMA HandsStay ==
  ASSUME RecoveryInv, OnceInv, NEW th \in Thread, NEW g, SetFire(th, g),
         UNCHANGED <<tokens, dirty, running, saver, file>>,
         g.pc \in HoldSteps <=> fire[th].pc \in HoldSteps,
         g.pc \in HoldSteps => g.tok = fire[th].tok,
         g.pc # "idle" => g.t \in Transition,
         th = loop /\ g.pc # "idle" => running
  PROVE  OnceInv'
<1>1. \A u \in Thread : fire'[u] = IF u = th THEN g ELSE fire[u]
  BY FireAfter DEF RecoveryInv, HandsOK
<1>2. \A u \in Thread : Holds(u)' <=> Holds(u)
  BY <1>1 DEF Holds, HoldSteps
<1>3. \A u \in Thread : Holds(u) => fire'[u].tok = fire[u].tok
  BY <1>1 DEF Holds, HoldSteps
<1>4. OnceOK'
  BY <1>2, <1>3, OnceKept DEF HasIt, OnceInv
<1>5. TokensOK'
  <2>1. \A u \in Thread : Holds(u)' => fire'[u].tok \in Token
    BY <1>2, <1>3 DEF OnceInv, TokensOK
  <2>2. \A u \in Thread : fire'[u].pc # "idle" => fire'[u].t \in Transition
    BY <1>1 DEF OnceInv, TokensOK
  <2> QED BY <2>1, <2>2 DEF OnceInv, TokensOK
<1>6. StoppedOK'
  BY <1>1 DEF OnceInv, StoppedOK, Thread
<1>7. CaptureOK'
  BY <1>2 DEF OnceInv, CaptureOK, Busy
<1> QED
  BY <1>4, <1>5, <1>6, <1>7 DEF OnceInv, SavedOK

(* A token that moves spoils the checkpoint that is being taken, and leaves *)
(* the others as they are.                                                  *)
LEMMA Disturbed ==
  ASSUME JobOK(saver), TokensOK, StoppedOK, SavedOK, Disturb,
         UNCHANGED <<running, file>>
  PROVE  /\ CaptureOK' /\ SavedOK'
         /\ IsMarking(saver'.taken) /\ saver'.quiet \in BOOLEAN
         /\ saver'.todo = saver.todo
         /\ saver'.pc = saver.pc /\ saver'.kind = saver.kind
         /\ saver'.started = saver.started
<1> DEFINE v == saver.quiet /\ saver.pc # "capture"
<1>1. saver' = [saver EXCEPT !.quiet = v]
  BY DEF Disturb
<1>2. /\ v \in BOOLEAN
      /\ v = TRUE => saver.quiet = TRUE /\ saver.pc # "capture"
  BY DEF TokensOK
<1> HIDE DEF v
<1>3. /\ saver'.pc = saver.pc /\ saver'.kind = saver.kind /\ saver'.quiet = v
      /\ saver'.taken = saver.taken /\ saver'.started = saver.started
      /\ saver'.todo = saver.todo
  BY <1>1 DEF JobOK
<1>4. SavedOK'
  BY <1>2, <1>3 DEF SavedOK
<1>5. CaptureOK'
  BY <1>2, <1>3 DEF CaptureOK
<1> QED
  BY <1>2, <1>3, <1>4, <1>5 DEF TokensOK

(* The token that a firing takes is then in its hands only.                 *)
LEMMA TakesOnce ==
  ASSUME RecoveryInv, OnceInv, NEW th \in Thread, Consume(th), UNCHANGED file
  PROVE  OnceInv'
<1> DEFINE f == fire[th]  p == In[f.t]  h == Head(tokens[p])
           g == [f EXCEPT !.pc = "task", !.ev = NoEvent, !.tok = h]
<1>1. /\ FiringOK(f) /\ JobOK(saver) /\ TokensOK /\ StoppedOK /\ SavedOK /\ OnceOK
      /\ FiringsOK
  BY DEF RecoveryInv, HandsOK, FiringsOK, OnceInv
<1>2. /\ f.pc = "consume" /\ tokens[p] # <<>> /\ tokens' = [tokens EXCEPT ![p] = Tail(@)]
      /\ SetFire(th, g) /\ Disturb /\ UNCHANGED <<dirty, running>>
  BY DEF Consume
<1>3. g.pc = "task" /\ g.t = f.t /\ g.tok = h
  BY <1>1, FiringFields, FiringParts
<1>4. f.t \in Transition /\ p \in Place /\ tokens \in [Place -> Seq(Token)]
  BY <1>1, <1>2, RecoveryAssumption DEF TokensOK
<1>5. h \in Token /\ tokens' \in [Place -> Seq(Token)]
  <2>1. tokens[p] \in Seq(Token) /\ h \in Token /\ Tail(tokens[p]) \in Seq(Token)
    BY <1>2, <1>4, HeadTailProperties
  <2> QED BY <1>2, <1>4, <2>1
<1> HIDE DEF g
<1>6. \A u \in Thread : fire'[u] = IF u = th THEN g ELSE fire[u]
  BY <1>1, <1>2, FireAfter
<1>7. \A u \in Thread : \A i :
        HasIt(u, i)' <=> IF u = th THEN i = h.id ELSE HasIt(u, i)
  BY <1>3, <1>6 DEF HasIt, Holds
<1>8. \A i : ~HasIt(th, i)
  BY <1>2 DEF HasIt, Holds
<1>9. ASSUME NEW i \in TokenId, TokenOnce(i) PROVE TokenOnce(i)'
  <2>1. /\ Once(tokens, i) => IF i = h.id THEN Nowhere(tokens', i) ELSE Once(tokens', i)
        /\ Nowhere(tokens, i) => Nowhere(tokens', i)
    <3> DEFINE n == tokens'
    <3>1. n = [tokens EXCEPT ![p] = Tail(@)] /\ tokens[p] # <<>>
      BY <1>2
    <3> HIDE DEF n, p
    <3>2. /\ Once(tokens, i) => IF i = Head(tokens[p]).id THEN Nowhere(n, i) ELSE Once(n, i)
          /\ Nowhere(tokens, i) => Nowhere(n, i)
      BY <1>4, <3>1, HeadGoes
    <3> QED BY <3>2 DEF n, p
  <2>2. CASE i # h.id
    <3>1. \A u \in Thread : HasIt(u, i)' <=> HasIt(u, i)
      BY <1>7, <1>8, <2>2
    <3> QED BY <1>9, <2>1, <2>2, <3>1 DEF TokenOnce, NoHandHas, OneHandHas
  <2>3. CASE i = h.id
    <3>1. ~Nowhere(tokens, i)
      <4>1. 1 \in 1 .. Len(tokens[p]) /\ tokens[p][1] = h
        BY <1>2, <1>4, HeadTailProperties, EmptySeq, LenProperties
      <4>2. IsAt(tokens, p, 1, i)
        BY <1>4, <2>3, <4>1 DEF IsAt
      <4> QED BY <4>2 DEF Nowhere
    <3>2. Nowhere(tokens', i) /\ NoHandHas(i)
      BY <1>9, <2>1, <2>3, <3>1 DEF TokenOnce
    <3>3. \A u \in Thread : HasIt(u, i)' <=> u = th
      BY <1>7, <2>3, <3>2 DEF NoHandHas
    <3> QED BY <3>2, <3>3 DEF TokenOnce, OneHandHas
  <2> QED BY <2>2, <2>3
<1>10. OnceOK'
  BY <1>1, <1>2, <1>9 DEF OnceOK
<1>11. /\ CaptureOK' /\ SavedOK' /\ IsMarking(saver'.taken) /\ saver'.quiet \in BOOLEAN
       /\ saver'.todo = saver.todo
       /\ saver'.pc = saver.pc /\ saver'.kind = saver.kind
       /\ saver'.started = saver.started
  BY <1>1, <1>2, Disturbed
<1>12. TokensOK'
  <2>1. \A u \in Thread : Holds(u)' => fire'[u].tok \in Token
    BY <1>1, <1>3, <1>5, <1>6 DEF TokensOK, Holds
  <2>2. \A u \in Thread : fire'[u].pc # "idle" => fire'[u].t \in Transition
    BY <1>1, <1>3, <1>4, <1>6 DEF TokensOK
  <2> QED BY <1>1, <1>5, <1>11, <2>1, <2>2 DEF TokensOK
<1>13. StoppedOK'
  BY <1>1, <1>2, <1>6, <1>11 DEF StoppedOK, Thread
<1> QED
  BY <1>10, <1>11, <1>12, <1>13 DEF OnceInv

(* The token that a firing gives is then in one place only.                 *)
LEMMA GivesOnce ==
  ASSUME RecoveryInv, OnceInv, NEW th \in Thread, Give(th), UNCHANGED file
  PROVE  OnceInv'
<1> DEFINE f == fire[th]  t == f.tok
           p == IF f.pc = "rollback" THEN In[f.t] ELSE Out[f.t]
<1>1. /\ FiringOK(f) /\ JobOK(saver) /\ TokensOK /\ StoppedOK /\ SavedOK /\ OnceOK
      /\ FiringsOK
  BY DEF RecoveryInv, HandsOK, FiringsOK, OnceInv
<1>2. /\ f.pc \in {"rollback", "produce"} /\ tokens' = [tokens EXCEPT ![p] = Append(@, t)]
      /\ SetFire(th, Idle) /\ Disturb /\ UNCHANGED <<dirty, running>>
  BY DEF Give
<1>3. Idle.pc = "idle"
  BY DEF Idle, Firing
<1>4. f.t \in Transition /\ p \in Place /\ tokens \in [Place -> Seq(Token)] /\ t \in Token
  BY <1>1, <1>2, RecoveryAssumption DEF TokensOK, Holds
<1>5. tokens' \in [Place -> Seq(Token)]
  <2>1. Append(tokens[p], t) \in Seq(Token)
    BY <1>4, AppendProperties
  <2> QED BY <1>2, <1>4, <2>1
<1>6. \A u \in Thread : fire'[u] = IF u = th THEN Idle ELSE fire[u]
  BY <1>1, <1>2, FireAfter
<1>7. \A u \in Thread : \A i : HasIt(u, i)' <=> u # th /\ HasIt(u, i)
  BY <1>3, <1>6 DEF HasIt, Holds
<1>8. \A i : HasIt(th, i) <=> i = t.id
  BY <1>2 DEF HasIt, Holds
<1>9. ASSUME NEW i \in TokenId, TokenOnce(i) PROVE TokenOnce(i)'
  <2>1. /\ i # t.id => (Once(tokens, i) => Once(tokens', i))
                       /\ (Nowhere(tokens, i) => Nowhere(tokens', i))
        /\ i = t.id /\ Nowhere(tokens, i) => Once(tokens', i)
    <3> DEFINE n == tokens'
    <3>1. n = [tokens EXCEPT ![p] = Append(@, t)]
      BY <1>2
    <3> HIDE DEF n, p, t
    <3>2. /\ i # t.id => (Once(tokens, i) => Once(n, i))
                         /\ (Nowhere(tokens, i) => Nowhere(n, i))
          /\ i = t.id /\ Nowhere(tokens, i) => Once(n, i)
      BY <1>4, <3>1, TokenComes
    <3> QED BY <3>2 DEF n, t
  <2>2. CASE i # t.id
    <3>1. \A u \in Thread : HasIt(u, i)' <=> HasIt(u, i)
      BY <1>7, <1>8, <2>2
    <3> QED BY <1>9, <2>1, <2>2, <3>1 DEF TokenOnce, NoHandHas, OneHandHas
  <2>3. CASE i = t.id
    <3>1. Nowhere(tokens, i) /\ OneHandHas(i)
      BY <1>8, <1>9, <2>3 DEF TokenOnce, NoHandHas
    <3>2. \A u \in Thread : HasIt(u, i) => u = th
      BY <1>8, <2>3, <3>1 DEF OneHandHas
    <3>3. \A u \in Thread : ~HasIt(u, i)'
      BY <1>7, <3>2
    <3> QED BY <2>1, <2>3, <3>1, <3>3 DEF TokenOnce, NoHandHas
  <2> QED BY <2>2, <2>3
<1>10. OnceOK'
  BY <1>1, <1>2, <1>9 DEF OnceOK
<1>11. /\ CaptureOK' /\ SavedOK' /\ IsMarking(saver'.taken) /\ saver'.quiet \in BOOLEAN
       /\ saver'.todo = saver.todo
       /\ saver'.pc = saver.pc /\ saver'.kind = saver.kind
       /\ saver'.started = saver.started
  BY <1>1, <1>2, Disturbed
<1>12. TokensOK'
  <2>1. \A u \in Thread : Holds(u)' => fire'[u].tok \in Token
    BY <1>1, <1>3, <1>6 DEF TokensOK, Holds
  <2>2. \A u \in Thread : fire'[u].pc # "idle" => fire'[u].t \in Transition
    BY <1>1, <1>3, <1>6 DEF TokensOK
  <2> QED BY <1>1, <1>5, <1>11, <2>1, <2>2 DEF TokensOK
<1>13. StoppedOK'
  BY <1>1, <1>2, <1>3, <1>6, <1>11 DEF StoppedOK, Thread
<1> QED
  BY <1>10, <1>11, <1>12, <1>13 DEF OnceInv

LEMMA FiringStepOnce ==
  ASSUME RecoveryInv, OnceInv, FiringStep, UNCHANGED <<file, starts>>
  PROVE  OnceInv'
<1> PICK th \in Thread :
      \/ \E t \in Transition : Begin(th, t)
      \/ LogFired(th) \/ Consume(th) \/ ConsumeFails(th) \/ TaskReturns(th)
      \/ LogFailed(th) \/ Give(th)
  BY DEF FiringStep
<1> DEFINE f == fire[th]
<1>1. /\ FiringOK(f) /\ (f.pc # "idle" => f.t \in Transition)
      /\ th = loop /\ f.pc # "idle" => running
  BY DEF RecoveryInv, HandsOK, FiringsOK, OnceInv, TokensOK, StoppedOK
<1>2. file' = file
  OBVIOUS
<1>3. ASSUME NEW t \in Transition, Begin(th, t) PROVE OnceInv'
  <2> DEFINE g == Firing("log_fired", t, NewEvent("fired", t), NoToken)
  <2>1. g.pc = "log_fired" /\ g.t = t
    BY DEF Firing
  <2>2. /\ SetFire(th, g) /\ UNCHANGED <<tokens, dirty, running, saver>>
        /\ f.pc = "idle" /\ (th = loop => running)
    BY <1>3 DEF Begin
  <2> HIDE DEF g
  <2>3. g.pc \notin HoldSteps /\ f.pc \notin HoldSteps
    BY <2>1, <2>2 DEF HoldSteps
  <2> QED BY <1>2, <2>1, <2>2, <2>3, HandsStay
<1>4. ASSUME NEW g, SetFire(th, g), g.t = f.t, g.tok = f.tok, f.pc # "idle",
             UNCHANGED <<tokens, dirty, running, saver>>,
             g.pc \in HoldSteps <=> f.pc \in HoldSteps
      PROVE  OnceInv'
  <2>1. f.t \in Transition /\ (th = loop => running)
    BY <1>1, <1>4
  <2> QED BY <1>2, <1>4, <2>1, HandsStay
<1>5. CASE LogFired(th)
  <2> DEFINE g == [f EXCEPT !.pc = "consume"]
  <2>1. g.pc = "consume" /\ g.t = f.t /\ g.tok = f.tok
    BY <1>1, FiringFields, FiringParts
  <2>2. /\ SetFire(th, g) /\ UNCHANGED <<tokens, dirty, running, saver>>
        /\ f.pc = "log_fired"
    BY <1>5 DEF LogFired
  <2> HIDE DEF g
  <2>3. g.pc \notin HoldSteps /\ f.pc \notin HoldSteps
    BY <2>1, <2>2 DEF HoldSteps
  <2> QED BY <1>4, <2>1, <2>2, <2>3
<1>6. CASE LogFailed(th)
  <2> DEFINE g == [f EXCEPT !.pc = "rollback"]
  <2>1. g.pc = "rollback" /\ g.t = f.t /\ g.tok = f.tok
    BY <1>1, FiringFields, FiringParts
  <2>2. /\ SetFire(th, g) /\ UNCHANGED <<tokens, dirty, running, saver>>
        /\ f.pc = "log_failed"
    BY <1>6 DEF LogFailed
  <2> HIDE DEF g
  <2>3. g.pc \in HoldSteps /\ f.pc \in HoldSteps
    BY <2>1, <2>2 DEF HoldSteps
  <2> QED BY <1>4, <2>1, <2>2, <2>3
<1>7. CASE TaskReturns(th)
  <2>1. f.pc = "task" /\ UNCHANGED <<tokens, dirty, running, saver>>
    BY <1>7 DEF TaskReturns
  <2>2. f.pc \in HoldSteps /\ "produce" \in HoldSteps /\ "log_failed" \in HoldSteps
    BY <2>1 DEF HoldSteps
  <2>3. CASE SetFire(th, [f EXCEPT !.pc = "produce"])
    <3> DEFINE g == [f EXCEPT !.pc = "produce"]
    <3>1. SetFire(th, g) /\ g.pc = "produce" /\ g.t = f.t /\ g.tok = f.tok
      BY <1>1, <2>3, FiringFields, FiringParts
    <3> HIDE DEF g
    <3> QED BY <1>4, <2>1, <2>2, <3>1
  <2>4. CASE SetFire(th, [f EXCEPT !.pc = "log_failed", !.ev = NewEvent("failed", f.t)])
    <3> DEFINE g == [f EXCEPT !.pc = "log_failed", !.ev = NewEvent("failed", f.t)]
    <3>1. SetFire(th, g) /\ g.pc = "log_failed" /\ g.t = f.t /\ g.tok = f.tok
      BY <1>1, <2>4, FiringFields, FiringParts
    <3> HIDE DEF g
    <3> QED BY <1>4, <2>1, <2>2, <3>1
  <2> QED BY <1>7, <2>3, <2>4 DEF TaskReturns
<1>8. CASE ConsumeFails(th)
  <2>1. /\ SetFire(th, Idle) /\ UNCHANGED <<tokens, dirty, running, saver>>
        /\ f.pc = "consume"
    BY <1>8 DEF ConsumeFails
  <2>2. Idle.pc = "idle"
    BY DEF Idle, Firing
  <2>3. Idle.pc \notin HoldSteps /\ f.pc \notin HoldSteps
    BY <2>1, <2>2 DEF HoldSteps
  <2> QED BY <1>2, <2>1, <2>2, <2>3, HandsStay
<1> QED
  BY <1>2, <1>3, <1>5, <1>6, <1>7, <1>8, TakesOnce, GivesOnce

(* Whatever moves no token and leaves the firings alone.                    *)
LEMMA JobOnce ==
  ASSUME OnceInv, UNCHANGED <<tokens, fire, dirty>>,
         IsMarking(saver'.taken) /\ saver'.quiet \in BOOLEAN /\ saver'.todo \subseteq Place,
         IsMarking(file'.taken) /\ file'.quiet \in BOOLEAN /\ file'.todo \subseteq Place,
         StoppedOK', CaptureOK', SavedOK'
  PROVE  OnceInv'
<1>1. OnceOK'
  BY OnceKept DEF OnceInv, HasIt, Holds
<1>2. TokensOK'
  BY DEF OnceInv, TokensOK, Holds
<1> QED
  BY <1>1, <1>2 DEF OnceInv

LEMMA EngineStepOnce ==
  ASSUME RecoveryInv, OnceInv, Start \/ Stop, UNCHANGED <<file, starts>>
  PROVE  OnceInv'
<1>1. JobOK(saver) /\ TokensOK /\ StoppedOK /\ CaptureOK /\ SavedOK
  BY DEF RecoveryInv, HandsOK, OnceInv
<1>2. CASE Start
  <2> DEFINE v == saver.pc = "restore"
  <2>1. saver' = [saver EXCEPT !.started = v]
    BY <1>2 DEF Start
  <2>2. v = TRUE <=> saver.pc = "restore"
    OBVIOUS
  <2> HIDE DEF v
  <2>3. /\ saver'.pc = saver.pc /\ saver'.kind = saver.kind /\ saver'.todo = saver.todo
        /\ saver'.taken = saver.taken /\ saver'.quiet = saver.quiet /\ saver'.started = v
    BY <1>1, <2>1 DEF JobOK
  <2>4. running' = TRUE /\ UNCHANGED <<tokens, fire, dirty, file>>
    BY <1>2 DEF Start
  <2>5. StoppedOK'
    BY <1>1, <2>2, <2>3, <2>4 DEF StoppedOK
  <2>6. CaptureOK'
    BY <1>1, <2>3, <2>4 DEF CaptureOK, Busy, Holds
  <2>7. SavedOK'
    BY <1>1, <2>3, <2>4 DEF SavedOK
  <2> QED BY <1>1, <2>3, <2>4, <2>5, <2>6, <2>7, JobOnce DEF TokensOK
<1>3. CASE Stop
  <2>1. running' = FALSE /\ fire[loop].pc = "idle"
        /\ UNCHANGED <<tokens, fire, dirty, saver, file>>
    BY <1>3 DEF Stop
  <2>2. StoppedOK'
    BY <1>1, <2>1 DEF StoppedOK
  <2>3. CaptureOK' /\ SavedOK'
    BY <1>1, <2>1 DEF CaptureOK, SavedOK, Busy, Holds
  <2> QED BY <1>1, <2>1, <2>2, <2>3, JobOnce DEF TokensOK
<1> QED
  BY <1>2, <1>3

(* Nothing is in hands when a quiet capture ends, so what it has are all    *)
(* the places with all the tokens.                                          *)
LEMMA CapturedWhole ==
  ASSUME TokensOK, OnceOK, ~dirty, ~Busy, NEW m, DOMAIN m = Place,
         \A p \in Place : m[p] = tokens[p]
  PROVE  Whole(m)
<1>1. \A p, k, i : IsAt(m, p, k, i) <=> IsAt(tokens, p, k, i)
  BY DEF IsAt, TokensOK
<1>2. \A i \in TokenId : Once(tokens, i)
  BY DEF OnceOK, TokenOnce, OneHandHas, HasIt, Busy
<1>3. ASSUME NEW i \in TokenId PROVE Once(m, i)
  <2>1. PICK p, k : OnlyAt(tokens, p, k, i)
    BY <1>2 DEF Once
  <2>2. OnlyAt(m, p, k, i)
    BY <1>1, <2>1 DEF OnlyAt
  <2> QED BY <2>2 DEF Once
<1> QED
  BY <1>3 DEF Whole

LEMMA NoJobParts ==
  /\ IsMarking(NoJob.taken) /\ NoJob.quiet = TRUE /\ NoJob.todo = {}
  /\ NoJob.pc = "idle" /\ NoJob.kind = "none" /\ JobOK(NoJob)
<1>1. IsMarking(NoMarking)
  BY DEF IsMarking, NoMarking
<1> QED
  BY <1>1, NoJobOK DEF NoJob

LEMMA CaptureOnce ==
  ASSUME RecoveryInv, OnceInv, Capture, UNCHANGED file
  PROVE  OnceInv'
<1>1. /\ JobOK(saver) /\ TokensOK /\ StoppedOK /\ CaptureOK /\ SavedOK /\ OnceOK
      /\ UNCHANGED <<tokens, fire, dirty, running>> /\ saver.pc = "capture"
  BY DEF RecoveryInv, HandsOK, OnceInv, Capture, volatile
<1> PICK p \in saver.todo :
      LET q == [saver EXCEPT !.todo = @ \ {p},
                             !.taken = [r \in DOMAIN @ \cup {p} |->
                                          IF r = p THEN tokens[p] ELSE @[r]]]
      IN saver' = IF q.todo = {} THEN Captured(q) ELSE q
  BY DEF Capture
<1> DEFINE d == saver.todo \ {p}
           m == [r \in DOMAIN saver.taken \cup {p} |->
                   IF r = p THEN tokens[p] ELSE saver.taken[r]]
           q == [saver EXCEPT !.todo = d, !.taken = m]
<1>2. saver' = IF q.todo = {} THEN Captured(q) ELSE q
  OBVIOUS
<1>3. p \in Place /\ d \subseteq Place /\ IsMarking(m)
      /\ DOMAIN m = DOMAIN saver.taken \cup {p}
      /\ \A r \in DOMAIN m : m[r] = IF r = p THEN tokens[p] ELSE saver.taken[r]
  BY <1>1 DEF TokensOK, IsMarking
<1>4. d \cup DOMAIN m = saver.todo \cup DOMAIN saver.taken
  BY <1>3
<1> HIDE DEF m
<1>5. /\ q.todo = d /\ q.taken = m /\ q.pc = "capture" /\ q.quiet = saver.quiet
      /\ q.kind = saver.kind /\ JobOK(q)
  <2> HIDE DEF d
  <2>2. saver.events \in Seq(Event)
    BY <1>1 DEF JobOK
  <2>1. JobOK(q)
    BY <1>1, <2>2, JobUpdatesTogether
  <2> QED BY <1>1, <2>1 DEF JobOK
<1> HIDE DEF q
<1>6. q.quiet = TRUE =>
        /\ ~dirty /\ ~Busy /\ q.todo \cup DOMAIN q.taken = Place
        /\ \A r \in DOMAIN q.taken : q.taken[r] = tokens[r]
  BY <1>1, <1>3, <1>4, <1>5 DEF CaptureOK
<1>7. IsMarking(q.taken) /\ q.quiet \in BOOLEAN /\ q.todo \subseteq Place
  BY <1>1, <1>3, <1>5 DEF TokensOK
<1>8. Busy' <=> Busy
  BY <1>1 DEF Busy, Holds
<1>9. IsMarking(file'.taken) /\ file'.quiet \in BOOLEAN /\ file'.todo \subseteq Place
  BY <1>1 DEF TokensOK
<1>10. CASE saver' = q
  <2>1. StoppedOK'
    BY <1>1, <1>5, <1>10 DEF StoppedOK
  <2>2. CaptureOK'
    BY <1>1, <1>6, <1>8, <1>10 DEF CaptureOK
  <2>3. SavedOK'
    BY <1>1, <1>5, <1>10 DEF SavedOK
  <2> QED BY <1>1, <1>7, <1>9, <1>10, <2>1, <2>2, <2>3, JobOnce DEF OnceInv
<1>11. CASE saver' = NoJob
  <2>1. StoppedOK' /\ CaptureOK' /\ SavedOK'
    BY <1>1, <1>11, NoJobParts DEF StoppedOK, CaptureOK, SavedOK
  <2> QED BY <1>1, <1>9, <1>11, <2>1, NoJobParts, JobOnce DEF OnceInv
<1>12. CASE /\ q.todo = {}
            /\ saver' = [q EXCEPT !.pc = IF q.kind = "marking" THEN "open" ELSE "events",
                                  !.owed = IF q.kind = "marking" THEN {} ELSE took]
  <2> DEFINE a == IF q.kind = "marking" THEN "open" ELSE "events"
             o == IF q.kind = "marking" THEN {} ELSE took
  <2>1. saver' = [q EXCEPT !.pc = a, !.owed = o] /\ a \in {"open", "events"}
    BY <1>12
  <2> HIDE DEF a, o
  <2>2. /\ saver'.pc = a /\ saver'.taken = q.taken /\ saver'.quiet = q.quiet
        /\ saver'.kind = q.kind /\ saver'.todo = q.todo
    BY <1>5, <2>1 DEF JobOK
  <2>3. q.quiet = TRUE => Whole(q.taken)
    BY <1>1, <1>6, <1>12, CapturedWhole
  <2>4. SavedOK'
    BY <1>1, <2>2, <2>3 DEF SavedOK
  <2>5. StoppedOK' /\ CaptureOK'
    BY <1>1, <2>1, <2>2 DEF StoppedOK, CaptureOK
  <2> QED BY <1>1, <1>7, <1>9, <2>2, <2>4, <2>5, JobOnce DEF OnceInv
<1> QED
  BY <1>2, <1>10, <1>11, <1>12 DEF Captured

(* A file gives back each token it has, once.                               *)
LEMMA DecodedSame ==
  ASSUME NEW m, IsMarking(m)
  PROVE  IsMarking(Decoded(m)) /\ (Whole(m) => Whole(Decoded(m)))
<1> DEFINE n == Decoded(m)
<1>1. DOMAIN n = DOMAIN m
      /\ \A p \in DOMAIN m :
           n[p] = [i \in DOMAIN m[p] |-> [m[p][i] EXCEPT !.meta = FALSE]]
  BY DEF Decoded
<1>2. ASSUME NEW p \in DOMAIN m
      PROVE  /\ n[p] \in Seq(Token) /\ Len(n[p]) = Len(m[p])
             /\ \A i \in 1 .. Len(m[p]) : n[p][i].id = m[p][i].id
  <2>1. m[p] \in Seq(Token) /\ Len(m[p]) \in Nat /\ DOMAIN m[p] = 1 .. Len(m[p])
    BY LenProperties DEF IsMarking
  <2>2. \A i \in 1 .. Len(m[p]) : m[p][i] \in Token
    BY <2>1
  <2>3. \A i \in 1 .. Len(m[p]) : /\ [m[p][i] EXCEPT !.meta = FALSE] \in Token
                                  /\ [m[p][i] EXCEPT !.meta = FALSE].id = m[p][i].id
    BY <2>2 DEF Token
  <2> DEFINE g == [i \in 1 .. Len(m[p]) |-> [m[p][i] EXCEPT !.meta = FALSE]]
  <2>4. n[p] = g
    BY <1>1, <2>1
  <2>5. g \in [1 .. Len(m[p]) -> Token]
    BY <2>3
  <2> HIDE DEF n
  <2>6. g \in Seq(Token) /\ Len(g) = Len(m[p])
    BY <2>1, <2>5, SeqDef, LenProperties
  <2> QED BY <2>3, <2>4, <2>6
<1> HIDE DEF n
<1>3. IsMarking(n)
  <2>1. n \in [DOMAIN n -> Seq(Token)]
    <3>1. n = [p \in DOMAIN n |-> n[p]]
      BY DEF n, Decoded
    <3> QED BY <1>1, <1>2, <3>1
  <2> QED BY <1>1, <2>1 DEF IsMarking
<1>4. \A p, k, i : IsAt(n, p, k, i) <=> IsAt(m, p, k, i)
  BY <1>1, <1>2 DEF IsAt
<1>5. ASSUME NEW i, Once(m, i) PROVE Once(n, i)
  <2>1. PICK p, k : OnlyAt(m, p, k, i)
    BY <1>5 DEF Once
  <2>2. OnlyAt(n, p, k, i)
    BY <1>4, <2>1 DEF OnlyAt
  <2> QED BY <2>2 DEF Once
<1>6. Whole(m) => Whole(n)
  BY <1>1, <1>5 DEF Whole
<1> QED
  BY <1>3, <1>6 DEF n

(* A clean restore has each token where its checkpoint had it, and no one   *)
(* else has any: the engine was stopped, and so the loop idle.              *)
LEMMA RestoreOnce ==
  ASSUME RecoveryInv, OnceInv, RestoreMarking, UNCHANGED file
  PROVE  OnceInv'
<1> DEFINE m == saver.taken
           n == [p \in Place |-> IF p \in DOMAIN m THEN m[p] ELSE <<>>]
<1>1. /\ TokensOK /\ StoppedOK /\ SavedOK /\ saver.pc = "restore"
      /\ tokens' = n /\ saver' = NoJob /\ UNCHANGED <<fire, running>>
      /\ dirty' = (~saver.quiet \/ saver.kind = "workflow" \/ Overlaps)
  BY DEF OnceInv, RestoreMarking
<1>2. IsMarking(m) /\ n \in [Place -> Seq(Token)]
  <2>1. IsMarking(m)
    BY <1>1 DEF TokensOK
  <2>2. \A p \in Place : (IF p \in DOMAIN m THEN m[p] ELSE <<>>) \in Seq(Token)
    BY <2>1 DEF IsMarking
  <2> QED BY <2>1, <2>2
<1>3. ASSUME ~dirty', NEW i \in TokenId PROVE TokenOnce(i)'
  <2>1. saver.quiet = TRUE /\ saver.kind = "marking" /\ ~Overlaps
    BY <1>1, <1>3 DEF StoppedOK, TokensOK
  <2>2. Whole(m)
    BY <1>1, <2>1 DEF SavedOK
  <2>3. \A th \in Thread : ~Holds(th)
    <3>1. \A th \in Thread : Holds(th) => th = loop /\ saver.started # TRUE
      BY <2>1 DEF Overlaps
    <3>2. Holds(loop) => saver.started = TRUE
      BY <1>1 DEF StoppedOK, Holds
    <3> QED BY <3>1, <3>2
  <2>4. NoHandHas(i)'
    BY <1>1, <2>3 DEF NoHandHas, HasIt, Holds
  <2>5. \A p, k : IsAt(n, p, k, i) <=> IsAt(m, p, k, i)
    BY <2>2 DEF IsAt, Whole
  <2> HIDE DEF n
  <2>6. PICK p, k : OnlyAt(m, p, k, i)
    BY <2>2 DEF Whole, Once
  <2>7. OnlyAt(n, p, k, i)
    BY <2>5, <2>6 DEF OnlyAt
  <2>8. Once(n, i)
    BY <2>7 DEF Once
  <2> QED BY <1>1, <2>4, <2>8 DEF TokenOnce
<1>4. OnceOK'
  BY <1>3 DEF OnceOK
<1>5. TokensOK'
  BY <1>1, <1>2, NoJobParts DEF TokensOK, Holds
<1>6. StoppedOK' /\ CaptureOK' /\ SavedOK'
  BY <1>1, NoJobParts DEF StoppedOK, CaptureOK, SavedOK
<1> QED
  BY <1>4, <1>5, <1>6 DEF OnceInv

LEMMA OperatorStepOnce ==
  ASSUME RecoveryInv, OnceInv, OperatorStep, UNCHANGED <<file, starts>>
  PROVE  OnceInv'
<1>1. /\ JobOK(saver) /\ JobOK(file) /\ JobOK(NoJob) /\ GetAll \in Seq(Event)
      /\ TokensOK /\ StoppedOK /\ CaptureOK /\ SavedOK
  BY NoJobOK DEF RecoveryInv, HandsOK, OnceInv, LogInv, LogTypeOK, GetAll
<1>2. /\ IsMarking(file'.taken) /\ file'.quiet \in BOOLEAN /\ file'.todo \subseteq Place
      /\ file' = file
  BY <1>1 DEF TokensOK
<1>3. ASSUME NEW kind \in {"marking", "workflow"}, Checkpoint(kind) PROVE OnceInv'
  <2> DEFINE v == ~Busy /\ ~dirty
  <2>1. /\ saver' = [NoJob EXCEPT !.pc = "capture", !.kind = kind, !.todo = Place,
                                  !.quiet = v]
        /\ UNCHANGED <<tokens, fire, dirty, running>>
    BY <1>3 DEF Checkpoint, volatile
  <2>2. v \in BOOLEAN /\ (v = TRUE => ~Busy /\ ~dirty)
    OBVIOUS
  <2> HIDE DEF v
  <2>3. /\ saver'.pc = "capture" /\ saver'.kind = kind /\ saver'.todo = Place
        /\ saver'.quiet = v /\ saver'.taken = NoMarking
    BY <2>1 DEF NoJob
  <2>4. IsMarking(NoMarking) /\ DOMAIN NoMarking = {}
    BY DEF IsMarking, NoMarking
  <2>5. StoppedOK' /\ SavedOK'
    BY <1>1, <1>2, <2>1, <2>3 DEF StoppedOK, SavedOK
  <2>6. CaptureOK'
    BY <2>1, <2>2, <2>3, <2>4 DEF CaptureOK, Busy, Holds
  <2> QED BY <1>2, <2>1, <2>2, <2>3, <2>4, <2>5, <2>6, JobOnce
<1>4. CASE TakeEvents
  <2> DEFINE es == GetAll  l == log.limit
  <2>1. /\ saver' = [saver EXCEPT !.pc = "open", !.events = es, !.limit = l]
        /\ saver.pc = "events" /\ UNCHANGED <<tokens, fire, dirty, running>>
    BY <1>4 DEF TakeEvents, volatile
  <2> HIDE DEF es, l
  <2>2. /\ saver'.pc = "open" /\ saver'.kind = saver.kind /\ saver'.todo = saver.todo
        /\ saver'.quiet = saver.quiet /\ saver'.taken = saver.taken
    BY <1>1, <2>1 DEF JobOK
  <2>3. SavedOK'
    BY <1>1, <1>2, <2>1, <2>2 DEF SavedOK
  <2>4. StoppedOK' /\ CaptureOK'
    BY <1>1, <2>1, <2>2 DEF StoppedOK, CaptureOK
  <2> QED BY <1>1, <1>2, <2>1, <2>2, <2>3, <2>4, JobOnce DEF TokensOK
<1>5. CASE SaveLog
  <2> DEFINE es == GetAll
  <2>1. /\ saver' = [NoJob EXCEPT !.pc = "open", !.kind = "log", !.events = es]
        /\ UNCHANGED <<tokens, fire, dirty, running>>
    BY <1>5 DEF SaveLog, volatile
  <2> HIDE DEF es
  <2>2. /\ saver'.pc = "open" /\ saver'.kind = "log" /\ saver'.todo = NoJob.todo
        /\ saver'.quiet = NoJob.quiet /\ saver'.taken = NoJob.taken
    BY <2>1 DEF NoJob
  <2>3. StoppedOK' /\ CaptureOK' /\ SavedOK'
    BY <1>1, <1>2, <2>1, <2>2 DEF StoppedOK, CaptureOK, SavedOK
  <2> QED BY <1>2, <2>1, <2>2, <2>3, NoJobParts, JobOnce
<1>6. CASE RestoreFromFile
  <2> DEFINE m == MarkingOf
  <2>1. /\ saver' = [file EXCEPT !.pc = "restore", !.taken = m, !.started = FALSE]
        /\ Readable /\ ~running /\ UNCHANGED <<tokens, fire, dirty, running>>
    BY <1>6 DEF RestoreFromFile, volatile
  <2>2. /\ IsMarking(m)
        /\ file.kind = "marking" /\ file.quiet = TRUE => Whole(m)
    BY <1>1, DecodedSame, NoJobParts DEF MarkingOf, TokensOK, SavedOK, NoJob
  <2> HIDE DEF m
  <2>3. /\ saver'.pc = "restore" /\ saver'.kind = file.kind /\ saver'.todo = file.todo
        /\ saver'.quiet = file.quiet /\ saver'.taken = m
    BY <1>1, <2>1 DEF JobOK
  <2>4. file.kind \in {"marking", "workflow"}
    BY <2>1 DEF Readable
  <2>5. StoppedOK' /\ CaptureOK'
    BY <1>1, <2>1, <2>3, <2>4 DEF StoppedOK, CaptureOK
  <2>6. SavedOK'
    BY <1>1, <1>2, <2>2, <2>3 DEF SavedOK
  <2> QED BY <1>1, <1>2, <2>1, <2>2, <2>3, <2>5, <2>6, JobOnce DEF TokensOK
<1>7. CASE LoadLog \/ ClearLog
  <2>1. UNCHANGED <<tokens, fire, dirty, running, saver>>
    BY <1>7 DEF LoadLog, ClearLog
  <2>2. StoppedOK' /\ CaptureOK' /\ SavedOK'
    BY <1>1, <1>2, <2>1 DEF StoppedOK, CaptureOK, SavedOK, Busy, Holds
  <2> QED BY <1>1, <1>2, <2>1, <2>2, JobOnce DEF TokensOK
<1> QED
  BY <1>2, <1>3, <1>4, <1>5, <1>6, <1>7, CaptureOnce, RestoreOnce DEF OperatorStep

LEMMA FileStepOnce ==
  ASSUME RecoveryInv, OnceInv, OpenFile \/ WriteFile, UNCHANGED starts
  PROVE  OnceInv'
<1>1. /\ JobOK(saver) /\ TokensOK /\ StoppedOK /\ CaptureOK /\ SavedOK
      /\ UNCHANGED <<tokens, fire, dirty, running>>
  BY DEF RecoveryInv, HandsOK, OnceInv, OpenFile, WriteFile, volatile
<1>2. CASE OpenFile
  <2>1. /\ saver' = [saver EXCEPT !.pc = "write"] /\ saver.pc = "open"
        /\ file' = [[NoJob EXCEPT !.pc = "file"] EXCEPT !.kind = "torn"]
    BY <1>2 DEF OpenFile, NoFile
  <2>2. /\ saver'.pc = "write" /\ saver'.kind = saver.kind /\ saver'.todo = saver.todo
        /\ saver'.quiet = saver.quiet /\ saver'.taken = saver.taken
    BY <1>1, <2>1 DEF JobOK
  <2>3. /\ file'.kind = "torn" /\ file'.taken = NoJob.taken /\ file'.quiet = NoJob.quiet
        /\ file'.todo = NoJob.todo
    BY <2>1 DEF NoJob
  <2>4. StoppedOK' /\ CaptureOK' /\ SavedOK'
    BY <1>1, <2>1, <2>2, <2>3 DEF StoppedOK, CaptureOK, SavedOK
  <2> QED BY <1>1, <2>2, <2>3, <2>4, NoJobParts, JobOnce DEF TokensOK
<1>3. CASE WriteFile
  <2>1. /\ saver' = NoJob /\ file' = [saver EXCEPT !.pc = "file"] /\ saver.pc = "write"
    BY <1>3 DEF WriteFile
  <2>2. /\ file'.kind = saver.kind /\ file'.todo = saver.todo
        /\ file'.quiet = saver.quiet /\ file'.taken = saver.taken
    BY <1>1, <2>1 DEF JobOK
  <2>3. StoppedOK' /\ CaptureOK' /\ SavedOK'
    BY <1>1, <2>1, <2>2, NoJobParts DEF StoppedOK, CaptureOK, SavedOK
  <2> QED BY <1>1, <2>1, <2>2, <2>3, NoJobParts, JobOnce DEF TokensOK
<1> QED
  BY <1>2, <1>3

(* The net as it is built has each token, once.                             *)
LEMMA BuiltOnce ==
  ASSUME NEW data \in TokenData
  PROVE  /\ InitialContent(data) \in [Place -> Seq(Token)]
         /\ \A i \in TokenId : Once(InitialContent(data), i)
<1> DEFINE m == InitialContent(data)
<1>1. ASSUME NEW p \in Place
      PROVE  /\ m[p] \in Seq(Token) /\ Len(m[p]) = Len(InitialTokens[p])
             /\ \A k \in 1 .. Len(m[p]) : m[p][k].id = InitialTokens[p][k]
  <2>1. InitialTokens[p] \in Seq(TokenId)
    BY RecoveryAssumption
  <2> DEFINE n == Len(InitialTokens[p])
             g == [k \in 1 .. n |-> [id |-> InitialTokens[p][k],
                                     data |-> data[InitialTokens[p][k]], meta |-> TRUE]]
  <2>2. n \in Nat /\ DOMAIN InitialTokens[p] = 1 .. n
        /\ \A k \in 1 .. n : InitialTokens[p][k] \in TokenId
    BY <2>1, LenProperties
  <2>3. m[p] = g
    BY <2>2 DEF InitialContent
  <2>4. g \in [1 .. n -> Token]
    BY <2>2 DEF Token, TokenData
  <2>5. \A k \in 1 .. n : g[k].id = InitialTokens[p][k]
    OBVIOUS
  <2> HIDE DEF m, g, n
  <2>6. g \in Seq(Token) /\ Len(g) = n
    BY <2>2, <2>4, SeqDef, LenProperties
  <2> QED BY <2>3, <2>5, <2>6 DEF n
<1>2. m \in [Place -> Seq(Token)]
  BY <1>1 DEF InitialContent
<1>3. ASSUME NEW i \in TokenId PROVE Once(m, i)
  <2>1. PICK p \in Place : \E k \in DOMAIN InitialTokens[p] :
          \A q \in Place : \A l \in DOMAIN InitialTokens[q] :
            InitialTokens[q][l] = i <=> q = p /\ l = k
    BY RecoveryAssumption
  <2>2. PICK k \in DOMAIN InitialTokens[p] :
          \A q \in Place : \A l \in DOMAIN InitialTokens[q] :
            InitialTokens[q][l] = i <=> q = p /\ l = k
    BY <2>1
  <2>3. \A q \in Place : DOMAIN InitialTokens[q] = 1 .. Len(m[q])
    BY <1>1, RecoveryAssumption, LenProperties
  <2> HIDE DEF m
  <2>4. \A q, l : IsAt(m, q, l, i) <=> q = p /\ l = k
    <3> TAKE q, l
    <3>1. IsAt(m, q, l, i) <=> q \in Place /\ l \in DOMAIN InitialTokens[q]
                               /\ InitialTokens[q][l] = i
      BY <1>1, <1>2, <2>3 DEF IsAt
    <3> QED BY <2>2, <3>1
  <2>5. OnlyAt(m, p, k, i)
    BY <2>4 DEF OnlyAt
  <2> QED BY <2>5 DEF Once
<1> QED
  BY <1>2, <1>3

LEMMA FreshHands ==
  ASSUME NEW th \in Thread
  PROVE  LET f == [u \in Thread |-> Idle] IN f[th].pc = "idle"
  BY DEF Idle, Firing

LEMMA CrashOnce == ASSUME RecoveryInv, OnceInv, Crash PROVE OnceInv'
<1>1. PICK data \in TokenData : tokens' = InitialContent(data)
  BY DEF Crash, NewProcess
<1>2. /\ \A th \in Thread : fire'[th].pc = "idle"
      /\ running' = FALSE /\ saver' = NoJob /\ file' = file
  BY FreshHands DEF Crash, NewProcess
<1>3. TokensOK'
  BY <1>1, <1>2, BuiltOnce, NoJobParts DEF TokensOK, Holds, OnceInv
<1>4. StoppedOK' /\ CaptureOK' /\ SavedOK'
  BY <1>2, NoJobParts DEF StoppedOK, CaptureOK, SavedOK, OnceInv, Thread
<1>5. \A i \in TokenId : Once(tokens', i) /\ NoHandHas(i)'
  BY <1>1, <1>2, BuiltOnce DEF NoHandHas, HasIt, Holds
<1>6. OnceOK'
  BY <1>5 DEF OnceOK, TokenOnce
<1> QED
  BY <1>3, <1>4, <1>6 DEF OnceInv

LEMMA InitOnce == ASSUME Init PROVE OnceInv
<1>1. PICK data \in TokenData : tokens = InitialContent(data)
  BY DEF Init
<1>2. /\ \A th \in Thread : fire[th].pc = "idle"
      /\ running = FALSE /\ saver = NoJob
  BY FreshHands DEF Init
<1>3. /\ file.kind = "none" /\ file.taken = NoJob.taken /\ file.quiet = NoJob.quiet
      /\ file.todo = NoJob.todo
  BY DEF Init, NoFile, NoJob
<1>4. TokensOK
  BY <1>1, <1>2, <1>3, BuiltOnce, NoJobParts DEF TokensOK, Holds
<1>5. StoppedOK /\ CaptureOK /\ SavedOK
  BY <1>2, <1>3, NoJobParts DEF StoppedOK, CaptureOK, SavedOK, Thread
<1>6. \A i \in TokenId : Once(tokens, i) /\ NoHandHas(i)
  BY <1>1, <1>2, BuiltOnce DEF NoHandHas, HasIt, Holds
<1>7. OnceOK
  BY <1>6 DEF OnceOK, TokenOnce
<1> QED
  BY <1>4, <1>5, <1>7 DEF OnceInv

(* What is in one position only is counted once.                            *)
LEMMA OnceCounted == ASSUME OnceInv PROVE EachTokenOnce
<1> SUFFICES ASSUME ~dirty, NEW i \in TokenId
             PROVE  Cardinality(InPlaces(i)) + Cardinality(InHands(i)) = 1
  BY DEF EachTokenOnce
<1>1. TokenOnce(i) /\ tokens \in [Place -> Seq(Token)]
  BY DEF OnceInv, OnceOK, TokensOK
<1>2. \A p, k : <<p, k>> \in InPlaces(i) <=> IsAt(tokens, p, k, i)
  <2> TAKE p, k
  <2>1. p \in Place => DOMAIN tokens[p] = 1 .. Len(tokens[p])
    BY <1>1, LenProperties
  <2> QED BY <1>1, <2>1 DEF InPlaces, IsAt
<1>3. \A s \in InPlaces(i) : \E p, k : s = <<p, k>>
  BY DEF InPlaces
<1>4. \A th : th \in InHands(i) <=> th \in Thread /\ HasIt(th, i)
  BY DEF InHands, HasIt
<1>5. CASE Once(tokens, i) /\ NoHandHas(i)
  <2>1. PICK p, k : OnlyAt(tokens, p, k, i)
    BY <1>5 DEF Once
  <2>2. \A q, l : <<q, l>> \in InPlaces(i) <=> q = p /\ l = k
    BY <1>2, <2>1 DEF OnlyAt
  <2>3. InPlaces(i) = {<<p, k>>}
    BY <1>3, <2>2
  <2>4. InHands(i) = {}
    BY <1>4, <1>5 DEF NoHandHas
  <2>5. Cardinality(InPlaces(i)) = 1
    BY <2>3, FS_Singleton
  <2>6. Cardinality(InHands(i)) = 0
    BY <2>4, FS_EmptySet
  <2> QED BY <2>5, <2>6
<1>6. CASE Nowhere(tokens, i) /\ OneHandHas(i)
  <2>1. PICK th \in Thread : \A u \in Thread : HasIt(u, i) <=> u = th
    BY <1>6 DEF OneHandHas
  <2>2. InHands(i) = {th}
    BY <1>4, <2>1
  <2>3. InPlaces(i) = {}
    BY <1>2, <1>3, <1>6 DEF Nowhere
  <2>4. Cardinality(InHands(i)) = 1
    BY <2>2, FS_Singleton
  <2>5. Cardinality(InPlaces(i)) = 0
    BY <2>3, FS_EmptySet
  <2> QED BY <2>4, <2>5
<1> QED
  BY <1>1, <1>5, <1>6 DEF TokenOnce

(* Over firings that fail, checkpoints of a net that moves, torn files,     *)
(* crashes and restores, each token is in one place or in one hand, once;   *)
(* only a restore of what was not whole, or while tokens were in hands that *)
(* the check of the engine's state does not see, may change that, and the   *)
(* next clean restore or a new process repairs it.                          *)
THEOREM TokensSurvive == Spec => []EachTokenOnce
<1>1. Init => RecoveryInv /\ OnceInv
  BY InitOK, InitOnce
<1>2. RecoveryInv /\ OnceInv /\ [Next]_vars => (RecoveryInv /\ OnceInv)'
  <2> SUFFICES ASSUME RecoveryInv, OnceInv, [Next]_vars
               PROVE  (RecoveryInv /\ OnceInv)'
    OBVIOUS
  <2>1. RecoveryInv'
    BY StepOK
  <2>2. CASE UNCHANGED vars
    <3>1. OnceOK'
      BY <2>2, OnceKept DEF vars, volatile, OnceInv, HasIt, Holds
    <3>2. TokensOK' /\ StoppedOK' /\ CaptureOK' /\ SavedOK'
      BY <2>2 DEF vars, volatile, OnceInv, TokensOK, StoppedOK, CaptureOK, SavedOK,
                  Busy, Holds
    <3> QED BY <2>1, <3>1, <3>2 DEF OnceInv
  <2>3. CASE Next
    BY <2>1, <2>3, FiringStepOnce, EngineStepOnce, OperatorStepOnce, FileStepOnce,
       CrashOnce DEF Next
  <2> QED BY <2>2, <2>3
<1>3. OnceInv => EachTokenOnce
  BY OnceCounted
<1> QED
  BY <1>1, <1>2, <1>3, PTL DEF Spec

=============================================================================
