------------------------- MODULE CaseSessionsProofs -------------------------
(***************************************************************************)
(* Theorems about the sessions on one case, for any number of sessions, of *)
(* transactions and of events, and for any clock: the audit trail they     *)
(* share is numbered without gap, tells its order, has one writer at a     *)
(* time and agrees with the calls on record.                               *)
(***************************************************************************)
EXTENDS CaseSessions, FiniteSetTheorems, TLAPS

\* Rows that are numbered 1, 2, 3, ...
GapFree(rows) ==
  /\ IsFiniteSet(rows)
  /\ Numbers(rows) = 1..Cardinality(rows)
  /\ \A r, q \in rows : r.number = q.number => r = q

\* Rows whose numbers follow their times, each transaction's in one block.
Ordered(rows) ==
  \A r, q \in rows :
    r.number < q.number =>
      /\ r.at <= q.at
      /\ r.by = q.by => \A m \in rows : r.number < m.number /\ m.number < q.number
                                           => m.by = r.by

\* What a session of a kind starts with, and what can be left of it.
WholeScript(kind) ==
  CASE kind = "run"    -> RunScript
    [] kind = "voice"  -> VoiceScript
    [] kind = "report" -> <<"VOICE_CALL_REPORTED">>
    [] kind = "error"  -> <<"ACTION_FAILED">>
    [] kind = "none"   -> <<>>

Scripts(kind) ==
  CASE kind = "run"    -> {RunScript, <<"OUTCOME">>, <<>>}
    [] kind = "voice"  -> {VoiceScript, <<"VOICE_RECOVERY_REQUESTED", "CALL">>,
                           <<"CALL">>, <<"VOICE_CALL_INITIATED">>,
                           <<"VOICE_CALL_FAILED">>, <<>>}
    [] kind = "report" -> {<<"VOICE_CALL_REPORTED">>, <<>>}
    [] kind = "error"  -> {<<"ACTION_FAILED">>, <<>>}
    [] kind = "none"   -> {<<>>}

\* A session that has inserted nothing has its whole script to do: none ends
\* without an event of its own.
ScriptPart(x) ==
  /\ x.kind = "none" <=> x.step = "idle"
  /\ x.script \in Scripts(x.kind)
  /\ x.step = "insert" => x.script # <<>> /\ Head(x.script) # "CALL"
  /\ x.own = {} => x.script = WholeScript(x.kind)
  /\ x.step = "idle" => x.own = {}
  /\ x.step # "idle" => x.state \in RunnableStates \cup TerminalStates

\* The events that a call ends with.
Endings == {"VOICE_CALL_INITIATED", "VOICE_CALL_FAILED"}

\* A call's approval and request, numbered in a row.
Asked(a, b) ==
  /\ b.number = a.number + 1
  /\ a.event = "VOICE_POLICY_CHECKED" /\ b.event = "VOICE_RECOVERY_REQUESTED"

\* The account of a call that has ended.
Account(x, a, b, c) ==
  /\ x.own = {a, b, c} /\ Asked(a, b)
  /\ c.number = b.number + 1 /\ c.event \in Endings
  /\ b.at <= x.called /\ x.called <= c.at

\* What a call has told when it is approved, when it is requested as well, and at
\* its end.
ApprovedTold(x) == \E a \in x.own : x.own = {a} /\ a.event = "VOICE_POLICY_CHECKED"

RequestTold(x) ==
  \E a, b \in x.own :
    /\ x.own = {a, b} /\ Asked(a, b)
    /\ x.script # <<"CALL">> => /\ b.at <= x.called
                                /\ x.step = "insert" => x.called <= x.at

EndTold(x) == \E a, b, c \in x.own : Account(x, a, b, c)

\* What a voice call has told so far, by the number of its steps left.
VoicePart(x) ==
  /\ x.kind # "voice" => \A r \in x.own : r.event \notin Endings
  /\ x.kind = "voice" =>
       /\ Len(x.script) = 3 => x.own = {}
       /\ Len(x.script) = 2 => ApprovedTold(x)
       /\ Len(x.script) = 1 => RequestTold(x)
       /\ Len(x.script) = 0 => EndTold(x)

\* A session's events go on from the committed ones; the number it has read is
\* the next one, or has been committed by another since, and no event it can see
\* is later than the time it has read.
NumberPart(x, rows) ==
  /\ GapFree(rows \cup x.own)
  /\ Ordered(rows \cup x.own)
  /\ x.step = "insert" /\ x.next \notin Numbers(rows) =>
       /\ x.next = Cardinality(rows \cup x.own) + 1
       /\ \A r \in rows \cup x.own : r.at <= x.at

\* Its events carry its transaction, which has no committed event.
OwnerPart(x, rows, now, count) ==
  /\ x.at <= now /\ x.called <= now
  /\ \A r \in x.own : r.by = x.by /\ r.at <= now
  /\ x.step # "idle" => x.by < count /\ \A r \in rows : r.by # x.by

SessionPart(x, rows, now, count) ==
  ScriptPart(x) /\ VoicePart(x) /\ NumberPart(x, rows) /\ OwnerPart(x, rows, now, count)

TrailPart ==
  /\ GapFree(trail) /\ Ordered(trail)
  /\ \A r \in trail : r.by < begun /\ r.at <= clock

OwnTransactions ==
  \A s, t \in Session :
    session[s].step # "idle" /\ session[t].step # "idle"
      /\ session[s].by = session[t].by => s = t

SessionsInv ==
  /\ TypeOK /\ OneWriter /\ CallsAreTold /\ TrailPart /\ OwnTransactions
  /\ \A s \in Session : SessionPart(session[s], trail, clock, begun)
-----------------------------------------------------------------------------
(* Numbered rows.                                                          *)

\* The highest number of rows numbered 1 to n is n, so _next_sequence reads n + 1.
LEMMA HighestOfInterval ==
  ASSUME NEW n \in Nat
  PROVE  Highest(1..n) = n
<1>1. n \in (1..n) \cup {0} /\ \A m \in 1..n : m <= n
  OBVIOUS
<1>2. \A k \in (1..n) \cup {0} : (\A m \in 1..n : m <= k) => k = n
  <2>1. CASE n = 0
    BY <2>1
  <2>2. CASE n # 0
    BY <2>2
  <2> QED
    BY <2>1, <2>2
<1> QED
  BY <1>1, <1>2 DEF Highest

\* A row under the next number extends them.
LEMMA NextRow ==
  ASSUME NEW rows \in SUBSET AuditRow, NEW r \in AuditRow, GapFree(rows),
         r.number = Cardinality(rows) + 1
  PROVE  GapFree(rows \cup {r})
<1>1. IsFiniteSet(rows) /\ Cardinality(rows) \in Nat
  BY FS_CardinalityType DEF GapFree
<1>2. r \notin rows
  <2>1. r.number \notin 1..Cardinality(rows)
    BY <1>1
  <2>2. r.number \notin Numbers(rows)
    BY <2>1 DEF GapFree
  <2> QED
    BY <2>2 DEF Numbers
<1>3. IsFiniteSet(rows \cup {r}) /\ Cardinality(rows \cup {r}) = Cardinality(rows) + 1
  BY <1>1, <1>2, FS_AddElement
<1>4. Numbers(rows \cup {r}) = Numbers(rows) \cup {Cardinality(rows) + 1}
  BY DEF Numbers
<1>5. Numbers(rows \cup {r}) = 1..Cardinality(rows \cup {r})
  <2>1. (1..Cardinality(rows)) \cup {Cardinality(rows) + 1} = 1..(Cardinality(rows) + 1)
    BY <1>1
  <2> QED
    BY <1>3, <1>4, <2>1 DEF GapFree
<1>6. \A p, q \in rows \cup {r} : p.number = q.number => p = q
  BY <1>1 DEF GapFree, Numbers
<1> QED
  BY <1>3, <1>5, <1>6 DEF GapFree

\* It keeps their order when it is not earlier than any and continues the block of
\* its transaction.
LEMMA NextInOrder ==
  ASSUME NEW rows \in SUBSET AuditRow, NEW r \in AuditRow,
         GapFree(rows), Ordered(rows), r.number = Cardinality(rows) + 1,
         \A q \in rows : q.at <= r.at,
         \A q, m \in rows : q.by = r.by /\ q.number < m.number => m.by = r.by
  PROVE  Ordered(rows \cup {r})
<1>1. Cardinality(rows) \in Nat
  BY FS_CardinalityType DEF GapFree
<1>2. \A q \in rows : q.number < r.number
  BY <1>1 DEF GapFree, Numbers
<1> QED
  BY <1>2 DEF Ordered, AuditRow

\* What is added to numbered rows without a gap comes after all of them.
LEMMA AddedRowsComeAfter ==
  ASSUME NEW rows \in SUBSET AuditRow, NEW own \in SUBSET AuditRow,
         GapFree(rows), GapFree(rows \cup own), NEW r \in own, r \notin rows
  PROVE  /\ \A q \in rows : q.number < r.number
         /\ Cardinality(rows) + 1 \in Numbers(own)
<1>1. /\ Cardinality(rows) \in Nat
      /\ Cardinality(rows \cup own) \in Nat
  BY FS_CardinalityType DEF GapFree
<1>2. r.number \notin Numbers(rows)
  BY DEF GapFree, Numbers
<1>3. r.number > Cardinality(rows) /\ r.number \in 1..Cardinality(rows \cup own)
  <2>1. r.number \in Numbers(rows \cup own)
    BY DEF Numbers
  <2> QED
    BY <1>1, <1>2, <2>1 DEF GapFree, AuditRow
<1>4. Cardinality(rows) + 1 \in Numbers(rows \cup own) \ Numbers(rows)
  BY <1>1, <1>3 DEF GapFree
<1>5. \A q \in rows : q.number <= Cardinality(rows)
  BY <1>1 DEF GapFree, Numbers
<1> QED
  BY <1>1, <1>3, <1>4, <1>5 DEF Numbers, AuditRow

\* The last of them has the highest number.
LEMMA LastRow ==
  ASSUME NEW rows \in SUBSET AuditRow, NEW own \in SUBSET AuditRow,
         GapFree(rows), GapFree(rows \cup own), own \cap rows = {},
         NEW r \in own, \A q \in own : q.number <= r.number
  PROVE  r.number = Cardinality(rows \cup own)
<1> DEFINE n == Cardinality(rows \cup own)
<1>1. n \in Nat /\ Numbers(rows \cup own) = 1..n
  BY FS_CardinalityType DEF GapFree
<1> HIDE DEF n
<1>2. r.number \in 1..n
  <2>1. r.number \in Numbers(rows \cup own)
    BY DEF Numbers
  <2> QED
    BY <1>1, <2>1
<1>3. n \in Numbers(rows \cup own)
  BY <1>1, <1>2
<1>4. PICK m \in rows \cup own : m.number = n
  BY <1>3 DEF Numbers
<1>5. \A q \in rows : q.number < r.number
  BY AddedRowsComeAfter
<1>6. n <= r.number
  BY <1>1, <1>2, <1>4, <1>5 DEF AuditRow
<1> QED
  BY <1>1, <1>2, <1>6 DEF n

\* The scripts of a kind are well formed, and what follows their first step is one
\* of them; only a voice call's lets an event tell how a call ended.
LEMMA ScriptSteps ==
  ASSUME NEW kind \in {"none", "run", "voice", "report", "error"},
         NEW script \in Scripts(kind)
  PROVE  /\ script \in Seq(EventType \cup {"CALL"})
         /\ script # <<>> =>
              /\ Tail(script) \in Scripts(kind)
              /\ Head(script) # "CALL" => Head(script) \in EventType
              /\ Head(script) \in Endings => kind = "voice"
         /\ script = <<"CALL">> =>
              /\ kind = "voice" /\ script # WholeScript(kind)
              /\ <<"VOICE_CALL_INITIATED">> \in Scripts(kind)
              /\ <<"VOICE_CALL_FAILED">> \in Scripts(kind)
         /\ script = <<>> => script # WholeScript(kind) \/ kind = "none"
<1> DEFINE Task == EventType \cup {"CALL"}
           OneTask(t) ==
             <<t>> \in Seq(Task) /\ <<t>> # <<>> /\ Head(<<t>>) = t /\ Tail(<<t>>) = <<>>
<1>1. <<>> \in Seq(Task)
  OBVIOUS
<1>2. \A t \in Task : OneTask(t)
  OBVIOUS
<1>3. \A t, u \in Task : /\ <<t, u>> \in Seq(Task) /\ <<t, u>> # <<>>
                         /\ Head(<<t, u>>) = t /\ Tail(<<t, u>>) = <<u>>
                         /\ \A v : <<t, u>> # <<v>>
  OBVIOUS
<1>4. \A t, u, v \in Task :
        /\ <<t, u, v>> \in Seq(Task) /\ <<t, u, v>> # <<>>
        /\ Head(<<t, u, v>>) = t /\ Tail(<<t, u, v>>) = <<u, v>>
        /\ \A w : <<t, u, v>> # <<w>>
  OBVIOUS
<1>5. \A t \in Task : <<t>> = <<"CALL">> => t = "CALL"
  OBVIOUS
<1>6. /\ EventType = {"DIAGNOSIS", "OUTCOME", "VOICE_POLICY_CHECKED",
                      "VOICE_RECOVERY_REQUESTED", "VOICE_CALL_INITIATED",
                      "VOICE_CALL_FAILED", "VOICE_CALL_REPORTED", "ACTION_FAILED"}
      /\ EventType \subseteq Task /\ "CALL" \in Task /\ "CALL" \notin EventType
      /\ <<"CALL">> # <<>>
  BY DEF EventType
<1> USE DEF Endings
<1> HIDE DEF Task
<1>7. CASE kind = "none"
  <2>1. script = <<>> /\ WholeScript(kind) = <<>>
    BY <1>7 DEF Scripts, WholeScript
  <2> QED
    BY <1>1, <1>6, <1>7, <2>1 DEF Task
<1>8. CASE kind = "run"
  <2>1. /\ WholeScript(kind) = <<"DIAGNOSIS", "OUTCOME">>
        /\ Scripts(kind) = {<<"DIAGNOSIS", "OUTCOME">>, <<"OUTCOME">>, <<>>}
    BY <1>8 DEF Scripts, WholeScript, RunScript
  <2>2. CASE script = <<"DIAGNOSIS", "OUTCOME">>
    BY <1>3, <1>6, <2>1, <2>2 DEF Task
  <2>3. CASE script = <<"OUTCOME">>
    BY <1>2, <1>5, <1>6, <2>1, <2>3 DEF Task
  <2>4. CASE script = <<>>
    BY <1>1, <1>3, <1>6, <2>1, <2>4 DEF Task
  <2> QED
    BY <2>1, <2>2, <2>3, <2>4
<1>9. CASE kind = "voice"
  <2>1. /\ WholeScript(kind)
             = <<"VOICE_POLICY_CHECKED", "VOICE_RECOVERY_REQUESTED", "CALL">>
        /\ Scripts(kind)
             = {<<"VOICE_POLICY_CHECKED", "VOICE_RECOVERY_REQUESTED", "CALL">>,
                <<"VOICE_RECOVERY_REQUESTED", "CALL">>, <<"CALL">>,
                <<"VOICE_CALL_INITIATED">>, <<"VOICE_CALL_FAILED">>, <<>>}
    BY <1>9 DEF Scripts, WholeScript, VoiceScript
  <2>2. CASE script = <<"VOICE_POLICY_CHECKED", "VOICE_RECOVERY_REQUESTED", "CALL">>
    BY <1>4, <1>6, <2>1, <2>2 DEF Task
  <2>3. CASE script = <<"VOICE_RECOVERY_REQUESTED", "CALL">>
    BY <1>3, <1>6, <2>1, <2>3 DEF Task
  <2>4. CASE script \in {<<"CALL">>, <<"VOICE_CALL_INITIATED">>, <<"VOICE_CALL_FAILED">>}
    <3>1. <<"CALL">> # WholeScript(kind)
      BY <1>4, <1>6, <2>1
    <3>2. PICK t \in {"CALL", "VOICE_CALL_INITIATED", "VOICE_CALL_FAILED"} : script = <<t>>
      BY <2>4
    <3>3. t \in Task /\ (t # "CALL" => t \in EventType)
      BY <1>6, <3>2 DEF Task
    <3>4. /\ script \in Seq(Task) /\ script # <<>>
          /\ Head(script) = t /\ Tail(script) = <<>>
      BY <1>2, <3>2, <3>3
    <3> QED
      BY <1>9, <2>1, <3>1, <3>3, <3>4 DEF Task
  <2>5. CASE script = <<>>
    BY <1>1, <1>4, <1>6, <2>1, <2>5 DEF Task
  <2> QED
    BY <2>1, <2>2, <2>3, <2>4, <2>5
<1>10. CASE kind \in {"report", "error"}
  <2>1. \E t \in {"VOICE_CALL_REPORTED", "ACTION_FAILED"} :
           WholeScript(kind) = <<t>> /\ Scripts(kind) = {<<t>>, <<>>}
    BY <1>10 DEF Scripts, WholeScript
  <2>2. PICK t \in {"VOICE_CALL_REPORTED", "ACTION_FAILED"} :
           WholeScript(kind) = <<t>> /\ Scripts(kind) = {<<t>>, <<>>}
    BY <2>1
  <2>3. t \in Task /\ t \in EventType /\ <<t>> # <<"CALL">>
    BY <1>5, <1>6 DEF Task
  <2>4. OneTask(t)
    BY <1>2, <2>3
  <2> HIDE DEF OneTask
  <2>5. CASE script = <<t>>
    <3>1. /\ script \in Seq(Task) /\ script # <<>>
          /\ Head(script) = t /\ Tail(script) = <<>>
      BY <2>4, <2>5 DEF OneTask
    <3> QED
      BY <2>2, <2>3, <2>5, <3>1 DEF Task
  <2>6. CASE script = <<>>
    BY <1>1, <1>6, <2>2, <2>4, <2>6 DEF OneTask, Task
  <2> QED
    BY <2>2, <2>5, <2>6
<1> QED
  BY <1>7, <1>8, <1>9, <1>10
\* A voice call asks, calls and tells how it went, one step after the other.
LEMMA VoiceSteps ==
  ASSUME NEW script \in Scripts("voice")
  PROVE  /\ Len(script) \in 0..3
         /\ Len(script) = 3 => Head(script) = "VOICE_POLICY_CHECKED"
         /\ Len(script) = 2 => /\ Head(script) = "VOICE_RECOVERY_REQUESTED"
                               /\ Tail(script) = <<"CALL">>
         /\ Len(script) = 1 => script = <<"CALL">> \/ Head(script) \in Endings
         /\ Len(script) # 0 => Len(Tail(script)) = Len(script) - 1
<1>1. Scripts("voice")
        = {<<"VOICE_POLICY_CHECKED", "VOICE_RECOVERY_REQUESTED", "CALL">>,
           <<"VOICE_RECOVERY_REQUESTED", "CALL">>, <<"CALL">>,
           <<"VOICE_CALL_INITIATED">>, <<"VOICE_CALL_FAILED">>, <<>>}
  BY DEF Scripts, VoiceScript
<1>2. CASE script = <<"VOICE_POLICY_CHECKED", "VOICE_RECOVERY_REQUESTED", "CALL">>
  BY <1>2
<1>3. CASE script = <<"VOICE_RECOVERY_REQUESTED", "CALL">>
  BY <1>3
<1>4. CASE script \in {<<"CALL">>, <<"VOICE_CALL_INITIATED">>, <<"VOICE_CALL_FAILED">>}
  BY <1>4 DEF Endings
<1>5. CASE script = <<>>
  BY <1>5
<1> QED
  BY <1>1, <1>2, <1>3, <1>4, <1>5

LEMMA ScriptLengths ==
  /\ Len(WholeScript("voice")) = 3
  /\ Len(<<"CALL">>) = 1
  /\ \A script \in {<<"VOICE_CALL_INITIATED">>, <<"VOICE_CALL_FAILED">>} : Len(script) = 1
  /\ Len(<<>>) = 0
  BY DEF WholeScript, VoiceScript

LEMMA VoiceTold ==
  ASSUME NEW x, x.kind = "voice",
         \/ Len(x.script) = 3 /\ x.own = {}
         \/ Len(x.script) = 2 /\ ApprovedTold(x)
         \/ Len(x.script) = 1 /\ RequestTold(x)
         \/ Len(x.script) = 0 /\ EndTold(x)
  PROVE  VoicePart(x)
<1>1. 3 # 2 /\ 3 # 1 /\ 3 # 0 /\ 2 # 1 /\ 2 # 0 /\ 1 # 0
  OBVIOUS
<1> QED
  BY <1>1, Zenon DEF VoicePart

-----------------------------------------------------------------------------
(* What the steps have in common.                                          *)

LEMMA EndedPart ==
  ASSUME NEW rows, GapFree(rows), Ordered(rows), NEW now \in Nat, NEW count
  PROVE  Ended \in SessionRow /\ SessionPart(Ended, rows, now, count)
<1>1. /\ Ended.kind = "none" /\ Ended.step = "idle" /\ Ended.script = <<>>
      /\ Ended.state = None /\ Ended.own = {} /\ Ended.at = 0 /\ Ended.called = 0
  BY DEF Ended
<1>2. <<>> \in Scripts("none") /\ WholeScript("none") = <<>>
  BY DEF Scripts, WholeScript
<1>3. Ended \in SessionRow
  BY <1>2, ScriptSteps DEF Ended, SessionRow
<1>4. rows \cup Ended.own = rows
  BY <1>1
<1>5. ScriptPart(Ended) /\ VoicePart(Ended)
  BY <1>1, <1>2 DEF ScriptPart, VoicePart
<1>6. NumberPart(Ended, rows)
  BY <1>1, <1>4 DEF NumberPart
<1>7. OwnerPart(Ended, rows, now, count)
  BY <1>1 DEF OwnerPart
<1> QED
  BY <1>3, <1>5, <1>6, <1>7 DEF SessionPart

\* A step of one session that commits nothing.
LEMMA SessionMoves ==
  ASSUME SessionsInv, NEW s \in Session, NEW x \in SessionRow,
         UNCHANGED <<tables, clock>>,
         placed' \subseteq [at : Nat, by : Nat],
         begun' \in Nat, begun' >= begun,
         session' = [session EXCEPT ![s] = x],
         SessionPart(x, trail, clock, begun'),
         x.own # {} => \A t \in Session \ {s} : session[t].own = {},
         x.step # "idle" => \A t \in Session \ {s} :
                              session[t].step # "idle" => session[t].by # x.by
  PROVE  SessionsInv'
<1> USE DEF tables
<1>1. /\ TypeOK /\ OneWriter /\ TrailPart /\ OwnTransactions
      /\ \A t \in Session : SessionPart(session[t], trail, clock, begun)
  BY DEF SessionsInv
<1>2. /\ session \in [Session -> SessionRow] /\ begun \in Nat /\ trail \subseteq AuditRow
      /\ session'[s] = x
      /\ \A t \in Session \ {s} : session'[t] = session[t]
  BY <1>1 DEF TypeOK
<1>3. TypeOK'
  BY <1>1, <1>2 DEF TypeOK
<1>4. OneWriter'
  BY <1>1, <1>2 DEF OneWriter
<1>5. CallsAreTold'
  BY DEF SessionsInv, CallsAreTold
<1>6. TrailPart'
  BY <1>1, <1>2 DEF TrailPart, TypeOK, AuditRow
<1>7. OwnTransactions'
  BY <1>1, <1>2 DEF OwnTransactions
<1>8. ASSUME NEW t \in Session
      PROVE  SessionPart(session'[t], trail', clock', begun')
  <2>1. CASE t = s
    BY <1>2, <2>1
  <2>2. CASE t # s
    <3>1. SessionPart(session[t], trail, clock, begun)
      BY <1>1
    <3>2. session[t].by \in Nat
      BY <1>2 DEF SessionRow
    <3>3. OwnerPart(session[t], trail, clock, begun')
      BY <1>2, <3>1, <3>2 DEF SessionPart, OwnerPart
    <3> QED
      BY <1>2, <2>2, <3>1, <3>3 DEF SessionPart
  <2> QED
    BY <2>1, <2>2
<1> QED
  BY <1>3, <1>4, <1>5, <1>6, <1>7, <1>8 DEF SessionsInv

\* A session that ends without a commit leaves nothing.
LEMMA SessionEnds ==
  ASSUME SessionsInv, NEW s \in Session,
         session' = [session EXCEPT ![s] = Ended],
         UNCHANGED <<tables, clock, placed, begun>>
  PROVE  SessionsInv'
<1>1. /\ GapFree(trail) /\ Ordered(trail) /\ clock \in Nat /\ begun \in Nat
      /\ placed \subseteq [at : Nat, by : Nat]
  BY DEF SessionsInv, TrailPart, TypeOK
<1>2. Ended \in SessionRow /\ SessionPart(Ended, trail, clock, begun)
  BY <1>1, EndedPart
<1>3. Ended.own = {} /\ Ended.step = "idle"
  BY DEF Ended
<1>4. /\ UNCHANGED <<tables, clock>> /\ placed' = placed
      /\ begun' = begun /\ begun' >= begun
  BY <1>1
<1> QED
  BY <1>1, <1>2, <1>3, <1>4, SessionMoves

\* One that fails starts over with what it will record of it.
LEMMA SessionFails ==
  ASSUME SessionsInv, NEW s \in Session, session[s].kind = "run",
         HandleError(s), UNCHANGED <<tables, clock, placed, begun>>
  PROVE  SessionsInv'
<1> DEFINE x == [session[s] EXCEPT !.kind = "error", !.step = "append", !.own = {},
                                   !.script = <<"ACTION_FAILED">>]
<1>1. /\ session[s] \in SessionRow /\ SessionPart(session[s], trail, clock, begun)
      /\ GapFree(trail) /\ Ordered(trail) /\ begun \in Nat
      /\ placed \subseteq [at : Nat, by : Nat] /\ OwnTransactions
  BY DEF SessionsInv, TrailPart, TypeOK
<1>2. /\ <<"ACTION_FAILED">> \in Scripts("error")
      /\ WholeScript("error") = <<"ACTION_FAILED">>
  BY DEF Scripts, WholeScript
<1>3. <<"ACTION_FAILED">> \in Seq(EventType \cup {"CALL"})
  BY <1>2, ScriptSteps
<1>4. /\ x \in SessionRow /\ x.kind = "error" /\ x.step = "append" /\ x.own = {}
      /\ x.script = <<"ACTION_FAILED">> /\ x.state = session[s].state
      /\ x.by = session[s].by /\ x.at = session[s].at /\ x.called = session[s].called
  BY <1>1, <1>3 DEF SessionRow
<1>5. session[s].step # "idle"
  BY <1>1 DEF SessionPart, ScriptPart
<1> HIDE DEF x
<1>6. trail \cup x.own = trail
  BY <1>4
<1>7. SessionPart(x, trail, clock, begun)
  <2>1. ScriptPart(x) /\ VoicePart(x)
    BY <1>1, <1>2, <1>4, <1>5 DEF SessionPart, ScriptPart, VoicePart
  <2>2. NumberPart(x, trail)
    BY <1>1, <1>4, <1>6 DEF NumberPart
  <2>3. OwnerPart(x, trail, clock, begun)
    BY <1>1, <1>4, <1>5 DEF SessionPart, OwnerPart
  <2> QED
    BY <2>1, <2>2, <2>3 DEF SessionPart
<1>8. \A t \in Session \ {s} : session[t].step # "idle" => session[t].by # x.by
  BY <1>1, <1>4, <1>5 DEF OwnTransactions
<1>9. session' = [session EXCEPT ![s] = x]
  BY DEF HandleError, x
<1>10. /\ UNCHANGED <<tables, clock>> /\ placed' = placed
       /\ begun' = begun /\ begun' >= begun
  BY <1>1
<1> QED
  BY <1>1, <1>4, <1>7, <1>8, <1>9, <1>10, SessionMoves
-----------------------------------------------------------------------------
(* The steps.                                                              *)

LEMMA BeginStep ==
  ASSUME SessionsInv, NEW s \in Session, NEW kind \in {"run", "voice", "report"},
         Begin(s, kind, WholeScript(kind))
  PROVE  SessionsInv'
<1> DEFINE x == [Ended EXCEPT !.kind = kind, !.step = "append",
                              !.script = WholeScript(kind), !.state = case,
                              !.attempts = payment.attempts, !.by = begun]
<1>1. /\ TypeOK /\ TrailPart
      /\ \A t \in Session : OwnerPart(session[t], trail, clock, begun)
  BY DEF SessionsInv, SessionPart
<1>2. WholeScript(kind) \in Scripts(kind)
  BY DEF Scripts, WholeScript
<1>3. /\ case \in RunnableStates \cup TerminalStates /\ case \in CaseState
      /\ payment.attempts \in Nat /\ begun \in Nat /\ clock \in Nat
      /\ trail \subseteq AuditRow /\ session \in [Session -> SessionRow]
  BY <1>1 DEF TypeOK, RunnableStates, TerminalStates, CaseState
<1>4. /\ x \in SessionRow /\ x.kind = kind /\ x.step = "append" /\ x.own = {}
      /\ x.script = WholeScript(kind) /\ x.state = case /\ x.by = begun /\ x.at = 0
      /\ x.called = 0
  BY <1>2, <1>3, ScriptSteps DEF SessionRow, Ended
<1>5. session' = [session EXCEPT ![s] = x]
  BY DEF Begin
<1> HIDE DEF x
<1>6. trail \cup x.own = trail
  BY <1>4
<1>7. SessionPart(x, trail, clock, begun + 1)
  <2>1. ScriptPart(x)
    BY <1>2, <1>3, <1>4 DEF ScriptPart
  <2>4. VoicePart(x)
    <3>1. kind = "voice" => Len(x.script) = 3
      BY <1>4, ScriptLengths
    <3> QED
      BY <1>4, <3>1, VoiceTold DEF VoicePart
  <2>2. NumberPart(x, trail)
    BY <1>1, <1>4, <1>6 DEF TrailPart, NumberPart
  <2>3. OwnerPart(x, trail, clock, begun + 1)
    BY <1>1, <1>3, <1>4 DEF TrailPart, OwnerPart
  <2> QED
    BY <2>1, <2>2, <2>3, <2>4 DEF SessionPart
<1>8. \A t \in Session \ {s} : session[t].step # "idle" => session[t].by # x.by
  <2>1. \A t \in Session : session[t].step # "idle" => session[t].by < begun
    BY <1>1 DEF OwnerPart
  <2> QED
    BY <1>3, <1>4, <2>1
<1>9. /\ UNCHANGED <<tables, clock>> /\ placed' \subseteq [at : Nat, by : Nat]
      /\ begun' = begun + 1 /\ begun' \in Nat /\ begun' >= begun
  BY <1>1, <1>3 DEF Begin, TypeOK
<1> QED
  BY <1>4, <1>5, <1>7, <1>8, <1>9, SessionMoves

\* It reads one more than the highest number it sees, at a time not before that of
\* any event it sees.
LEMMA ReadStep ==
  ASSUME SessionsInv, NEW s \in Session, ReadNumber(s)
  PROVE  SessionsInv'
<1> DEFINE n == Highest(Numbers(trail \cup session[s].own)) + 1
           x == [session[s] EXCEPT !.next = n, !.at = clock, !.step = "insert"]
<1>1. /\ TypeOK /\ TrailPart /\ OneWriter /\ OwnTransactions
      /\ SessionPart(session[s], trail, clock, begun)
  BY DEF SessionsInv
<1>2. /\ session[s] \in SessionRow /\ session \in [Session -> SessionRow]
      /\ clock \in Nat /\ begun \in Nat
  BY <1>1 DEF TypeOK
<1>3. /\ session[s].step = "append" /\ session[s].script # <<>>
      /\ Head(session[s].script) # "CALL"
  BY DEF ReadNumber
<1>4. n = Cardinality(trail \cup session[s].own) + 1 /\ n \in Nat
  <2>1. GapFree(trail \cup session[s].own)
    BY <1>1 DEF SessionPart, NumberPart
  <2>2. Cardinality(trail \cup session[s].own) \in Nat
    BY <2>1, FS_CardinalityType DEF GapFree
  <2>3. Numbers(trail \cup session[s].own) = 1..Cardinality(trail \cup session[s].own)
    BY <2>1 DEF GapFree
  <2> QED
    BY <2>2, <2>3, HighestOfInterval
<1> HIDE DEF n
<1>5. /\ x \in SessionRow /\ x.kind = session[s].kind /\ x.step = "insert"
      /\ x.own = session[s].own /\ x.script = session[s].script
      /\ x.state = session[s].state /\ x.by = session[s].by
      /\ x.at = clock /\ x.next = n /\ x.called = session[s].called
  BY <1>2, <1>4 DEF SessionRow
<1>6. session' = [session EXCEPT ![s] = x]
  BY <1>2 DEF ReadNumber, SessionRow, n
<1> HIDE DEF x
<1>7. SessionPart(x, trail, clock, begun)
  <2>1. ScriptPart(x)
    BY <1>1, <1>3, <1>5 DEF SessionPart, ScriptPart
  <2>4. VoicePart(x)
    <3>1. x.called <= x.at
      BY <1>1, <1>5 DEF SessionPart, OwnerPart
    <3>2. CASE x.kind = "voice"
      <4>1. Len(x.script) \in 1..3
        BY <1>1, <1>3, <1>5, <3>2, VoiceSteps DEF SessionPart, ScriptPart
      <4>2. CASE Len(x.script) = 3
        BY <1>1, <1>5, <3>2, <4>2, VoiceTold DEF SessionPart, VoicePart
      <4>3. CASE Len(x.script) = 2
        <5>1. ApprovedTold(x)
          BY <1>1, <1>5, <3>2, <4>3 DEF SessionPart, VoicePart, ApprovedTold
        <5> QED
          BY <3>2, <4>3, <5>1, VoiceTold
      <4>4. CASE Len(x.script) = 1
        <5>1. RequestTold(x)
          BY <1>1, <1>5, <3>1, <3>2, <4>4 DEF SessionPart, VoicePart, RequestTold
        <5> QED
          BY <3>2, <4>4, <5>1, VoiceTold
      <4> QED
        BY <4>1, <4>2, <4>3, <4>4
    <3>3. CASE x.kind # "voice"
      BY <1>1, <1>5, <3>3 DEF SessionPart, VoicePart
    <3> QED
      BY <3>2, <3>3
  <2>2. NumberPart(x, trail)
    BY <1>1, <1>4, <1>5 DEF SessionPart, NumberPart, OwnerPart, TrailPart
  <2>3. OwnerPart(x, trail, clock, begun)
    BY <1>1, <1>2, <1>3, <1>5 DEF SessionPart, OwnerPart
  <2> QED
    BY <2>1, <2>2, <2>3, <2>4 DEF SessionPart
<1>8. x.own # {} => \A t \in Session \ {s} : session[t].own = {}
  BY <1>1, <1>5 DEF OneWriter
<1>9. \A t \in Session \ {s} : session[t].step # "idle" => session[t].by # x.by
  BY <1>1, <1>3, <1>5 DEF OwnTransactions
<1>10. /\ UNCHANGED <<tables, clock>> /\ placed' \subseteq [at : Nat, by : Nat]
       /\ begun' = begun /\ begun' >= begun
  BY <1>1, <1>2 DEF ReadNumber, TypeOK
<1> QED
  BY <1>2, <1>5, <1>6, <1>7, <1>8, <1>9, <1>10, SessionMoves

\* A voice call's next event continues its account.
LEMMA VoiceGoesOn ==
  ASSUME NEW rows \in SUBSET AuditRow, NEW y \in SessionRow, NEW x \in SessionRow,
         NEW row \in AuditRow,
         GapFree(rows), GapFree(rows \cup y.own),
         \A r \in rows : r.by # y.by, \A r \in y.own : r.by = y.by,
         y.script \in Scripts(y.kind), VoicePart(y), y.step = "insert",
         y.script # <<>>, Head(y.script) # "CALL",
         Head(y.script) \in Endings => y.kind = "voice",
         row.number = Cardinality(rows \cup y.own) + 1,
         row.event = Head(y.script), row.at = y.at,
         x.kind = y.kind, x.step = "append", x.script = Tail(y.script),
         x.own = y.own \cup {row}, x.called = y.called
  PROVE  VoicePart(x)
<1>1. y.own \in SUBSET AuditRow /\ y.own \cap rows = {}
  BY DEF SessionRow
<1>2. CASE y.kind # "voice"
  BY <1>2 DEF VoicePart
<1>3. CASE y.kind = "voice"
  <2>1. /\ Len(y.script) \in 0..3 /\ Len(y.script) # 0
        /\ Len(y.script) = 3 => Head(y.script) = "VOICE_POLICY_CHECKED"
        /\ Len(y.script) = 2 => /\ Head(y.script) = "VOICE_RECOVERY_REQUESTED"
                                /\ Tail(y.script) = <<"CALL">>
        /\ Len(y.script) = 1 => y.script = <<"CALL">> \/ Head(y.script) \in Endings
        /\ Len(x.script) = Len(y.script) - 1
    <3>1. y.script \in Seq(EventType \cup {"CALL"})
      BY DEF SessionRow
    <3>2. Len(y.script) # 0
      BY <3>1
    <3> QED
      BY <1>3, <3>2, VoiceSteps
  <2>2. CASE Len(y.script) = 3
    <3>1. x.own = {row} /\ row.event = "VOICE_POLICY_CHECKED" /\ Len(x.script) = 2
      BY <1>3, <2>1, <2>2 DEF VoicePart
    <3>2. ApprovedTold(x)
      BY <3>1 DEF ApprovedTold
    <3> QED
      BY <1>3, <3>1, <3>2, VoiceTold
  <2>3. CASE Len(y.script) = 2
    <3>1. PICK a \in y.own : y.own = {a} /\ a.event = "VOICE_POLICY_CHECKED"
      BY <1>3, <2>3 DEF VoicePart, ApprovedTold
    <3>2. a.number = Cardinality(rows \cup y.own)
      <4>1. \A q \in y.own : q.number <= a.number
        BY <1>1, <3>1 DEF AuditRow
      <4> QED
        BY <1>1, <4>1, LastRow
    <3>3. /\ x.own = {a, row} /\ Asked(a, row) /\ Len(x.script) = 1
          /\ x.script = <<"CALL">>
      BY <2>1, <2>3, <3>1, <3>2 DEF Asked
    <3>4. RequestTold(x)
      BY <3>3 DEF RequestTold
    <3> QED
      BY <1>3, <3>3, <3>4, VoiceTold
  <2>4. CASE Len(y.script) = 1
    <3>1. y.script # <<"CALL">> /\ Head(y.script) \in Endings
      BY <2>1, <2>4
    <3>2. PICK a \in y.own, b \in y.own :
            /\ y.own = {a, b} /\ Asked(a, b)
            /\ b.at <= y.called /\ y.called <= y.at
      BY <1>3, <2>4, <3>1 DEF VoicePart, RequestTold
    <3>3. b.number = Cardinality(rows \cup y.own)
      <4>1. \A q \in y.own : q.number <= b.number
        BY <1>1, <3>2 DEF AuditRow, Asked
      <4> QED
        BY <1>1, <4>1, LastRow
    <3>4. Account(x, a, b, row) /\ Len(x.script) = 0
      <4>1. x.own = {a, b, row} /\ row.number = b.number + 1 /\ row.event \in Endings
        BY <3>1, <3>2, <3>3
      <4> QED
        BY <2>1, <2>4, <3>2, <4>1 DEF Account
    <3>5. EndTold(x)
      BY <3>4 DEF EndTold
    <3> QED
      BY <1>3, <3>4, <3>5, VoiceTold
  <2> QED
    BY <2>1, <2>2, <2>3, <2>4
<1> QED
  BY <1>2, <1>3

\* The insert goes through only when nobody else has written since the read, so the
\* row is the next one and the session the only writer.
LEMMA InsertStep ==
  ASSUME SessionsInv, NEW s \in Session, InsertEvent(s)
  PROVE  SessionsInv'
<1> DEFINE y == session[s]
           row == [number |-> y.next, event |-> Head(y.script), at |-> y.at, by |-> y.by]
           x == [y EXCEPT !.own = y.own \cup {row}, !.script = Tail(y.script),
                          !.step = "append"]
<1>1. /\ TypeOK /\ TrailPart /\ OneWriter /\ OwnTransactions
      /\ \A t \in Session : SessionPart(session[t], trail, clock, begun)
      /\ ScriptPart(y) /\ VoicePart(y)
      /\ NumberPart(y, trail) /\ OwnerPart(y, trail, clock, begun)
  BY DEF SessionsInv, SessionPart
<1>2. /\ y \in SessionRow /\ session \in [Session -> SessionRow]
      /\ trail \subseteq AuditRow /\ clock \in Nat /\ begun \in Nat
      /\ y.own \subseteq AuditRow
  BY <1>1 DEF TypeOK, SessionRow
<1>3. /\ y.step = "insert" /\ y.script # <<>> /\ Head(y.script) # "CALL"
      /\ y.next \notin Numbers(trail) /\ ~HeldByAnother(s, y.next)
  BY <1>1 DEF InsertEvent, ScriptPart
<1>4. /\ Head(y.script) \in EventType /\ Tail(y.script) \in Scripts(y.kind)
      /\ Tail(y.script) \in Seq(EventType \cup {"CALL"})
      /\ Head(y.script) \in Endings => y.kind = "voice"
  BY <1>1, <1>2, <1>3, ScriptSteps DEF ScriptPart, SessionRow
<1>5. /\ row \in AuditRow /\ row.number = y.next /\ row.at = y.at /\ row.by = y.by
      /\ row.event = Head(y.script)
  BY <1>2, <1>4 DEF AuditRow, SessionRow
<1>6. session' = [session EXCEPT ![s] = x]
  BY <1>2 DEF InsertEvent, SessionRow
<1>7. /\ x \in SessionRow /\ x.kind = y.kind /\ x.step = "append"
      /\ x.own = y.own \cup {row} /\ x.script = Tail(y.script)
      /\ x.state = y.state /\ x.by = y.by /\ x.at = y.at /\ x.called = y.called
  BY <1>2, <1>4, <1>5 DEF SessionRow
<1> HIDE DEF row, x
<1>8. /\ GapFree(trail \cup y.own) /\ Ordered(trail \cup y.own)
      /\ y.next = Cardinality(trail \cup y.own) + 1
      /\ \A r \in trail \cup y.own : r.at <= y.at
  BY <1>1, <1>3 DEF NumberPart
<1>9. NumberPart(x, trail)
  <2>1. trail \cup x.own = (trail \cup y.own) \cup {row}
    BY <1>7
  <2>2. trail \cup y.own \in SUBSET AuditRow
    BY <1>2
  <2>3. GapFree(trail \cup x.own)
    BY <1>5, <1>8, <2>1, <2>2, NextRow
  <2>4. ASSUME NEW q \in trail \cup y.own, NEW m \in trail \cup y.own,
               q.by = row.by, q.number < m.number
        PROVE  m.by = row.by
    <3>1. q \in y.own /\ q \notin trail
      BY <1>1, <1>3, <1>5, <2>4 DEF OwnerPart
    <3>2. \A p \in trail : p.number < q.number
      BY <1>1, <1>2, <1>8, <3>1, AddedRowsComeAfter DEF TrailPart
    <3>3. m \in y.own
      BY <1>2, <2>4, <3>1, <3>2 DEF AuditRow
    <3> QED
      BY <1>1, <1>5, <3>3 DEF OwnerPart
  <2>5. Ordered(trail \cup x.own)
    BY <1>5, <1>8, <2>1, <2>2, <2>4, NextInOrder
  <2> QED
    BY <1>7, <2>3, <2>5 DEF NumberPart
<1>10. SessionPart(x, trail, clock, begun)
  <2>1. ScriptPart(x)
    BY <1>1, <1>3, <1>4, <1>5, <1>7 DEF ScriptPart
  <2>2. OwnerPart(x, trail, clock, begun)
    BY <1>1, <1>3, <1>5, <1>7 DEF OwnerPart
  <2>3. VoicePart(x)
    BY <1>1, <1>2, <1>3, <1>4, <1>5, <1>7, <1>8, VoiceGoesOn
    DEF TrailPart, NumberPart, OwnerPart, ScriptPart
  <2> QED
    BY <1>9, <2>1, <2>2, <2>3 DEF SessionPart
<1>11. ASSUME NEW t \in Session \ {s}
       PROVE  session[t].own = {}
  <2>1. CASE y.own # {}
    BY <1>1, <2>1 DEF OneWriter
  <2>2. CASE y.own = {}
    <3>1. SUFFICES ASSUME session[t].own # {}  PROVE FALSE
      OBVIOUS
    <3>2. PICK r \in session[t].own : TRUE
      BY <3>1
    <3>3. /\ session[t].step # "idle" /\ GapFree(trail \cup session[t].own)
          /\ OwnerPart(session[t], trail, clock, begun)
      BY <1>1, <3>1 DEF SessionPart, ScriptPart, NumberPart
    <3>4. r \notin trail
      BY <3>3 DEF OwnerPart
    <3>5. session[t].own \in SUBSET AuditRow
      BY <1>2 DEF SessionRow
    <3>6. Cardinality(trail) + 1 \in Numbers(session[t].own)
      BY <1>1, <1>2, <3>3, <3>4, <3>5, AddedRowsComeAfter DEF TrailPart
    <3>7. y.next = Cardinality(trail) + 1
      BY <1>8, <2>2
    <3> QED
      BY <1>3, <3>6, <3>7 DEF HeldByAnother
  <2> QED
    BY <2>1, <2>2
<1>12. \A t \in Session \ {s} : session[t].step # "idle" => session[t].by # x.by
  BY <1>1, <1>3, <1>7 DEF OwnTransactions
<1>13. /\ UNCHANGED <<tables, clock>> /\ placed' \subseteq [at : Nat, by : Nat]
       /\ begun' = begun /\ begun' >= begun
  BY <1>1, <1>2 DEF InsertEvent, TypeOK
<1> QED
  BY <1>2, <1>6, <1>7, <1>10, <1>11, <1>12, <1>13, SessionMoves

LEMMA CallStep ==
  ASSUME SessionsInv, NEW s \in Session, PlaceCall(s)
  PROVE  SessionsInv'
<1> DEFINE y == session[s]
<1>1. /\ TypeOK /\ TrailPart /\ OneWriter /\ OwnTransactions
      /\ ScriptPart(y) /\ VoicePart(y)
      /\ NumberPart(y, trail) /\ OwnerPart(y, trail, clock, begun)
  BY DEF SessionsInv, SessionPart
<1>2. /\ y \in SessionRow /\ session \in [Session -> SessionRow]
      /\ clock \in Nat /\ begun \in Nat /\ y.step = "append" /\ y.script = <<"CALL">>
  BY <1>1 DEF TypeOK, PlaceCall
<1>3. /\ y.kind = "voice" /\ y.own # {}
      /\ <<"VOICE_CALL_INITIATED">> \in Scripts(y.kind)
      /\ <<"VOICE_CALL_FAILED">> \in Scripts(y.kind)
  BY <1>1, <1>2, ScriptSteps DEF ScriptPart, SessionRow
<1>4. PICK script \in {<<"VOICE_CALL_INITIATED">>, <<"VOICE_CALL_FAILED">>} :
        session' = [session EXCEPT ![s].called = clock, ![s].script = script]
  BY DEF PlaceCall
<1> DEFINE x == [y EXCEPT !.called = clock, !.script = script]
<1>5. script \in Scripts(y.kind) /\ script \in Seq(EventType \cup {"CALL"})
  BY <1>2, <1>3, <1>4, ScriptSteps DEF SessionRow
<1>6. /\ x \in SessionRow /\ x.kind = y.kind /\ x.step = "append" /\ x.own = y.own
      /\ x.script = script /\ x.state = y.state /\ x.by = y.by /\ x.at = y.at
      /\ x.called = clock
  BY <1>2, <1>5 DEF SessionRow
<1>7. session' = [session EXCEPT ![s] = x]
  BY <1>2, <1>4 DEF SessionRow
<1> HIDE DEF x
<1>8. SessionPart(x, trail, clock, begun)
  <2>1. ScriptPart(x)
    BY <1>1, <1>2, <1>3, <1>5, <1>6 DEF ScriptPart
  <2>2. NumberPart(x, trail) /\ OwnerPart(x, trail, clock, begun)
    BY <1>1, <1>2, <1>6 DEF NumberPart, OwnerPart
  <2>3. VoicePart(x)
    <3>1. Len(y.script) = 1 /\ Len(x.script) = 1
      BY <1>2, <1>4, <1>6, ScriptLengths
    <3>2. PICK a \in y.own, b \in y.own : y.own = {a, b} /\ Asked(a, b)
      BY <1>1, <1>3, <3>1 DEF VoicePart, RequestTold
    <3>3. b.at <= x.called /\ x.step # "insert"
      BY <1>1, <1>2, <1>6, <3>2 DEF OwnerPart
    <3> QED
      BY <1>3, <1>6, <3>1, <3>2, <3>3, VoiceTold DEF RequestTold
  <2> QED
    BY <2>1, <2>2, <2>3 DEF SessionPart
<1>9. \A t \in Session \ {s} : session[t].own = {}
  BY <1>1, <1>3 DEF OneWriter
<1>10. \A t \in Session \ {s} : session[t].step # "idle" => session[t].by # x.by
  BY <1>1, <1>2, <1>6 DEF OwnTransactions
<1>11. [at |-> clock, by |-> y.by] \in [at : Nat, by : Nat]
  BY <1>2 DEF SessionRow
<1>12. /\ UNCHANGED <<tables, clock>> /\ placed' \subseteq [at : Nat, by : Nat]
       /\ begun' = begun /\ begun' >= begun
  BY <1>1, <1>2, <1>11 DEF PlaceCall, TypeOK
<1> QED
  BY <1>2, <1>6, <1>7, <1>8, <1>9, <1>10, <1>12, SessionMoves

\* A commit is the only writer's, so the trail goes on where its events do; another
\* session that has read that number finds it taken.
LEMMA SaveStep ==
  ASSUME SessionsInv, NEW s \in Session, Done(s), session[s].kind # "none", Save(s),
         case' \in RunnableStates \cup TerminalStates,
         payment' \in [status : {"SUCCEEDED", "FAILED"}, attempts : Nat],
         calls' \subseteq [at : Nat, by : Nat, ok : BOOLEAN],
         calls \subseteq calls',
         \A call \in calls' :
           call \in calls \/ \E a, b, c \in session[s].own : TellsOf(a, b, c, call),
         \A c \in session[s].own : c.event \in Endings =>
           \E call \in calls', a, b \in session[s].own : TellsOf(a, b, c, call)
  PROVE  SessionsInv'
<1> DEFINE y == session[s]
<1>1. /\ TypeOK /\ TrailPart /\ OneWriter /\ OwnTransactions /\ CallsAreTold
      /\ \A t \in Session : SessionPart(session[t], trail, clock, begun)
      /\ ScriptPart(y) /\ NumberPart(y, trail) /\ OwnerPart(y, trail, clock, begun)
  BY DEF SessionsInv, SessionPart
<1>2. /\ y \in SessionRow /\ session \in [Session -> SessionRow]
      /\ trail \subseteq AuditRow /\ clock \in Nat /\ begun \in Nat
      /\ placed \subseteq [at : Nat, by : Nat] /\ y.own \subseteq AuditRow
      /\ y.step = "append" /\ y.script = <<>>
  BY <1>1 DEF TypeOK, SessionRow, Done
<1>3. y.own # {}
  BY <1>1, <1>2, ScriptSteps DEF ScriptPart, SessionRow
<1>4. /\ trail' = trail \cup y.own /\ session' = [session EXCEPT ![s] = Ended]
      /\ clock' = clock /\ begun' = begun /\ placed' = placed
  BY DEF Save
<1>5. /\ GapFree(trail') /\ Ordered(trail')
      /\ \A r \in trail' : r.by < begun' /\ r.at <= clock'
  BY <1>1, <1>2, <1>4 DEF NumberPart, OwnerPart, TrailPart
<1>6. Ended \in SessionRow /\ SessionPart(Ended, trail', clock', begun')
  BY <1>2, <1>4, <1>5, EndedPart
<1>7. /\ session'[s] = Ended
      /\ \A t \in Session \ {s} : session'[t] = session[t]
      /\ session' \in [Session -> SessionRow]
      /\ Ended.own = {} /\ Ended.step = "idle"
  BY <1>2, <1>4, <1>6 DEF Ended
<1>8. TypeOK'
  BY <1>1, <1>2, <1>4, <1>7 DEF TypeOK
<1>9. OneWriter' /\ OwnTransactions'
  BY <1>1, <1>7 DEF OneWriter, OwnTransactions
<1>10. CallsAreTold'
  <2>1. ASSUME NEW call \in calls'
        PROVE  \E a, b, c \in trail' : TellsOf(a, b, c, call)
    <3>1. CASE call \in calls
      BY <1>1, <1>4, <3>1 DEF CallsAreTold
    <3>2. CASE \E a, b, c \in y.own : TellsOf(a, b, c, call)
      BY <1>4, <3>2
    <3> QED
      BY <3>1, <3>2
  <2>2. ASSUME NEW c \in trail', c.event \in Endings
        PROVE  \E call \in calls', a, b \in trail' : TellsOf(a, b, c, call)
    <3>1. CASE c \in trail
      <4>1. PICK call \in calls, a \in trail, b \in trail : TellsOf(a, b, c, call)
        BY <1>1, <2>2, <3>1 DEF CallsAreTold, Endings
      <4> QED
        BY <1>4, <4>1
    <3>2. CASE c \in y.own
      <4>1. PICK call \in calls', a \in y.own, b \in y.own : TellsOf(a, b, c, call)
        BY <2>2, <3>2
      <4> QED
        BY <1>4, <4>1
    <3> QED
      BY <1>4, <3>1, <3>2
  <2> QED
    BY <2>1, <2>2 DEF CallsAreTold, Endings
<1>11. ASSUME NEW t \in Session \ {s}
       PROVE  SessionPart(session[t], trail', clock', begun')
  <2> DEFINE z == session[t]
  <2>1. z \in SessionRow /\ z.own = {} /\ SessionPart(z, trail, clock, begun)
    BY <1>1, <1>2, <1>3 DEF OneWriter
  <2>2. trail \cup z.own = trail /\ trail' \cup z.own = trail'
    BY <2>1
  <2>3. z.step = "insert" => z.next \in Numbers(trail')
    <3>1. SUFFICES ASSUME z.step = "insert", z.next \notin Numbers(trail)
                   PROVE  z.next \in Numbers(trail')
      BY <1>4 DEF Numbers
    <3>2. z.next = Cardinality(trail) + 1
      BY <2>1, <2>2, <3>1 DEF SessionPart, NumberPart
    <3>3. PICK r \in y.own : TRUE
      BY <1>3
    <3>4. r \notin trail
      BY <1>1, <1>2, <3>3 DEF OwnerPart
    <3>5. Cardinality(trail) + 1 \in Numbers(y.own)
      BY <1>1, <1>2, <3>3, <3>4, AddedRowsComeAfter DEF NumberPart, TrailPart
    <3> QED
      BY <1>4, <3>2, <3>5 DEF Numbers
  <2>4. NumberPart(z, trail')
    BY <1>5, <2>2, <2>3 DEF NumberPart
  <2>5. OwnerPart(z, trail', clock', begun')
    BY <1>1, <1>2, <1>4, <2>1 DEF SessionPart, OwnerPart, OwnTransactions
  <2> QED
    BY <2>1, <2>4, <2>5 DEF SessionPart
<1>12. \A t \in Session : SessionPart(session'[t], trail', clock', begun')
  BY <1>6, <1>7, <1>11
<1> QED
  BY <1>5, <1>8, <1>9, <1>10, <1>12 DEF SessionsInv, TrailPart

\* Only a voice call has a call to save with its events.
LEMMA SaveWithoutCall ==
  ASSUME SessionsInv, NEW s \in Session, Done(s), session[s].kind \notin {"none", "voice"},
         Save(s), calls' = calls,
         case' \in RunnableStates \cup TerminalStates,
         payment' \in [status : {"SUCCEEDED", "FAILED"}, attempts : Nat]
  PROVE  SessionsInv'
<1>1. \A c \in session[s].own : c.event \notin Endings
  BY DEF SessionsInv, SessionPart, VoicePart
<1>2. calls' \subseteq [at : Nat, by : Nat, ok : BOOLEAN]
  BY DEF SessionsInv, TypeOK
<1> QED
  BY <1>1, <1>2, SaveStep

LEMMA CommitStep ==
  ASSUME SessionsInv, NEW s \in Session, Commit(s)
  PROVE  SessionsInv'
<1> DEFINE y == session[s]
<1>1. /\ TypeOK /\ y \in SessionRow /\ clock \in Nat
      /\ ScriptPart(y) /\ VoicePart(y) /\ OwnerPart(y, trail, clock, begun)
      /\ case \in RunnableStates \cup TerminalStates
      /\ payment \in [status : {"SUCCEEDED", "FAILED"}, attempts : Nat]
      /\ calls \subseteq [at : Nat, by : Nat, ok : BOOLEAN]
  BY DEF SessionsInv, SessionPart, TypeOK
<1>2. CASE CommitVoice(s)
  <2> DEFINE told == \E r \in y.own : r.event = "VOICE_CALL_INITIATED"
             call == [at |-> y.called, by |-> y.by, ok |-> told]
  <2>1. y.kind = "voice" /\ y.step = "append" /\ y.script = <<>>
    BY <1>2 DEF CommitVoice, Done
  <2>2. /\ call \in [at : Nat, by : Nat, ok : BOOLEAN]
        /\ calls' = calls \cup {call}
        /\ call.by = y.by /\ call.ok = told /\ call.at = y.called
    BY <1>1, <1>2 DEF CommitVoice, SessionRow
  <2>3. PICK a \in y.own, b \in y.own, c \in y.own : Account(y, a, b, c)
    BY <1>1, <2>1, ScriptLengths DEF VoicePart, EndTold
  <2>4. /\ y.own = {a, b, c} /\ c.event \in Endings
        /\ a.event \notin Endings /\ b.event \notin Endings
    BY <2>3 DEF Account, Asked, Endings
  <2>5. told <=> c.event = "VOICE_CALL_INITIATED"
    BY <2>4 DEF Endings
  <2> HIDE DEF call, told
  <2>6. a.by = call.by /\ b.by = call.by /\ c.by = call.by
    BY <1>1, <2>2 DEF OwnerPart
  <2>7. c.event = IF call.ok THEN "VOICE_CALL_INITIATED" ELSE "VOICE_CALL_FAILED"
    BY <2>2, <2>4, <2>5 DEF Endings
  <2>8. TellsOf(a, b, c, call)
    BY <2>2, <2>3, <2>6, <2>7 DEF TellsOf, Account, Asked
  <2>9. \A r \in y.own : r.event \in Endings => r = c
    BY <2>4
  <2>10. calls' \subseteq [at : Nat, by : Nat, ok : BOOLEAN] /\ calls \subseteq calls'
    BY <1>1, <2>2
  <2>11. \A k \in calls' : k \in calls \/ \E p, q, r \in y.own : TellsOf(p, q, r, k)
    BY <2>2, <2>8
  <2>12. \A r \in y.own : r.event \in Endings =>
           \E k \in calls', p, q \in y.own : TellsOf(p, q, r, k)
    BY <2>2, <2>8, <2>9
  <2>13. Done(s) /\ Save(s) /\ case' = case /\ payment' = payment
    BY <1>2 DEF CommitVoice
  <2> QED
    BY <1>1, <2>1, <2>10, <2>11, <2>12, <2>13, SaveStep
<1>3. CASE CommitReport(s)
  BY <1>1, <1>3, SaveWithoutCall DEF CommitReport
<1>4. CASE CommitError(s)
  <2>1. y.state \in RunnableStates \cup TerminalStates
    BY <1>1, <1>4 DEF CommitError, ScriptPart
  <2> QED
    BY <1>1, <1>4, <2>1, SaveWithoutCall DEF CommitError
<1>5. ASSUME NEW to \in CaseState, CommitIdleRun(s, to)
      PROVE  SessionsInv'
  <2>1. to \in RunnableStates \cup TerminalStates
    BY <1>5 DEF CommitIdleRun, RunnableStates, TerminalStates
  <2> QED
    BY <1>1, <1>5, <2>1, SaveWithoutCall DEF CommitIdleRun
<1>6. ASSUME NEW success \in BOOLEAN, CommitAttempt(s, success)
      PROVE  SessionsInv'
  <2>1. /\ case' \in RunnableStates \cup TerminalStates
        /\ payment' \in [status : {"SUCCEEDED", "FAILED"}, attempts : Nat]
    BY <1>1, <1>6 DEF CommitAttempt, RunnableStates, TerminalStates, SessionRow
  <2> QED
    BY <1>6, <2>1, SaveWithoutCall DEF CommitAttempt
<1> QED
  BY <1>2, <1>3, <1>4, <1>5, <1>6 DEF Commit

LEMMA TickStep ==
  ASSUME SessionsInv, Tick
  PROVE  SessionsInv'
<1>1. /\ TypeOK /\ TrailPart /\ OwnTransactions /\ OneWriter /\ CallsAreTold
      /\ \A t \in Session : SessionPart(session[t], trail, clock, begun)
      /\ session \in [Session -> SessionRow] /\ clock \in Nat
      /\ trail \subseteq AuditRow
  BY DEF SessionsInv, TypeOK
<1>2. clock' = clock + 1 /\ UNCHANGED <<tables, placed, begun, session>>
  BY DEF Tick
<1>3. TypeOK' /\ OneWriter' /\ CallsAreTold' /\ OwnTransactions'
  BY <1>1, <1>2 DEF TypeOK, OneWriter, CallsAreTold, OwnTransactions, tables
<1>4. TrailPart'
  BY <1>1, <1>2 DEF TrailPart, AuditRow, tables
<1>5. ASSUME NEW t \in Session
      PROVE  SessionPart(session[t], trail, clock + 1, begun)
  <2>1. /\ session[t].at \in Nat /\ session[t].called \in Nat
        /\ session[t].own \subseteq AuditRow
    BY <1>1 DEF SessionRow
  <2> QED
    BY <1>1, <2>1 DEF SessionPart, OwnerPart, AuditRow
<1> QED
  BY <1>2, <1>3, <1>4, <1>5 DEF SessionsInv, tables
-----------------------------------------------------------------------------
LEMMA SessionsInit == Init => SessionsInv
<1>1. SUFFICES ASSUME Init  PROVE SessionsInv
  OBVIOUS
<1>2. /\ GapFree({}) /\ Ordered({})
  <2>1. IsFiniteSet({}) /\ Cardinality({}) = 0 /\ 1..0 = {} /\ Numbers({}) = {}
    BY FS_EmptySet DEF Numbers
  <2> QED
    BY <2>1 DEF GapFree, Ordered
<1>3. Ended \in SessionRow /\ \A n : SessionPart(Ended, {}, 0, n)
  BY <1>2, EndedPart
<1>4. /\ Ended.own = {} /\ Ended.step = "idle"
      /\ \A s \in Session : session[s] = Ended
  BY <1>1 DEF Init, Ended
<1>5. TypeOK
  BY <1>1, <1>3 DEF Init, TypeOK, RunnableStates
<1>6. OneWriter /\ OwnTransactions /\ CallsAreTold
  BY <1>1, <1>4 DEF Init, OneWriter, OwnTransactions, CallsAreTold
<1> QED
  BY <1>1, <1>2, <1>3, <1>4, <1>5, <1>6 DEF Init, SessionsInv, TrailPart

LEMMA SessionsNext == SessionsInv /\ [Next]_vars => SessionsInv'
<1>1. SUFFICES ASSUME SessionsInv, [Next]_vars  PROVE SessionsInv'
  OBVIOUS
<1>2. CASE UNCHANGED vars
  BY <1>1, <1>2 DEF SessionsInv, TypeOK, OneWriter, CallsAreTold, TrailPart,
                    OwnTransactions, vars, tables
<1>3. ASSUME NEW s \in Session, Starts(s)
      PROVE  SessionsInv'
  <2>1. /\ RunScript = WholeScript("run") /\ VoiceScript = WholeScript("voice")
        /\ <<"VOICE_CALL_REPORTED">> = WholeScript("report")
    BY DEF WholeScript
  <2> QED
    BY <1>1, <1>3, <2>1, BeginStep DEF Starts, BeginRun, BeginVoice, BeginReport
<1>4. ASSUME NEW s \in Session, InsertRejected(s)
      PROVE  SessionsInv'
  BY <1>1, <1>4, SessionEnds, SessionFails DEF InsertRejected, Aborts
<1>5. ASSUME NEW s \in Session, Works(s)
      PROVE  SessionsInv'
  BY <1>1, <1>4, <1>5, ReadStep, InsertStep, CallStep, CommitStep, SessionFails
     DEF Works, AttemptRejected
<1>6. ASSUME NEW s \in Session, StageFails(s) \/ Crash(s)
      PROVE  SessionsInv'
  BY <1>1, <1>6, SessionEnds, SessionFails DEF StageFails, Crash
<1> QED
  BY <1>1, <1>2, <1>3, <1>5, <1>6, TickStep DEF Next

\* The invariant the properties of the sessions follow from.
THEOREM SessionsInvariant == Spec => []SessionsInv
BY SessionsInit, SessionsNext, PTL DEF Spec

\* Type correctness; a committed case is runnable or finished.
THEOREM SessionsTypes == Spec => []TypeOK
<1>1. SessionsInv => TypeOK
  BY DEF SessionsInv
<1> QED
  BY <1>1, SessionsInvariant, PTL

\* AuditService.record never leaves a gap in a case's numbers, nor gives one twice,
\* in whatever order any number of sessions read, insert, commit, fail and crash.
THEOREM TrailHasNoGap == Spec => []TrailGapFree
<1>1. SessionsInv => TrailGapFree
  <2> SUFFICES ASSUME SessionsInv  PROVE TrailGapFree
    OBVIOUS
  <2> DEFINE all == trail \cup UNION {session[s].own : s \in Session}
  <2>1. OneWriter /\ GapFree(trail)
        /\ \A s \in Session : GapFree(trail \cup session[s].own)
    BY DEF SessionsInv, TrailPart, SessionPart, NumberPart
  <2>2. CASE \E s \in Session : session[s].own # {}
    <3>1. PICK s \in Session : session[s].own # {}
      BY <2>2
    <3>2. all = trail \cup session[s].own
      BY <2>1, <3>1 DEF OneWriter
    <3> QED
      BY <2>1, <3>2 DEF GapFree, TrailGapFree
  <2>3. CASE \A s \in Session : session[s].own = {}
    <3>1. all = trail
      BY <2>3
    <3> QED
      BY <2>1, <3>1 DEF GapFree, TrailGapFree
  <2> QED
    BY <2>2, <2>3
<1> QED
  BY <1>1, SessionsInvariant, PTL

\* The unique index makes the trail a lock: one session at a time has events of the
\* case that it has not committed.
THEOREM OneSessionWrites == Spec => []OneWriter
<1>1. SessionsInv => OneWriter
  BY DEF SessionsInv
<1> QED
  BY <1>1, SessionsInvariant, PTL

\* Numbers, times and transactions of the trail agree: whoever sorts it by time and
\* number reads what was done in the order it was done.
THEOREM TrailIsTheOrder == Spec => []TrailTellsOrder
<1>1. SessionsInv => TrailTellsOrder
  BY DEF SessionsInv, TrailPart, Ordered, TrailTellsOrder
<1> QED
  BY <1>1, SessionsInvariant, PTL

\* Whatever sessions interleave, fail or crash, each call on record has its account
\* in the trail, the approval, the request and the outcome under three numbers in a
\* row, and the trail tells of the end of no other call.
THEOREM CallsAndTrailAgree == Spec => []CallsAreTold
<1>1. SessionsInv => CallsAreTold
  BY DEF SessionsInv
<1> QED
  BY <1>1, SessionsInvariant, PTL
=============================================================================
