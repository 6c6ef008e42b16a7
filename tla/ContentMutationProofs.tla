------------------------ MODULE ContentMutationProofs ------------------------
(***************************************************************************)
(* Theorems about ContentMutation, for any number of edits, reservations,  *)
(* drains, restarts and unreadable answers.                                *)
(***************************************************************************)
EXTENDS ContentMutation, SequenceTheorems, TLAPS

Entry == [kind : Kinds, body : Texts \cup {Removed}, stamp : Stamps]

(* Only a body is wanted of an edit, and nothing of a deleted object.      *)
DesireInv ==
    /\ desired = "update" => wanted \in Texts
    /\ desired = "delete" => wanted = Removed
    /\ deleted => desired = "none"

(* The message is fetched only once it has been edited.                    *)
FetchInv ==
    /\ unsure => edits # <<>>
    /\ fetched.step = "present" => fetched.body \in Texts

(* A drain that is not idle works on a reserved mutation.                  *)
TaskInv == \A d \in Drains : task[d].phase # "idle" => task[d].id \in Ids

RowInv == \A i \in Ids : mutation[i].kind = "content_update" => mutation[i].body \in Texts

(* There are as many revisions as reservations allow, and what is under    *)
(* way is still wanted.                                                    *)
ActiveInv ==
    /\ revision <= Len(mutation) + 1
    /\ ActiveIds # {} => desired # "none" /\ revision <= Len(mutation)

Inv == /\ TypeOK /\ DesireInv /\ FetchInv /\ TaskInv /\ RowInv /\ ActiveInv
       /\ OneTransition /\ DeleteIsLastSource /\ NothingLost

LEMMA InvInit == Init => Inv
  <1> SUFFICES ASSUME Init PROVE Inv
    OBVIOUS
  <1>1. Len(mutation) = 0 /\ Len(log) = 0 /\ Len(edits) = 0
    BY DEF Init
  <1>2. Ids = {} /\ ActiveIds = {}
    BY <1>1 DEF Ids, ActiveIds
  <1>3. TypeOK
    <2>1. /\ edits \in Seq(Texts) /\ mutation \in Seq(Mutation) /\ log \in Seq(Entry)
          /\ Len(edits) <= MaxEdits /\ Len(mutation) <= MaxMutations
      BY <1>1, BoundAssumption DEF Init
    <2>2. 0 \in Stamps /\ revision \in 1..(MaxMutations + 1)
      BY BoundAssumption DEF Init, Stamps
    <2>3. task \in [Drains -> [phase : Phases, id : 0..MaxMutations]]
      BY BoundAssumption DEF Init, Idle, Phases
    <2>4. crashes \in 0..MaxCrashes /\ unreadable \in 0..MaxUnreadable
      BY BoundAssumption DEF Init
    <2> QED
      BY <2>1, <2>2, <2>3, <2>4, TextAssumption DEF Init, TypeOK, Entry, Nothing
  <1> QED
    BY <1>1, <1>2, <1>3
    DEF Init, Inv, DesireInv, FetchInv, TaskInv, RowInv, ActiveInv, OneTransition,
        DeleteIsLastSource, NothingLost, Idle, Nothing
-----------------------------------------------------------------------------
(* Reservations.  What the object and its mutations must satisfy, apart    *)
(* from what is wanted.                                                    *)
Ledger ==
    /\ mutation \in Seq(Mutation) /\ Len(mutation) <= MaxMutations
    /\ RowInv /\ ActiveInv /\ OneTransition

(* reserve_next keeps at most one transition under way, and starts it from *)
(* the current revision.                                                   *)
LEMMA ReserveKeepsLedger ==
    ASSUME Ledger, TypeOK, UNCHANGED <<revision, deleted>>,
           ReserveNext(desired', wanted', stamp'),
           desired' \in {"none", "update", "delete"}, stamp' \in Stamps, DesireInv',
           ActiveIds # {} => desired' # "none"
    PROVE  Ledger' /\ Ids \subseteq Ids'
  <1> DEFINE m == NextMutation(desired', wanted', stamp')
  <1>1. CASE UNCHANGED mutation
    BY <1>1 DEF Ledger, RowInv, ActiveInv, OneTransition, Ids, ActiveIds
  <1>2. CASE mutation' # mutation
    <2>1. /\ desired' # "none" /\ ActiveIds = {} /\ Len(mutation) # MaxMutations
          /\ mutation' = Append(mutation, m)
      BY <1>2 DEF ReserveNext
    <2>2. ~deleted
      BY <2>1 DEF DesireInv
    <2>3. m \in Mutation /\ m.state = "reserved" /\ m.expected = revision
          /\ (m.kind = "content_update" => m.body \in Texts)
      BY <2>1 DEF NextMutation, Mutation, DesireInv, TypeOK, Kinds, States, Active
    <2> HIDE DEF m
    <2>4. /\ mutation' \in Seq(Mutation) /\ Len(mutation') = Len(mutation) + 1
          /\ \A i \in Ids : mutation'[i] = mutation[i]
          /\ mutation'[Len(mutation) + 1] = m
      BY <2>1, <2>3, AppendProperties DEF Ledger, Ids
    <2>5. Len(mutation) \in Nat /\ Len(mutation) < MaxMutations
      BY <2>1, BoundAssumption DEF Ledger
    <2>6. Ids' = Ids \cup {Len(mutation) + 1}
      BY <2>4, <2>5 DEF Ids
    <2>7. ActiveIds' = {Len(mutation) + 1}
      BY <2>1, <2>3, <2>4, <2>6 DEF ActiveIds, Active
    <2>8. RowInv'
      BY <2>3, <2>4, <2>6 DEF Ledger, RowInv
    <2>9. ActiveInv'
      BY <2>1, <2>4, <2>5, <2>7 DEF Ledger, ActiveInv, TypeOK
    <2>10. OneTransition'
      BY <2>2, <2>3, <2>4, <2>7 DEF OneTransition
    <2> QED
      BY <2>4, <2>5, <2>6, <2>8, <2>9, <2>10, BoundAssumption DEF Ledger
  <1> QED
    BY <1>1, <1>2

(* A step of a drain changes the state of one mutation and nothing that    *)
(* its operation id covers.                                                *)
Moves(i, st) ==
    /\ i \in Ids
    /\ mutation' \in Seq(Mutation)
    /\ Len(mutation') = Len(mutation)
    /\ \A j \in Ids : /\ mutation'[j].kind = mutation[j].kind
                      /\ mutation'[j].body = mutation[j].body
                      /\ mutation'[j].stamp = mutation[j].stamp
                      /\ mutation'[j].expected = mutation[j].expected
                      /\ mutation'[j].state = IF j = i THEN st ELSE mutation[j].state

LEMMA Updated ==
    ASSUME mutation \in Seq(Mutation), NEW i \in Ids, NEW m \in Mutation,
           m.kind = mutation[i].kind, m.body = mutation[i].body,
           m.stamp = mutation[i].stamp, m.expected = mutation[i].expected,
           mutation' = [mutation EXCEPT ![i] = m]
    PROVE  Moves(i, m.state)
  <1>1. /\ mutation' \in Seq(Mutation) /\ Len(mutation') = Len(mutation)
        /\ \A j \in Ids : mutation'[j] = IF j = i THEN m ELSE mutation[j]
    BY ExceptSeq DEF Ids
  <1> QED
    BY <1>1 DEF Moves

LEMMA MoveKeepsLedger ==
    ASSUME Ledger, TypeOK, UNCHANGED <<revision, deleted>>,
           NEW i \in Ids, NEW st \in States, Moves(i, st),
           st \in Active => mutation[i].state \in Active,
           \/ desired' # "none"
           \/ st \notin Active /\ i \in ActiveIds
           \/ UNCHANGED desired
    PROVE  Ledger' /\ Ids' = Ids
  <1>1. Ids' = Ids
    BY DEF Moves, Ids
  <1>2. ActiveIds' = IF st \in Active THEN ActiveIds ELSE ActiveIds \ {i}
    BY <1>1 DEF Moves, ActiveIds
  <1>3. \A j \in ActiveIds : ActiveIds = {j} /\ mutation[j].expected = revision /\ ~deleted
    BY DEF Ledger, OneTransition
  <1>4. RowInv'
    BY <1>1 DEF Ledger, RowInv, Moves
  <1>5. ActiveInv'
    BY <1>2, <1>3 DEF Ledger, ActiveInv, Moves
  <1>6. OneTransition'
    BY <1>1, <1>2, <1>3 DEF OneTransition, Moves, ActiveIds
  <1> QED
    BY <1>1, <1>4, <1>5, <1>6 DEF Ledger, Moves
-----------------------------------------------------------------------------
(* What every step owes, apart from the ledger.                            *)
Rest ==
    /\ edits \in Seq(Texts) /\ Len(edits) <= MaxEdits
    /\ gone \in BOOLEAN
    /\ body \in Texts
    /\ revision \in 1..(MaxMutations + 1)
    /\ deleted \in BOOLEAN
    /\ unsure \in BOOLEAN
    /\ owed \in BOOLEAN
    /\ crashes \in 0..MaxCrashes
    /\ unreadable \in 0..MaxUnreadable

Wishes ==
    /\ desired \in {"none", "update", "delete"}
    /\ wanted \in Texts \cup {Removed, NoText}
    /\ stamp \in Stamps
    /\ DesireInv
    /\ NothingLost

Reads ==
    /\ fetched \in [step : {"none", "present", "missing", "reserve", "clear"},
                    body : Texts \cup {NoText}, stamp : Stamps]
    /\ FetchInv

Work ==
    /\ task \in [Drains -> [phase : Phases, id : 0..MaxMutations]]
    /\ TaskInv

Published == log \in Seq(Entry) /\ DeleteIsLastSource

LEMMA InvParts ==
    /\ Inv <=> Rest /\ Wishes /\ Reads /\ Work /\ Published /\ Ledger
    /\ Inv' <=> Rest' /\ Wishes' /\ Reads' /\ Work' /\ Published' /\ Ledger'
  BY DEF Inv, TypeOK, Rest, Wishes, Reads, Work, Published, Ledger, Entry

(* Wanting something else keeps the ledger as long as something is wanted. *)
LEMMA WantKeepsLedger ==
    ASSUME Ledger, UNCHANGED <<mutation, revision, deleted>>,
           UNCHANGED desired \/ desired' # "none" \/ ActiveIds = {}
    PROVE  Ledger'
  BY DEF Ledger, RowInv, ActiveInv, OneTransition, Ids, ActiveIds

LEMMA WorkStays ==
    ASSUME Work, UNCHANGED task, Ids \subseteq Ids'
    PROVE  Work'
  BY DEF Work, TaskInv

(* An idle drain and one that works on a reserved mutation.                *)
LEMMA TaskStep ==
    ASSUME Work, Ledger, NEW d \in Drains, NEW p \in Phases, NEW i \in Ids,
           Hold(d, p, i) \/ LetGo(d), Ids \subseteq Ids'
    PROVE  Work'
  <1>1. i \in 0..MaxMutations
    BY BoundAssumption DEF Ids, Ledger
  <1>2. [phase |-> p, id |-> i] \in [phase : Phases, id : 0..MaxMutations]
    BY <1>1
  <1>3. Idle \in [phase : Phases, id : 0..MaxMutations] /\ Idle.phase = "idle"
    BY BoundAssumption DEF Idle, Phases
  <1>4. ASSUME Hold(d, p, i) PROVE Work'
    BY <1>2, <1>4 DEF Hold, Work, TaskInv
  <1>5. ASSUME LetGo(d) PROVE Work'
    BY <1>3, <1>5 DEF LetGo, Work, TaskInv
  <1> QED
    BY <1>4, <1>5

LEMMA DiscordStep == Inv /\ Discord => Inv'
  <1> SUFFICES ASSUME Inv, Discord PROVE Inv'
    OBVIOUS
  <1> USE DEF discordVars, desiredVars, objectVars, bounds
  <1>1. Rest /\ Wishes /\ Reads /\ Work /\ Published /\ Ledger
    BY InvParts
  <1>2. UNCHANGED <<objectVars, desiredVars, unsure, mutation, log, owed, fetched, task,
                    bounds>>
    BY DEF Discord, DeleteMessage, EditMessage
  <1>3. gone' \in BOOLEAN /\ edits' \in Seq(Texts) /\ Len(edits') <= MaxEdits
        /\ (edits # <<>> => edits' # <<>>)
    <2>1. CASE DeleteMessage
      BY <1>1, <2>1 DEF DeleteMessage, Rest
    <2>2. ASSUME NEW t \in Texts, EditMessage(t)
          PROVE  /\ gone' \in BOOLEAN /\ edits' \in Seq(Texts) /\ Len(edits') <= MaxEdits
                 /\ edits' # <<>>
      BY <1>1, <2>2, AppendProperties, BoundAssumption DEF EditMessage, Rest
    <2> QED
      BY <2>1, <2>2 DEF Discord
  <1>4. Rest' /\ Wishes' /\ Reads' /\ Work' /\ Published' /\ Ledger'
    BY <1>1, <1>2, <1>3, WantKeepsLedger, WorkStays
    DEF Rest, Wishes, DesireInv, NothingLost, Reads, FetchInv, Published, DeleteIsLastSource,
        Ids
  <1> QED
    BY <1>4, InvParts

(* Admission and reconciliation.                                           *)
LEMMA EventStep == Inv /\ Events => Inv'
  <1> SUFFICES ASSUME Inv, Events PROVE Inv'
    OBVIOUS
  <1> USE DEF discordVars, desiredVars, objectVars, bounds
  <1>1. Rest /\ Wishes /\ Reads /\ Work /\ Published /\ Ledger
    BY InvParts
  <1>2. UNCHANGED <<discordVars, objectVars, log, fetched, task, bounds>>
    BY DEF Events, RecordDesiredUpdate, RecordDesiredDelete, RequestReconciliation,
           ReserveAdmitted
  <1>3. Reads' /\ Rest' /\ Published'
    <2>1. owed' \in BOOLEAN /\ unsure' \in BOOLEAN /\ (unsure' => edits # <<>>)
      <3>1. owed' = TRUE \/ owed' = FALSE \/ owed' = owed
        BY DEF Events, RecordDesiredUpdate, RecordDesiredDelete, RequestReconciliation,
               ReserveAdmitted
      <3>2. unsure' = unsure \/ (unsure' = TRUE /\ edits # <<>>)
        BY DEF Events, RecordDesiredUpdate, RecordDesiredDelete, RequestReconciliation,
               ReserveAdmitted
      <3>3. owed \in BOOLEAN /\ unsure \in BOOLEAN /\ (unsure => edits # <<>>)
        BY <1>1 DEF Rest, Reads, FetchInv
      <3>4. owed' \in BOOLEAN
        BY <3>1, <3>3, Zenon
      <3>5. unsure' \in BOOLEAN
        BY <3>2, <3>3, Zenon
      <3>6. unsure' => edits # <<>>
        BY <3>2, <3>3, Zenon
      <3> QED
        BY <3>4, <3>5, <3>6
    <2> QED
      BY <1>1, <1>2, <2>1 DEF Reads, FetchInv, Rest, Published, DeleteIsLastSource
  <1>4. ASSUME NEW s \in 1..MaxEdits, RecordDesiredUpdate(s)
        PROVE  Wishes' /\ Ledger' /\ Ids' = Ids
    <2>1. /\ edits[s] \in Texts /\ s \in Stamps /\ ~deleted
          /\ desired' = "update" /\ wanted' = edits[s] /\ stamp' = s
          /\ UNCHANGED mutation
      BY <1>1, <1>4 DEF RecordDesiredUpdate, Admits, Terminal, Want, Rest, Stamps
    <2> QED
      BY <1>1, <1>2, <2>1, WantKeepsLedger DEF Wishes, DesireInv, NothingLost, Ids
  <1>5. ASSUME RecordDesiredDelete PROVE Wishes' /\ Ledger' /\ Ids' = Ids
    <2>1. /\ ~deleted /\ desired' = "delete" /\ wanted' = Removed /\ stamp' = stamp
          /\ UNCHANGED mutation
      BY <1>5 DEF RecordDesiredDelete, Terminal, Want
    <2> QED
      BY <1>1, <1>2, <2>1, WantKeepsLedger DEF Wishes, DesireInv, NothingLost, Ids
  <1>6. ASSUME RequestReconciliation PROVE Wishes' /\ Ledger' /\ Ids' = Ids
    <2>1. UNCHANGED <<desiredVars, mutation>>
      BY <1>6 DEF RequestReconciliation
    <2> QED
      BY <1>1, <1>2, <2>1, WantKeepsLedger DEF Wishes, DesireInv, NothingLost, Ids
  <1>7. ASSUME ReserveAdmitted PROVE Wishes' /\ Ledger' /\ Ids \subseteq Ids'
    <2>1. UNCHANGED desiredVars /\ ReserveNext(desired', wanted', stamp')
      BY <1>7 DEF ReserveAdmitted
    <2>2. Wishes'
      BY <1>1, <1>2, <2>1 DEF Wishes, DesireInv, NothingLost
    <2>3. ActiveIds # {} => desired' # "none"
      BY <1>1, <2>1 DEF Ledger, ActiveInv
    <2> QED
      BY <1>1, <1>2, <2>1, <2>2, <2>3, ReserveKeepsLedger DEF Wishes, Inv
  <1>8. Wishes' /\ Ledger' /\ Ids \subseteq Ids'
    BY <1>4, <1>5, <1>6, <1>7 DEF Events
  <1> QED
    BY <1>1, <1>2, <1>3, <1>8, WorkStays, InvParts

LEMMA ReconcilerStep == Inv /\ Reconciler => Inv'
  <1> SUFFICES ASSUME Inv, Reconciler PROVE Inv'
    OBVIOUS
  <1> USE DEF discordVars, desiredVars, objectVars, bounds
  <1>1. Rest /\ Wishes /\ Reads /\ Work /\ Published /\ Ledger
    BY InvParts
  <1>2. UNCHANGED <<discordVars, objectVars, log, owed, task, bounds>>
    BY DEF Reconciler, FetchMessage, ReconcileUpdate, ReconcileDelete, ReconcileReserve,
           ClearReconciliation
  <1>n. Nothing \in [step : {"none", "present", "missing", "reserve", "clear"},
                     body : Texts \cup {NoText}, stamp : Stamps]
        /\ Nothing.step = "none"
    BY BoundAssumption DEF Nothing, Stamps
  <1>3. ASSUME FetchMessage
        PROVE  Reads' /\ unsure' \in BOOLEAN /\ Wishes' /\ Ledger' /\ Ids' = Ids
    <2>1. UNCHANGED <<desiredVars, unsure, mutation>> /\ edits # <<>>
      BY <1>1, <1>3 DEF FetchMessage, Reads, FetchInv
    <2>2. edits[Len(edits)] \in Texts /\ Len(edits) \in Stamps
      BY <1>1, <2>1, BoundAssumption DEF Rest, Stamps
    <2>3. /\ fetched' \in [step : {"none", "present", "missing", "reserve", "clear"},
                          body : Texts \cup {NoText}, stamp : Stamps]
          /\ fetched'.step = "present" => fetched'.body \in Texts
      BY <1>3, <2>2, BoundAssumption DEF FetchMessage, Stamps
    <2> QED
      BY <1>1, <1>2, <2>1, <2>3, WantKeepsLedger
      DEF Reads, FetchInv, Rest, Wishes, DesireInv, NothingLost, Ids
  <1>4. ASSUME ReconcileUpdate
        PROVE  Reads' /\ unsure' \in BOOLEAN /\ Wishes' /\ Ledger' /\ Ids \subseteq Ids'
    <2> DEFINE stale == ~Terminal /\ fetched.stamp < stamp
               known == fetched.stamp = stamp /\ wanted = fetched.body
    <2>1. /\ fetched.step = "present" /\ fetched' = Nothing
          /\ unsure' = (unsure /\ stale)
          /\ IF ~unsure \/ Terminal \/ stale \/ known
             THEN UNCHANGED desiredVars
             ELSE Want("update", fetched.body, fetched.stamp)
          /\ IF ~unsure \/ Terminal \/ stale
             THEN UNCHANGED mutation
             ELSE ReserveNext(desired', wanted', stamp')
      BY <1>4 DEF ReconcileUpdate
    <2> HIDE DEF stale, known
    <2>2. Reads' /\ unsure' \in BOOLEAN
      BY <1>1, <1>2, <1>n, <2>1 DEF Reads, FetchInv, Rest
    <2>3. \/ UNCHANGED desiredVars
          \/ /\ ~deleted /\ desired' = "update" /\ wanted' = fetched.body
             /\ stamp' = fetched.stamp
      BY <2>1 DEF Want, Terminal
    <2>4. Wishes'
      BY <1>1, <1>2, <2>1, <2>3 DEF Wishes, DesireInv, NothingLost, Reads, FetchInv
    <2>5. ActiveIds # {} => desired' # "none"
      BY <1>1, <2>3 DEF Ledger, ActiveInv
    <2>6. CASE UNCHANGED mutation
      BY <1>1, <1>2, <2>2, <2>3, <2>4, <2>6, WantKeepsLedger DEF Ids
    <2>7. CASE ReserveNext(desired', wanted', stamp')
      BY <1>1, <1>2, <2>2, <2>4, <2>5, <2>7, ReserveKeepsLedger DEF Wishes, Inv
    <2> QED
      BY <2>1, <2>6, <2>7
  <1>5. ASSUME ReconcileDelete
        PROVE  Reads' /\ unsure' \in BOOLEAN /\ Wishes' /\ Ledger' /\ Ids' = Ids
    <2>1. /\ fetched' = [fetched EXCEPT !.step = "reserve"] /\ UNCHANGED <<unsure, mutation>>
          /\ \/ UNCHANGED desiredVars
             \/ ~deleted /\ desired' = "delete" /\ wanted' = Removed /\ stamp' = stamp
      BY <1>5 DEF ReconcileDelete, Want, Terminal
    <2>2. Wishes'
      BY <1>1, <1>2, <2>1 DEF Wishes, DesireInv, NothingLost
    <2> QED
      BY <1>1, <1>2, <2>1, <2>2, WantKeepsLedger DEF Reads, FetchInv, Rest, Ids
  <1>6. ASSUME ReconcileReserve
        PROVE  Reads' /\ unsure' \in BOOLEAN /\ Wishes' /\ Ledger' /\ Ids \subseteq Ids'
    <2>1. /\ fetched' = [fetched EXCEPT !.step = "clear"]
          /\ UNCHANGED <<unsure, desiredVars>>
          /\ ReserveNext(desired', wanted', stamp')
      BY <1>6 DEF ReconcileReserve
    <2>2. Wishes'
      BY <1>1, <1>2, <2>1 DEF Wishes, DesireInv, NothingLost
    <2>3. ActiveIds # {} => desired' # "none"
      BY <1>1, <2>1 DEF Ledger, ActiveInv
    <2>4. Ledger' /\ Ids \subseteq Ids'
      BY <1>1, <1>2, <2>1, <2>2, <2>3, ReserveKeepsLedger DEF Wishes, Inv
    <2> QED
      BY <1>1, <1>2, <2>1, <2>2, <2>4 DEF Reads, FetchInv, Rest
  <1>7. ASSUME ClearReconciliation
        PROVE  Reads' /\ unsure' \in BOOLEAN /\ Wishes' /\ Ledger' /\ Ids' = Ids
    <2>1. fetched' = Nothing /\ unsure' = FALSE /\ UNCHANGED <<desiredVars, mutation>>
      BY <1>7 DEF ClearReconciliation
    <2> QED
      BY <1>1, <1>2, <1>n, <2>1, WantKeepsLedger
      DEF Reads, FetchInv, Wishes, DesireInv, NothingLost, Ids
  <1>8. Reads' /\ unsure' \in BOOLEAN /\ Wishes' /\ Ledger' /\ Ids \subseteq Ids'
    BY <1>3, <1>4, <1>5, <1>6, <1>7 DEF Reconciler
  <1>9. Rest' /\ Published'
    BY <1>1, <1>2, <1>8 DEF Rest, Published, DeleteIsLastSource
  <1> QED
    BY <1>1, <1>2, <1>8, <1>9, WorkStays, InvParts
-----------------------------------------------------------------------------
(* The drains.                                                             *)

LEMMA RowTypes ==
    ASSUME Ledger, NEW i \in Ids
    PROVE  /\ mutation[i] \in Mutation
           /\ mutation \in Seq(Mutation)
           /\ i \in 1..Len(mutation)
           /\ mutation[i].kind \in Kinds
           /\ mutation[i].state \in States
           /\ mutation[i].expected \in 1..(MaxMutations + 1)
           /\ mutation[i].stamp \in Stamps
           /\ mutation[i].body \in Texts \cup {Removed}
  <1>1. mutation \in Seq(Mutation) /\ i \in 1..Len(mutation)
    BY DEF Ledger, Ids
  <1>2. mutation[i] \in Mutation
    BY <1>1
  <1> QED
    BY <1>1, <1>2 DEF Mutation

LEMMA SetMoves ==
    ASSUME Ledger, NEW i \in Ids, NEW st \in States, NEW t \in Drains \cup {NoDrain},
           Set(i, st, t)
    PROVE  Moves(i, st)
  <1> DEFINE m == [mutation[i] EXCEPT !.state = st, !.token = t]
  <1>1. m \in Mutation /\ m.state = st
    BY RowTypes DEF Mutation
  <1>2. /\ m.kind = mutation[i].kind /\ m.body = mutation[i].body
        /\ m.stamp = mutation[i].stamp /\ m.expected = mutation[i].expected
    BY RowTypes DEF Mutation
  <1>3. mutation' = [mutation EXCEPT ![i] = m]
    BY DEF Set
  <1> HIDE DEF m
  <1> QED
    BY <1>1, <1>2, <1>3, RowTypes, Updated

(* The gateway's answer is noted whoever owns the mutation by now.         *)
LEMMA SentMoves ==
    ASSUME Ledger, NEW i \in Ids, NEW x \in BOOLEAN,
           mutation' = [mutation EXCEPT ![i].sent = x]
    PROVE  Moves(i, mutation[i].state)
  <1> DEFINE m == [mutation[i] EXCEPT !.sent = x]
  <1>1. m \in Mutation /\ m.state = mutation[i].state
    BY RowTypes DEF Mutation
  <1>2. /\ m.kind = mutation[i].kind /\ m.body = mutation[i].body
        /\ m.stamp = mutation[i].stamp /\ m.expected = mutation[i].expected
    BY RowTypes DEF Mutation
  <1>3. mutation' = [mutation EXCEPT ![i] = m]
    OBVIOUS
  <1> HIDE DEF m
  <1> QED
    BY <1>1, <1>2, <1>3, RowTypes, Updated

LEMMA AnsweredMoves ==
    ASSUME Ledger, NEW i \in Ids, NEW st \in States, NEW t \in Drains \cup {NoDrain},
           NEW x \in BOOLEAN,
           mutation' = [mutation EXCEPT ![i].state = st, ![i].token = t, ![i].sent = x]
    PROVE  Moves(i, st)
  <1> DEFINE m == [mutation[i] EXCEPT !.state = st, !.token = t, !.sent = x]
  <1>1. m \in Mutation /\ m.state = st
    BY RowTypes DEF Mutation
  <1>2. /\ m.kind = mutation[i].kind /\ m.body = mutation[i].body
        /\ m.stamp = mutation[i].stamp /\ m.expected = mutation[i].expected
    BY RowTypes DEF Mutation
  <1>3. mutation' = [mutation EXCEPT ![i] = m]
    OBVIOUS
  <1> HIDE DEF m
  <1> QED
    BY <1>1, <1>2, <1>3, RowTypes, Updated

(* A drain that holds a mutation: what its compare-and-set compares.       *)
LEMMA HeldRow ==
    ASSUME Work, NEW d \in Drains, task[d].phase # "idle"
    PROVE  task[d].id \in Ids
  BY DEF Work, TaskInv

LEMMA RestStays ==
    ASSUME Inv, UNCHANGED <<discordVars, objectVars, unsure, log, owed, fetched>>,
           UNCHANGED crashes, unreadable' \in 0..MaxUnreadable
    PROVE  Rest' /\ Reads' /\ Published'
  BY InvParts DEF discordVars, objectVars, Rest, Reads, FetchInv, Published,
                  DeleteIsLastSource

LEMMA WishesStay ==
    ASSUME Inv, UNCHANGED <<objectVars, desiredVars>>
    PROVE  Wishes'
  BY InvParts DEF objectVars, desiredVars, Wishes, DesireInv, NothingLost

LEMMA ClaimStep ==
    ASSUME Inv, NEW d \in Drains, NEW i \in Ids, ClaimMutation(d, i)
    PROVE  Inv'
  <1>1. Rest /\ Wishes /\ Reads /\ Work /\ Published /\ Ledger /\ TypeOK
    BY InvParts DEF Inv
  <1>2. /\ i \in ActiveIds
        /\ UNCHANGED <<discordVars, objectVars, desiredVars, unsure, log, owed, fetched,
                       bounds>>
        /\ \E s \in Active, p \in Phases : Set(i, s, d) /\ Hold(d, p, i)
    BY DEF ClaimMutation, Active, Phases
  <1>3. PICK s \in Active, p \in Phases : Set(i, s, d) /\ Hold(d, p, i)
    BY <1>2
  <1>4. s \in States /\ mutation[i].state \in Active
    BY <1>2 DEF States, ActiveIds
  <1>5. Moves(i, s)
    BY <1>1, <1>3, <1>4, SetMoves
  <1>6. Ledger' /\ Ids' = Ids
    BY <1>1, <1>2, <1>4, <1>5, MoveKeepsLedger DEF objectVars, desiredVars
  <1>7. Work'
    BY <1>1, <1>3, <1>6, TaskStep
  <1> QED
    BY <1>1, <1>2, <1>6, <1>7, RestStays, WishesStay, InvParts DEF bounds, Rest

LEMMA SendStep ==
    ASSUME Inv, NEW d \in Drains, MarkSendPossible(d)
    PROVE  Inv'
  <1> DEFINE i == task[d].id
  <1>1. Rest /\ Wishes /\ Reads /\ Work /\ Published /\ Ledger /\ i \in Ids
    BY InvParts, HeldRow DEF MarkSendPossible
  <1>2. /\ UNCHANGED <<discordVars, objectVars, desiredVars, unsure, mutation, log, owed,
                       fetched, bounds>>
        /\ Hold(d, "sending", i) \/ LetGo(d)
    BY DEF MarkSendPossible
  <1>3. Ids' = Ids
    BY <1>2 DEF Ids
  <1>4. Work'
    BY <1>1, <1>2, <1>3, TaskStep DEF Phases
  <1>5. Ledger'
    BY <1>1, <1>2, WantKeepsLedger DEF objectVars, desiredVars
  <1> QED
    BY <1>1, <1>2, <1>4, <1>5, RestStays, WishesStay, InvParts DEF bounds, Rest

(* An answer or a failure changes the state of the mutation it is about;   *)
(* it activates none.                                                      *)
LEMMA AnswerMoves ==
    ASSUME Inv, NEW d \in Drains,
           GatewayAnswers(d) \/ \E acted \in BOOLEAN : GatewayFails(d, acted)
    PROVE  /\ task[d].id \in Ids
           /\ \E st \in States : /\ Moves(task[d].id, st)
                                 /\ st \in Active => mutation[task[d].id].state \in Active
  <1> DEFINE i == task[d].id
  <1>0. Ledger /\ i \in Ids
    BY InvParts, HeldRow DEF GatewayAnswers, GatewayFails
  <1>1. mutation[i].sent \in BOOLEAN /\ mutation[i].state \in States
    BY <1>0, RowTypes DEF Mutation
  <1>2. ASSUME Owns(d, "dispatching"), GatewayAnswers(d)
        PROVE  Moves(i, "canonical_ready")
    <2> DEFINE m == [mutation[i] EXCEPT !.state = "canonical_ready", !.sent = TRUE]
    <2>1. m \in Mutation /\ m.state = "canonical_ready"
      BY <1>0, RowTypes DEF Mutation, States, Active
    <2>2. /\ m.kind = mutation[i].kind /\ m.body = mutation[i].body
          /\ m.stamp = mutation[i].stamp /\ m.expected = mutation[i].expected
      BY <1>0, RowTypes DEF Mutation
    <2>3. mutation' = [mutation EXCEPT ![i] = m]
      BY <1>2 DEF GatewayAnswers
    <2>4. mutation \in Seq(Mutation)
      BY <1>0 DEF Ledger
    <2> HIDE DEF m
    <2> QED
      BY <1>0, <2>1, <2>2, <2>3, <2>4, Updated
  <1>3. ASSUME NEW acted \in BOOLEAN, Owns(d, "dispatching"), GatewayFails(d, acted)
        PROVE  Moves(i, "ambiguous")
    <2>1. /\ mutation' = [mutation EXCEPT ![i].state = "ambiguous", ![i].token = NoDrain,
                                          ![i].sent = mutation[i].sent \/ acted]
          /\ (mutation[i].sent \/ acted) \in BOOLEAN
      BY <1>1, <1>3 DEF GatewayFails
    <2> QED
      BY <1>0, <2>1, AnsweredMoves DEF States, Active
  <1>4. ASSUME ~Owns(d, "dispatching") PROVE Moves(i, mutation[i].state)
    <2>1. \E x \in BOOLEAN : mutation' = [mutation EXCEPT ![i].sent = x]
      <3>1. ASSUME NEW acted \in BOOLEAN, GatewayFails(d, acted)
            PROVE  /\ mutation' = [mutation EXCEPT ![i].sent = mutation[i].sent \/ acted]
                   /\ (mutation[i].sent \/ acted) \in BOOLEAN
        BY <1>1, <1>4, <3>1 DEF GatewayFails
      <3>2. ASSUME GatewayAnswers(d)
            PROVE  mutation' = [mutation EXCEPT ![i].sent = TRUE]
        BY <1>4, <3>2 DEF GatewayAnswers
      <3> QED
        BY <3>1, <3>2
    <2> QED
      BY <1>0, <2>1, SentMoves
  <1>5. Owns(d, "dispatching") => mutation[i].state \in Active
    BY DEF Owns, Active
  <1> QED
    BY <1>0, <1>1, <1>2, <1>3, <1>4, <1>5 DEF States, Active

LEMMA AnswerStep ==
    ASSUME Inv, NEW d \in Drains,
           GatewayAnswers(d) \/ \E acted \in BOOLEAN : GatewayFails(d, acted)
    PROVE  Inv'
  <1> DEFINE i == task[d].id
  <1>1. /\ Rest /\ Wishes /\ Reads /\ Work /\ Published /\ Ledger /\ TypeOK
        /\ i \in Ids
    BY InvParts, HeldRow DEF GatewayAnswers, GatewayFails, Inv
  <1>2. /\ UNCHANGED <<discordVars, objectVars, desiredVars, unsure, log, owed, fetched,
                       bounds>>
        /\ Hold(d, "ready", i) \/ LetGo(d)
    BY DEF GatewayAnswers, GatewayFails
  <1>3. \E st \in States : Moves(i, st) /\ (st \in Active => mutation[i].state \in Active)
    BY AnswerMoves
  <1> HIDE DEF i
  <1>4. Ledger' /\ Ids' = Ids
    BY <1>1, <1>2, <1>3, MoveKeepsLedger DEF objectVars, desiredVars
  <1>5. Work'
    BY <1>1, <1>2, <1>4, TaskStep DEF Phases
  <1> QED
    BY <1>1, <1>2, <1>4, <1>5, RestStays, WishesStay, InvParts DEF bounds, Rest

(* An answer that cannot be read aborts the mutation under way, and with   *)
(* it what was wanted.                                                     *)
LEMMA UnreadableStep ==
    ASSUME Inv, NEW d \in Drains, GatewayAnswersUnreadably(d)
    PROVE  Inv'
  <1> DEFINE i == task[d].id
  <1>1. /\ Rest /\ Wishes /\ Reads /\ Work /\ Published /\ Ledger /\ TypeOK
        /\ i \in Ids
    BY InvParts, HeldRow DEF GatewayAnswersUnreadably, Inv
  <1>2. /\ UNCHANGED <<discordVars, objectVars, unsure, log, owed, fetched, crashes>>
        /\ Hold(d, "reserve", i)
        /\ unreadable' \in 0..MaxUnreadable
    BY <1>1, BoundAssumption DEF GatewayAnswersUnreadably, Rest
  <1>3. CASE Owns(d, "dispatching")
    <2>1. /\ mutation' = [mutation EXCEPT ![i].state = "aborted_pre_send",
                                          ![i].token = NoDrain, ![i].sent = TRUE]
          /\ UNCHANGED desiredVars \/ Want("none", NoText, 0)
      BY <1>3 DEF GatewayAnswersUnreadably
    <2>2. Moves(i, "aborted_pre_send") /\ i \in ActiveIds
      BY <1>1, <1>3, <2>1, AnsweredMoves DEF States, Active, ActiveIds, Owns
    <2>3. Ledger' /\ Ids' = Ids
      BY <1>1, <1>2, <2>2, MoveKeepsLedger DEF objectVars, States, Active
    <2>4. Wishes'
      <3>1. CASE UNCHANGED desiredVars
        BY <1>2, <3>1, WishesStay
      <3>2. CASE Want("none", NoText, 0)
        BY <3>2, BoundAssumption DEF Want, Wishes, DesireInv, NothingLost, Stamps
      <3> QED
        BY <2>1, <3>1, <3>2
    <2>5. Work'
      BY <1>1, <1>2, <2>3, TaskStep DEF Phases
    <2> QED
      BY <1>2, <2>3, <2>4, <2>5, RestStays, InvParts
  <1>4. CASE ~Owns(d, "dispatching")
    <2>1. mutation' = [mutation EXCEPT ![i].sent = TRUE] /\ UNCHANGED desiredVars
      BY <1>4 DEF GatewayAnswersUnreadably
    <2>2. Moves(i, mutation[i].state) /\ mutation[i].state \in States
      BY <1>1, <2>1, SentMoves, RowTypes
    <2>3. Ledger' /\ Ids' = Ids
      BY <1>1, <1>2, <2>1, <2>2, MoveKeepsLedger DEF objectVars, desiredVars
    <2>4. Work'
      BY <1>1, <1>2, <2>3, TaskStep DEF Phases
    <2> QED
      BY <1>2, <2>1, <2>3, <2>4, RestStays, WishesStay, InvParts
  <1> QED
    BY <1>3, <1>4

LEMMA FollowingStep ==
    ASSUME Inv, NEW d \in Drains, ReserveFollowing(d)
    PROVE  Inv'
  <1>1. /\ Rest /\ Wishes /\ Reads /\ Work /\ Published /\ Ledger /\ TypeOK
        /\ task[d].id \in Ids
    BY InvParts, HeldRow DEF ReserveFollowing, Inv
  <1>2. /\ UNCHANGED <<discordVars, objectVars, desiredVars, unsure, log, owed, fetched,
                       bounds>>
        /\ LetGo(d)
        /\ ReserveNext(desired', wanted', stamp')
    BY DEF ReserveFollowing, desiredVars
  <1>3. Wishes'
    BY <1>2, WishesStay
  <1>4. ActiveIds # {} => desired' # "none"
    BY <1>1, <1>2 DEF Ledger, ActiveInv, desiredVars
  <1>5. Ledger' /\ Ids \subseteq Ids'
    BY <1>1, <1>2, <1>3, <1>4, ReserveKeepsLedger DEF Wishes, objectVars
  <1>6. Work'
    BY <1>1, <1>2, <1>5, TaskStep DEF Phases
  <1> QED
    BY <1>1, <1>2, <1>3, <1>5, <1>6, RestStays, InvParts DEF bounds, Rest

(* The commit: the one step that makes a revision.                         *)
LEMMA CommitStep ==
    ASSUME Inv, NEW d \in Drains, CommitCanonical(d)
    PROVE  Inv'
  <1> DEFINE i == task[d].id
             m == mutation[i]
             e == [kind |-> m.kind, body |-> m.body, stamp |-> m.stamp]
  <1>1. /\ Rest /\ Wishes /\ Reads /\ Work /\ Published /\ Ledger /\ TypeOK
        /\ i \in Ids
    BY InvParts, HeldRow DEF CommitCanonical, Inv
  <1>2. UNCHANGED <<discordVars, wanted, stamp, unsure, owed, fetched, bounds>>
    BY DEF CommitCanonical
  <1>3. CASE ~(Owns(d, "canonical_ready") /\ revision = m.expected)
    <2>1. UNCHANGED <<objectVars, desired, log, mutation>> /\ LetGo(d)
      BY <1>3 DEF CommitCanonical
    <2>2. Ids' = Ids /\ Ledger'
      BY <1>1, <2>1, WantKeepsLedger DEF Ids, objectVars
    <2>3. Work'
      BY <1>1, <2>1, <2>2, TaskStep DEF Phases
    <2> QED
      BY <1>1, <1>2, <2>1, <2>2, <2>3, RestStays, WishesStay, InvParts
      DEF bounds, Rest, desiredVars
  <1>4. CASE Owns(d, "canonical_ready") /\ revision = m.expected
    <2>1. /\ deleted' = (deleted \/ m.kind = "content_delete")
          /\ body' = IF m.kind = "content_update" THEN m.body ELSE body
          /\ revision' = m.expected + 1
          /\ desired' = IF Satisfies(m) THEN "none" ELSE desired
          /\ log' = Append(log, e)
          /\ Set(i, "committed", NoDrain)
          /\ Hold(d, "reserve", i)
      BY <1>4 DEF CommitCanonical
    <2>2. i \in ActiveIds
      BY <1>1, <1>4 DEF Owns, ActiveIds, Active
    <2>3. ActiveIds = {i} /\ ~deleted /\ desired # "none" /\ revision <= Len(mutation)
      BY <1>1, <2>2 DEF Ledger, OneTransition, ActiveInv
    <2>4. m.kind \in Kinds /\ (m.kind = "content_update" => m.body \in Texts)
      BY <1>1, RowTypes DEF Ledger, RowInv
    <2>5. e \in Entry
      BY <1>1, RowTypes DEF Entry
    <2> HIDE DEF i, m, e
    <2>6. Moves(i, "committed")
      BY <1>1, <2>1, SetMoves DEF States
    <2>7. Ids' = Ids /\ ActiveIds' = {}
      BY <2>3, <2>6 DEF Moves, Ids, ActiveIds, Active
    <2>8. /\ revision' = revision + 1 /\ revision \in Nat /\ Len(mutation) \in Nat
          /\ Len(mutation') = Len(mutation) /\ mutation' \in Seq(Mutation)
          /\ Len(mutation) <= MaxMutations
      BY <1>1, <1>4, <2>1, <2>6 DEF Moves, Rest, Ledger
    <2>9. Ledger'
      <3>1. RowInv'
        BY <1>1, <2>6, <2>7 DEF Moves, RowInv, Ledger
      <3>2. ActiveInv' /\ OneTransition'
        BY <2>3, <2>7, <2>8 DEF ActiveInv, OneTransition
      <3> QED
        BY <2>8, <3>1, <3>2 DEF Ledger
    <2>10. Rest'
      <3>1. revision' \in 1..(MaxMutations + 1)
        BY <1>1, <2>3, <2>8, BoundAssumption DEF Rest
      <3>2. body' \in Texts
        BY <1>1, <2>1, <2>4 DEF Rest
      <3>3. deleted' \in BOOLEAN
        BY <1>1, <2>1 DEF Rest
      <3> QED
        BY <1>1, <1>2, <3>1, <3>2, <3>3 DEF Rest, discordVars, bounds
    <2>11. Wishes'
      <3>1. CASE m.kind = "content_delete"
        BY <1>1, <1>2, <2>1, <2>3, <3>1 DEF Satisfies, Wishes, DesireInv, NothingLost
      <3>2. CASE m.kind = "content_update"
        BY <1>1, <1>2, <2>1, <2>3, <3>2 DEF Satisfies, Wishes, DesireInv, NothingLost
      <3> QED
        BY <2>4, <3>1, <3>2 DEF Kinds
    <2>12. Published'
      <3>1. /\ log' \in Seq(Entry) /\ Len(log') = Len(log) + 1
            /\ \A n \in 1..Len(log) : log'[n] = log[n]
            /\ log'[Len(log) + 1] = e /\ Len(log) \in Nat
        BY <1>1, <2>1, <2>5, AppendProperties DEF Published
      <3>2. e.kind = m.kind
        BY DEF e
      <3>3. \A n \in 1..Len(log) : log[n].kind # "content_delete"
        BY <1>1, <2>3 DEF Published, DeleteIsLastSource
      <3>4. deleted' <=> m.kind = "content_delete"
        BY <2>1, <2>3
      <3>5. Len(log') = revision' - 1
        BY <1>1, <2>8, <3>1 DEF Published, DeleteIsLastSource
      <3>6. ASSUME NEW n \in 1..Len(log')
            PROVE  log'[n].kind = "content_delete" <=> deleted' /\ n = Len(log')
        <4>1. CASE n = Len(log) + 1
          BY <3>1, <3>2, <3>4, <4>1
        <4>2. CASE n # Len(log) + 1
          <5>1. n \in 1..Len(log) /\ n # Len(log')
            BY <3>1, <4>2
          <5> QED
            BY <3>1, <3>3, <5>1
        <4> QED
          BY <4>1, <4>2
      <3> QED
        BY <3>1, <3>5, <3>6 DEF Published, DeleteIsLastSource
    <2>13. Work'
      BY <1>1, <2>1, <2>7, TaskStep DEF Phases
    <2>14. Reads'
      BY <1>1, <1>2 DEF Reads, FetchInv, discordVars
    <2> QED
      BY <2>9, <2>10, <2>11, <2>12, <2>13, <2>14, InvParts
  <1> QED
    BY <1>3, <1>4

(* A restart loses what the process knew, and nothing of the ledger.       *)
LEMMA CrashStep == Inv /\ Crash => Inv'
  <1> SUFFICES ASSUME Inv, Crash PROVE Inv'
    OBVIOUS
  <1> USE DEF Crash, discordVars, desiredVars, objectVars
  <1>1. Rest /\ Wishes /\ Reads /\ Work /\ Published /\ Ledger
    BY InvParts
  <1>2. Rest'
    <2>1. crashes' \in 0..MaxCrashes
      BY <1>1, BoundAssumption DEF Rest
    <2>2. owed' \in BOOLEAN
      OBVIOUS
    <2>3. UNCHANGED <<edits, gone, body, revision, deleted, unsure, unreadable>>
      OBVIOUS
    <2> QED
      BY <1>1, <2>1, <2>2, <2>3 DEF Rest
  <1>3. Nothing \in [step : {"none", "present", "missing", "reserve", "clear"},
                     body : Texts \cup {NoText}, stamp : Stamps]
        /\ Nothing.step = "none"
    BY BoundAssumption DEF Nothing, Stamps
  <1>4. Reads'
    BY <1>1, <1>3 DEF Reads, FetchInv
  <1>5. Idle \in [phase : Phases, id : 0..MaxMutations] /\ Idle.phase = "idle"
    BY BoundAssumption DEF Idle, Phases
  <1>6. Work'
    BY <1>5 DEF Work, TaskInv
  <1>7. Ledger'
    BY <1>1, WantKeepsLedger
  <1>8. Published'
    BY <1>1 DEF Published, DeleteIsLastSource
  <1> QED
    BY <1>2, <1>4, <1>6, <1>7, <1>8, WishesStay, InvParts

LEMMA InvStep == Inv /\ [Next]_vars => Inv'
  <1> SUFFICES ASSUME Inv, [Next]_vars PROVE Inv'
    OBVIOUS
  <1>1. ASSUME NEW d \in Drains, Drain(d) PROVE Inv'
    BY <1>1, ClaimStep, SendStep, AnswerStep, UnreadableStep, CommitStep, FollowingStep
    DEF Drain
  <1>2. CASE UNCHANGED vars
    BY <1>2 DEF vars, Inv, TypeOK, DesireInv, FetchInv, TaskInv, RowInv, ActiveInv,
                OneTransition, DeleteIsLastSource, NothingLost, Ids, ActiveIds
  <1> QED
    BY <1>1, <1>2, DiscordStep, EventStep, ReconcilerStep, CrashStep DEF Next

LEMMA InvHolds == Spec => []Inv
  BY InvInit, InvStep, PTL DEF Spec

(* The state stays well typed; in particular no more revisions are made    *)
(* than mutations were reserved.                                           *)
THEOREM TypeCorrect == Spec => []TypeOK
  <1>1. Inv => TypeOK
    BY DEF Inv
  <1> QED
    BY <1>1, InvHolds, PTL

(* _reserve_next_in_session, claim_due and commit_canonical keep at most   *)
(* one transition of an object under way, from its current revision, for   *)
(* any number of drains, expired leases, late answers and restarts.        *)
THEOREM OneAtATime == Spec => []OneTransition
  <1>1. Inv => OneTransition
    BY DEF Inv
  <1> QED
    BY <1>1, InvHolds, PTL

(* commit_canonical gives every revision exactly one outbound source, and  *)
(* none follows a Delete.                                                  *)
THEOREM DeleteClosesLog == Spec => []DeleteIsLastSource
  <1>1. Inv => DeleteIsLastSource
    BY DEF Inv
  <1> QED
    BY <1>1, InvHolds, PTL

(* An admitted edit is not lost: it is wanted until the object carries it, *)
(* is deleted, or the edit was aborted.                                    *)
THEOREM EditsAreKept == Spec => []NothingLost
  <1>1. Inv => NothingLost
    BY DEF Inv
  <1> QED
    BY <1>1, InvHolds, PTL
-----------------------------------------------------------------------------
(* The order of the edits, when every answer of the gateway can be read    *)
(* (an unreadable one makes the bridge forget the newest timestamp).       *)

(* Nothing committed is newer than what was admitted last ...              *)
LogInv ==
    /\ \A n \in 1..Len(log) : log[n].stamp <= stamp
    /\ desired = "update" => \A n \in 1..Len(log) : log[n].stamp < stamp

(* ... an edit under way is newer than what is committed, and tells the    *)
(* wanted edit by its timestamp ...                                        *)
UnderWayInv ==
    \A i \in ActiveIds :
        /\ mutation[i].stamp <= stamp
        /\ mutation[i].kind = "content_update" =>
              /\ \A n \in 1..Len(log) : log[n].stamp < mutation[i].stamp
              /\ desired = "update" /\ mutation[i].stamp = stamp => mutation[i].body = wanted

(* ... and timestamps name edits of the message.                           *)
StampInv ==
    /\ desired # "delete" /\ ~deleted /\ stamp # 0 =>
          stamp \in 1..Len(edits) /\ wanted = edits[stamp]
    /\ fetched.step = "present" =>
          fetched.stamp \in 1..Len(edits) /\ fetched.body = edits[fetched.stamp]

OrderInv == LogInv /\ UnderWayInv /\ StampInv /\ EditsInOrder

(* What is under way after a step was under way before, or is reserved for *)
(* what is wanted.                                                         *)
Carried ==
    \A i \in ActiveIds' :
        \/ /\ i \in ActiveIds
           /\ mutation'[i].kind = mutation[i].kind
           /\ mutation'[i].stamp = mutation[i].stamp
           /\ mutation'[i].body = mutation[i].body
        \/ /\ mutation'[i].stamp = stamp' /\ mutation'[i].body = wanted'
           /\ mutation'[i].kind = "content_update" => desired' = "update"

LEMMA ReserveCarries ==
    ASSUME Ledger, Wishes', ReserveNext(desired', wanted', stamp')
    PROVE  Carried
  <1>1. CASE UNCHANGED mutation
    BY <1>1 DEF Carried, ActiveIds, Ids
  <1>2. CASE mutation' # mutation
    <2>1. /\ desired' # "none" /\ ActiveIds = {}
          /\ mutation' = Append(mutation, NextMutation(desired', wanted', stamp'))
      BY <1>2 DEF ReserveNext
    <2> DEFINE k == NextMutation(desired', wanted', stamp')
    <2>2. k.stamp = stamp' /\ k.body = wanted'
          /\ (k.kind = "content_update" => desired' = "update")
      BY <2>1 DEF NextMutation, Wishes
    <2> HIDE DEF k
    <2>3. /\ Len(mutation') = Len(mutation) + 1 /\ Len(mutation) \in Nat
          /\ \A i \in Ids : mutation'[i] = mutation[i]
          /\ mutation'[Len(mutation) + 1] = k
      BY <2>1 DEF Ledger, Ids, k
    <2>4. \A i \in ActiveIds' : i = Len(mutation) + 1
      BY <2>1, <2>3 DEF ActiveIds, Ids
    <2> QED
      BY <2>2, <2>3, <2>4 DEF Carried
  <1> QED
    BY <1>1, <1>2

LEMMA MoveCarries ==
    ASSUME NEW i \in Ids, NEW st \in States, Moves(i, st),
           st \in Active => mutation[i].state \in Active
    PROVE  Carried
  BY DEF Moves, Carried, ActiveIds, Ids

(* The ways in which what is wanted may change.                            *)
Wanting ==
    \/ UNCHANGED <<desired, wanted, stamp>>
    \/ /\ ~deleted /\ desired # "delete"
       /\ desired' = "update" /\ stamp' > stamp
       /\ stamp' \in 1..Len(edits) /\ wanted' = edits[stamp']
    \/ desired' = "delete" /\ UNCHANGED stamp

Growing ==
    /\ Len(edits) <= Len(edits')
    /\ \A n \in 1..Len(edits) : edits'[n] = edits[n]

LEMMA WantingKeepsOrder ==
    ASSUME Inv, Inv', OrderInv, Wanting, Growing, Carried, UNCHANGED <<deleted, log>>
    PROVE  LogInv' /\ UnderWayInv' /\ EditsInOrder'
           /\ (desired' # "delete" /\ ~deleted' /\ stamp' # 0 =>
                  stamp' \in 1..Len(edits') /\ wanted' = edits'[stamp'])
  <1> USE DEF OrderInv
  <1>1. /\ stamp \in Nat /\ stamp' \in Nat /\ Len(edits) \in Nat /\ Len(edits') \in Nat
        /\ \A n \in 1..Len(log) : log[n].stamp \in Nat
        /\ \A i \in ActiveIds : mutation[i].stamp \in Nat
    <2>1. Rest /\ Wishes /\ Published /\ Ledger /\ stamp' \in Stamps
          /\ edits' \in Seq(Texts)
      BY InvParts DEF Inv, TypeOK
    <2>2. stamp \in Nat /\ stamp' \in Nat /\ Len(edits) \in Nat /\ Len(edits') \in Nat
      BY <2>1, BoundAssumption DEF Wishes, Rest, Stamps
    <2>3. \A n \in 1..Len(log) : log[n].stamp \in Nat
      <3>1. \A n \in 1..Len(log) : log[n] \in Entry
        BY <2>1 DEF Published
      <3> QED
        BY <3>1 DEF Entry, Stamps
    <2>4. \A i \in ActiveIds : mutation[i].stamp \in Nat
      BY <2>1, RowTypes DEF ActiveIds, Stamps
    <2> QED
      BY <2>2, <2>3, <2>4
  <1>2. stamp' >= stamp
    BY <1>1 DEF Wanting
  <1>3. LogInv'
    BY <1>1, <1>2 DEF LogInv, Wanting
  <1>4. UnderWayInv'
    <2> SUFFICES ASSUME NEW i \in ActiveIds'
                 PROVE  /\ mutation'[i].stamp <= stamp'
                        /\ mutation'[i].kind = "content_update" =>
                              /\ \A n \in 1..Len(log) : log[n].stamp < mutation'[i].stamp
                              /\ desired' = "update" /\ mutation'[i].stamp = stamp'
                                    => mutation'[i].body = wanted'
      BY DEF UnderWayInv
    <2>1. CASE /\ mutation'[i].stamp = stamp' /\ mutation'[i].body = wanted'
               /\ mutation'[i].kind = "content_update" => desired' = "update"
      BY <1>1, <1>3, <2>1 DEF LogInv
    <2>2. CASE /\ i \in ActiveIds
               /\ mutation'[i].kind = mutation[i].kind
               /\ mutation'[i].stamp = mutation[i].stamp
               /\ mutation'[i].body = mutation[i].body
      <3>1. /\ mutation[i].stamp \in Nat /\ mutation[i].stamp <= stamp
            /\ mutation[i].kind = "content_update" =>
                  /\ \A n \in 1..Len(log) : log[n].stamp < mutation[i].stamp
                  /\ desired = "update" /\ mutation[i].stamp = stamp
                        => mutation[i].body = wanted
        BY <1>1, <2>2 DEF UnderWayInv
      <3> QED
        BY <1>1, <1>2, <2>2, <3>1 DEF Wanting
    <2> QED
      BY <2>1, <2>2 DEF Carried
  <1>5. EditsInOrder'
    BY DEF EditsInOrder
  <1>6. desired' # "delete" /\ ~deleted' /\ stamp' # 0 =>
           stamp' \in 1..Len(edits') /\ wanted' = edits'[stamp']
    BY <1>1 DEF StampInv, Wanting, Growing
  <1> QED
    BY <1>3, <1>4, <1>5, <1>6

LEMMA FetchKeepsStamp ==
    ASSUME Inv, StampInv, Growing,
           \/ UNCHANGED fetched
           \/ fetched'.step # "present"
           \/ FetchMessage
    PROVE  fetched'.step = "present" =>
              fetched'.stamp \in 1..Len(edits') /\ fetched'.body = edits'[fetched'.stamp]
  <1>1. Len(edits) \in Nat /\ Len(edits') >= Len(edits)
    BY DEF Inv, TypeOK, Growing
  <1>2. CASE UNCHANGED fetched
    BY <1>1, <1>2 DEF StampInv, Growing
  <1>3. CASE FetchMessage
    <2>1. edits # <<>> /\ UNCHANGED edits
      BY <1>3 DEF FetchMessage, Inv, FetchInv, discordVars
    <2>2. Len(edits) \in 1..Len(edits)
      BY <1>1, <2>1 DEF Inv, TypeOK
    <2> QED
      BY <1>3, <2>1, <2>2 DEF FetchMessage
  <1> QED
    BY <1>2, <1>3

LEMMA OrderShape ==
    ASSUME Inv, Inv', OrderInv, Next, MaxUnreadable = 0
    PROVE  \/ /\ Wanting /\ Growing /\ Carried /\ UNCHANGED <<deleted, log>>
              /\ \/ UNCHANGED fetched
                 \/ fetched'.step # "present"
                 \/ FetchMessage
           \/ \E d \in Drains : /\ CommitCanonical(d)
                                /\ Owns(d, "canonical_ready")
                                /\ revision = mutation[task[d].id].expected
  <1> DEFINE Kept == /\ Wanting /\ Growing /\ Carried /\ UNCHANGED <<deleted, log>>
                     /\ \/ UNCHANGED fetched
                        \/ fetched'.step # "present"
                        \/ FetchMessage
  <1> USE DEF discordVars, desiredVars, objectVars, bounds
  <1>0. Rest /\ Wishes /\ Reads /\ Work /\ Published /\ Ledger /\ Wishes'
    BY InvParts
  <1>1. UNCHANGED mutation => Carried
    BY DEF Carried, ActiveIds, Ids
  <1>2. UNCHANGED edits => Growing
    BY <1>0 DEF Growing, Rest
  <1>3. Discord => Kept
    <2>1. ASSUME NEW t \in Texts, EditMessage(t) PROVE Growing
      BY <1>0, <2>1, AppendProperties DEF EditMessage, Growing, Rest
    <2>2. DeleteMessage => Growing
      BY <1>2 DEF DeleteMessage
    <2>3. Discord => UNCHANGED <<mutation, fetched, desired, wanted, stamp, deleted, log>>
      BY DEF Discord, EditMessage, DeleteMessage
    <2> QED
      BY <1>1, <2>1, <2>2, <2>3 DEF Discord, Wanting
  <1>4. Events => Kept
    <2>1. Events => UNCHANGED <<edits, fetched, deleted, log>>
      BY DEF Events, RecordDesiredUpdate, RecordDesiredDelete, RequestReconciliation,
             ReserveAdmitted
    <2>2. ASSUME NEW s \in 1..MaxEdits, RecordDesiredUpdate(s) PROVE Wanting /\ Carried
      BY <1>1, <2>2 DEF RecordDesiredUpdate, Admits, Terminal, Want, Wanting
    <2>3. RecordDesiredDelete \/ RequestReconciliation => Wanting /\ Carried
      BY <1>1 DEF RecordDesiredDelete, RequestReconciliation, Want, Wanting
    <2>4. ReserveAdmitted => Wanting /\ Carried
      BY <1>0, ReserveCarries DEF ReserveAdmitted, Wanting
    <2> QED
      BY <1>2, <2>1, <2>2, <2>3, <2>4 DEF Events
  <1>5. Reconciler => Kept
    <2>1. Reconciler => UNCHANGED <<edits, deleted, log>>
      BY DEF Reconciler, FetchMessage, ReconcileUpdate, ReconcileDelete, ReconcileReserve,
             ClearReconciliation
    <2>2. FetchMessage => Kept
      BY <1>1, <1>2 DEF FetchMessage, Wanting
    <2>3. ASSUME ReconcileUpdate PROVE Wanting /\ Carried /\ fetched'.step # "present"
      <3>1. fetched.stamp \in 1..Len(edits) /\ fetched.body = edits[fetched.stamp]
            /\ Len(edits) \in Nat /\ stamp \in Nat
        BY <1>0, <2>3 DEF ReconcileUpdate, OrderInv, StampInv, Rest, Wishes, Stamps
      <3>2. Wanting
        <4>1. CASE UNCHANGED desiredVars
          BY <4>1 DEF Wanting
        <4>2. CASE ~UNCHANGED desiredVars
          <5>1. /\ ~deleted /\ desired # "delete" /\ ~(fetched.stamp < stamp)
                /\ ~(fetched.stamp = stamp /\ wanted = fetched.body)
                /\ desired' = "update" /\ wanted' = fetched.body /\ stamp' = fetched.stamp
            BY <2>3, <4>2 DEF ReconcileUpdate, Terminal, Want
          <5>2. fetched.stamp # stamp
            BY <3>1, <5>1 DEF OrderInv, StampInv
          <5>3. stamp' > stamp
            BY <3>1, <5>1, <5>2
          <5> QED
            BY <3>1, <5>1, <5>3 DEF Wanting
        <4> QED
          BY <4>1, <4>2
      <3>3. Carried
        BY <1>0, <1>1, <2>3, ReserveCarries DEF ReconcileUpdate
      <3> QED
        BY <2>3, <3>2, <3>3 DEF ReconcileUpdate, Nothing
    <2>4. ReconcileDelete => Wanting /\ Carried /\ fetched'.step # "present"
      BY <1>0, <1>1 DEF ReconcileDelete, Want, Wanting, Reads
    <2>5. ReconcileReserve => Wanting /\ Carried /\ fetched'.step # "present"
      BY <1>0, ReserveCarries DEF ReconcileReserve, Wanting, Reads
    <2>6. ClearReconciliation => Wanting /\ Carried /\ fetched'.step # "present"
      BY <1>1 DEF ClearReconciliation, Wanting, Nothing
    <2> QED
      BY <1>2, <2>1, <2>2, <2>3, <2>4, <2>5, <2>6 DEF Reconciler
  <1>6. Crash => Kept
    BY <1>1, <1>2 DEF Crash, Wanting, Nothing
  <1>7. ASSUME NEW d \in Drains, NEW i \in Ids, ClaimMutation(d, i) PROVE Kept
    <2>1. PICK s \in Active : Set(i, s, d)
      BY <1>7 DEF ClaimMutation, Active
    <2>2. Moves(i, s) /\ s \in States
      BY <1>0, <2>1, SetMoves DEF States
    <2>3. Carried
      BY <1>7, <2>2, MoveCarries DEF ClaimMutation, ActiveIds
    <2> QED
      BY <1>2, <1>7, <2>3 DEF ClaimMutation, Wanting
  <1>8. ASSUME NEW d \in Drains, MarkSendPossible(d) PROVE Kept
    BY <1>1, <1>2, <1>8 DEF MarkSendPossible, Wanting
  <1>9. ASSUME NEW d \in Drains,
               GatewayAnswers(d) \/ \E acted \in BOOLEAN : GatewayFails(d, acted)
        PROVE  Kept
    <2>1. Carried
      BY <1>9, AnswerMoves, MoveCarries
    <2> QED
      BY <1>2, <1>9, <2>1 DEF GatewayAnswers, GatewayFails, Wanting
  <1>10. ASSUME NEW d \in Drains, GatewayAnswersUnreadably(d) PROVE FALSE
    BY <1>0, <1>10 DEF GatewayAnswersUnreadably, Rest
  <1>11. ASSUME NEW d \in Drains, ReserveFollowing(d) PROVE Kept
    <2>1. Carried
      BY <1>0, <1>11, ReserveCarries DEF ReserveFollowing
    <2> QED
      BY <1>2, <1>11, <2>1 DEF ReserveFollowing, Wanting
  <1>12. ASSUME NEW d \in Drains, CommitCanonical(d),
                ~(Owns(d, "canonical_ready") /\ revision = mutation[task[d].id].expected)
         PROVE  Kept
    <2>1. UNCHANGED <<edits, mutation, desired, wanted, stamp, deleted, log, fetched>>
      BY <1>12 DEF CommitCanonical
    <2> QED
      BY <1>1, <1>2, <2>1 DEF Wanting
  <1> HIDE DEF Kept
  <1>13. \/ Kept
         \/ \E d \in Drains : /\ CommitCanonical(d)
                              /\ Owns(d, "canonical_ready")
                              /\ revision = mutation[task[d].id].expected
    BY <1>3, <1>4, <1>5, <1>6, <1>7, <1>8, <1>9, <1>10, <1>11, <1>12 DEF Next, Drain
  <1> QED
    BY <1>13 DEF Kept

(* A commit appends the newest timestamp, unless it is the Delete.         *)
LEMMA CommitKeepsOrder ==
    ASSUME Inv, OrderInv, NEW d \in Drains, CommitCanonical(d), Owns(d, "canonical_ready"),
           revision = mutation[task[d].id].expected
    PROVE  OrderInv'
  <1> DEFINE i == task[d].id
             m == mutation[i]
             e == [kind |-> m.kind, body |-> m.body, stamp |-> m.stamp]
  <1> USE DEF OrderInv
  <1>1. Rest /\ Wishes /\ Reads /\ Work /\ Published /\ Ledger /\ i \in Ids
    BY InvParts, HeldRow DEF CommitCanonical
  <1>2. /\ UNCHANGED <<edits, wanted, stamp, fetched>>
        /\ deleted' = (deleted \/ m.kind = "content_delete")
        /\ desired' = IF Satisfies(m) THEN "none" ELSE desired
        /\ log' = Append(log, e)
        /\ Set(i, "committed", NoDrain)
    BY DEF CommitCanonical, discordVars
  <1>3. i \in ActiveIds /\ ActiveIds = {i}
    <2>1. i \in ActiveIds
      BY <1>1 DEF Owns, ActiveIds, Active
    <2> QED
      BY <1>1, <2>1 DEF Ledger, OneTransition
  <1>4. m.kind \in Kinds /\ m.stamp \in Nat /\ stamp \in Nat /\ e \in Entry
    BY <1>1, RowTypes DEF Wishes, Stamps, Entry
  <1>5. /\ m.stamp <= stamp
        /\ m.kind = "content_update" =>
              /\ \A n \in 1..Len(log) : log[n].stamp < m.stamp
              /\ desired = "update" /\ m.stamp = stamp => m.body = wanted
    BY <1>3 DEF UnderWayInv
  <1>6. e.kind = m.kind /\ e.stamp = m.stamp
    OBVIOUS
  <1> HIDE DEF i, m, e
  <1>7. ActiveIds' = {}
    <2>1. Moves(i, "committed")
      BY <1>1, <1>2, SetMoves DEF States
    <2> QED
      BY <1>3, <2>1 DEF Moves, Ids, ActiveIds, Active
  <1>8. /\ Len(log') = Len(log) + 1 /\ Len(log) \in Nat
        /\ \A n \in 1..Len(log) : log'[n] = log[n] /\ log[n].stamp \in Nat
        /\ log'[Len(log) + 1] = e
    <2>1. log \in Seq(Entry)
      BY <1>1 DEF Published
    <2>2. \A n \in 1..Len(log) : log[n] \in Entry
      BY <2>1
    <2>3. \A n \in 1..Len(log) : log[n].stamp \in Nat
      BY <2>2 DEF Entry, Stamps
    <2> QED
      BY <1>2, <1>4, <2>1, <2>3, AppendProperties
  <1>9. \A n \in 1..Len(log') : n \in 1..Len(log) \/ n = Len(log) + 1
    BY <1>8
  <1>10. LogInv'
    <2>1. \A n \in 1..Len(log') : log'[n].stamp <= stamp
      BY <1>5, <1>6, <1>8, <1>9 DEF LogInv
    <2>2. ASSUME desired' = "update" PROVE \A n \in 1..Len(log') : log'[n].stamp < stamp
      <3>1. desired = "update" /\ wanted # m.body /\ m.kind = "content_update"
        BY <1>2, <1>4, <2>2 DEF Satisfies, Kinds
      <3>2. m.stamp < stamp
        BY <1>4, <1>5, <3>1
      <3> QED
        BY <1>6, <1>8, <1>9, <3>1, <3>2 DEF LogInv
    <2> QED
      BY <1>2, <2>1, <2>2 DEF LogInv
  <1>11. EditsInOrder'
    <2>1. \A n \in 1..Len(log') : log'[n].kind = "content_update" /\ n = Len(log) + 1
             => \A l \in 1..Len(log) : log[l].stamp < log'[n].stamp
      BY <1>5, <1>6, <1>8
    <2>2. ASSUME NEW l \in 1..Len(log'), NEW n \in 1..Len(log'), l < n,
                 log'[n].kind = "content_update"
          PROVE  log'[l].stamp < log'[n].stamp
      <3>1. l \in 1..Len(log)
        BY <1>8, <2>2
      <3>2. CASE n = Len(log) + 1
        BY <1>8, <2>1, <2>2, <3>1, <3>2
      <3>3. CASE n \in 1..Len(log)
        BY <1>8, <2>2, <3>1, <3>3 DEF EditsInOrder
      <3> QED
        BY <1>9, <3>2, <3>3
    <2> QED
      BY <2>2 DEF EditsInOrder
  <1>12. UnderWayInv'
    BY <1>7 DEF UnderWayInv
  <1>13. StampInv'
    BY <1>1, <1>2 DEF StampInv, Satisfies, Wishes, DesireInv
  <1> QED
    BY <1>10, <1>11, <1>12, <1>13

(* Edits are published in the order Discord gave them, for any number of   *)
(* edits and drains, whatever the order their events, fetches and answers  *)
(* arrive in, as long as the gateway's answers can be read.                *)
THEOREM OrderHolds ==
    ASSUME MaxUnreadable = 0
    PROVE  Spec => []EditsInOrder
  <1>1. Init => OrderInv
    <2> SUFFICES ASSUME Init PROVE OrderInv
      OBVIOUS
    <2>1. Len(mutation) = 0 /\ Len(log) = 0
      BY DEF Init
    <2>2. ActiveIds = {}
      BY <2>1 DEF ActiveIds, Ids
    <2> QED
      BY <2>1, <2>2
      DEF Init, OrderInv, LogInv, UnderWayInv, StampInv, EditsInOrder, Nothing
  <1>2. Inv /\ Inv' /\ OrderInv /\ [Next]_vars => OrderInv'
    <2> SUFFICES ASSUME Inv, Inv', OrderInv, [Next]_vars PROVE OrderInv'
      OBVIOUS
    <2>1. CASE UNCHANGED vars
      BY <2>1 DEF vars, OrderInv, LogInv, UnderWayInv, StampInv, EditsInOrder, ActiveIds, Ids
    <2>2. CASE Next
      BY <2>2, OrderShape, CommitKeepsOrder, WantingKeepsOrder, FetchKeepsStamp
      DEF OrderInv, StampInv
    <2> QED
      BY <2>1, <2>2
  <1>3. OrderInv => EditsInOrder
    BY DEF OrderInv
  <1> QED
    BY <1>1, <1>2, <1>3, InvHolds, PTL DEF Spec
=============================================================================
