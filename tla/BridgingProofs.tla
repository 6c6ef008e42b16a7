--------------------------- MODULE BridgingProofs ---------------------------
(***************************************************************************)
(* Theorems about MCBridging: inbound follows (any Follows and Undos, any  *)
(* attempts, faults and crashes), remote subscriptions (any channels,      *)
(* communities and commands) and the sync of a remote community (any       *)
(* channels, comments and deliveries).                                     *)
(***************************************************************************)
EXTENDS MCBridging, SequenceTheorems, FiniteSetTheorems, TLAPS

-----------------------------------------------------------------------------
(* Inbound follows *)

(* What waits in the queue has an attempt left.                            *)
QueueInv ==
    /\ kind \in {"user", "community"}
    /\ queue \in [Follow!Deliveries -> {"unsent", "queued", "calling", "done", "dropped"}]
    /\ attempts \in [Follow!Deliveries -> 0..MaxFollowAttempts]
    /\ \A d \in Follow!Deliveries :
          queue[d] \in {"unsent", "queued", "calling"} => attempts[d] < MaxFollowAttempts
    /\ receipts \in [Follow!Deliveries ->
                        {"none", "in_progress", "processed", "skipped", "failed"}]
    /\ accepted \subseteq Follows
    /\ followFaults \in 0..MaxFollowFaults
    /\ followCrashes \in 0..MaxFollowCrashes

(* The handler of d tells the owner of the row with this id.               *)
Tells(d, id) == handlers[d].stage = "notifying" /\ handlers[d].id = id

Heard(id) == \E n \in 1..Len(told) : told[n] = id

(* A row is told of by the handler that claimed it, which no other can, or *)
(* was told of; either way it is claimed, or gone for good with its id.    *)
HeardInv ==
    /\ lastId \in Nat /\ told \in Seq(Nat)
    /\ row \in Follow!Rows \cup {NoRow}
    /\ handlers \in [Follow!Deliveries ->
                        [stage : {"idle", "accepting", "notifying"}, id : Nat]]
    /\ \A id \in Nat : (Heard(id) \/ \E d \in Follow!Deliveries : Tells(d, id)) =>
          /\ id <= lastId
          /\ row = NoRow \/ row.id # id \/ row.notice = "attempted"
    /\ \A d, e \in Follow!Deliveries, id \in Nat : Tells(d, id) =>
          ~Heard(id) /\ (Tells(e, id) => d = e)
    /\ row # NoRow => row.id <= lastId
    /\ \A m, n \in 1..Len(told) : told[m] = told[n] => m = n

FollowInv == QueueInv /\ HeardInv

LEMMA FollowFacts ==
    /\ Follows \cap Undos = {} /\ MaxFollowAttempts \in Nat \ {0}
    /\ MaxFollowFaults \in Nat /\ MaxFollowCrashes \in Nat
    /\ NoRow \notin Follow!Rows
    /\ Follows \subseteq Follow!Deliveries /\ Undos \subseteq Follow!Deliveries
  BY BridgingAssumption DEF Follow!InboundFollowAssumption, Follow!Rows, Follow!Deliveries

LEMMA FollowInit == Follow!Init => FollowInv
  <1> SUFFICES ASSUME Follow!Init PROVE FollowInv
    OBVIOUS
  <1>1. QueueInv
    BY FollowFacts DEF Follow!Init, QueueInv
  <1>2. Len(told) = 0 /\ \A id : ~Heard(id)
    BY DEF Follow!Init, Heard
  <1>3. HeardInv
    BY <1>2 DEF Follow!Init, HeardInv, Tells, Follow!Idle
  <1> QED
    BY <1>1, <1>3 DEF FollowInv

(* What the queue makes of deliveries that got no 2xx, and of one that did. *)
LEMMA QueueMoves ==
    ASSUME QueueInv
    PROVE  /\ \A D : (\A d \in D \cap Follow!Deliveries : queue[d] \in {"queued", "calling"})
                     /\ Follow!Failed(D) =>
                 /\ queue' \in [Follow!Deliveries ->
                                   {"unsent", "queued", "calling", "done", "dropped"}]
                 /\ attempts' \in [Follow!Deliveries -> 0..MaxFollowAttempts]
                 /\ \A d \in Follow!Deliveries :
                       queue'[d] \in {"unsent", "queued", "calling"} =>
                          attempts'[d] < MaxFollowAttempts
           /\ \A d \in Follow!Deliveries : Follow!Answered(d) =>
                 /\ queue' \in [Follow!Deliveries ->
                                   {"unsent", "queued", "calling", "done", "dropped"}]
                 /\ attempts' \in [Follow!Deliveries -> 0..MaxFollowAttempts]
                 /\ \A e \in Follow!Deliveries :
                       queue'[e] \in {"unsent", "queued", "calling"} =>
                          attempts'[e] < MaxFollowAttempts
  <1>1. ASSUME NEW D, \A d \in D \cap Follow!Deliveries : queue[d] \in {"queued", "calling"},
               Follow!Failed(D), NEW d \in Follow!Deliveries
        PROVE  /\ queue'[d] \in {"unsent", "queued", "calling", "done", "dropped"}
               /\ attempts'[d] \in 0..MaxFollowAttempts
               /\ queue'[d] \in {"unsent", "queued", "calling"} =>
                     attempts'[d] < MaxFollowAttempts
    BY <1>1, FollowFacts DEF Follow!Failed, QueueInv
  <1>2. \A D : Follow!Failed(D) => /\ queue' = [d \in Follow!Deliveries |-> queue'[d]]
                                   /\ attempts' = [d \in Follow!Deliveries |-> attempts'[d]]
    BY DEF Follow!Failed
  <1>3. ASSUME NEW d \in Follow!Deliveries, Follow!Answered(d)
        PROVE  /\ queue' \in [Follow!Deliveries ->
                                 {"unsent", "queued", "calling", "done", "dropped"}]
               /\ attempts' \in [Follow!Deliveries -> 0..MaxFollowAttempts]
               /\ \A e \in Follow!Deliveries :
                     queue'[e] \in {"unsent", "queued", "calling"} =>
                        attempts'[e] < MaxFollowAttempts
    BY <1>3 DEF Follow!Answered, QueueInv
  <1> QED
    BY <1>1, <1>2, <1>3

LEMMA QueueStep == QueueInv /\ [Follow!Next]_followVars => QueueInv'
  <1> SUFFICES ASSUME QueueInv, [Follow!Next]_followVars PROVE QueueInv'
    OBVIOUS
  <1>1. ASSUME NEW d \in Follow!Deliveries,
               NEW s \in {"in_progress", "processed", "skipped", "failed"},
               Follow!Settle(d, s)
        PROVE  receipts' \in [Follow!Deliveries ->
                                 {"none", "in_progress", "processed", "skipped", "failed"}]
    BY <1>1 DEF Follow!Settle, QueueInv
  <1>2. ASSUME NEW d \in Follow!Deliveries,
               \/ Follow!Send(d) \/ Follow!Redeliver(d) \/ Follow!Abandon(d)
               \/ Follow!Conflict(d) \/ Follow!Duplicate(d)
        PROVE  QueueInv'
    <2>1. CASE Follow!Send(d)
      BY <2>1 DEF Follow!Send, QueueInv
    <2>2. CASE Follow!Redeliver(d)
      BY <2>2, FollowFacts DEF Follow!Redeliver, Follow!Fault, QueueInv
    <2>3. CASE Follow!Abandon(d)
      <3>1. \A e \in {d} \cap Follow!Deliveries : queue[e] \in {"queued", "calling"}
        BY <2>3 DEF Follow!Abandon
      <3> QED
        BY <2>3, <3>1, QueueMoves, FollowFacts DEF Follow!Abandon, Follow!Fault, QueueInv
    <2>4. CASE Follow!Conflict(d)
      <3>1. \A e \in {d} \cap Follow!Deliveries : queue[e] \in {"queued", "calling"}
        BY <2>4 DEF Follow!Conflict, Follow!Listened
      <3> QED
        BY <2>4, <3>1, QueueMoves DEF Follow!Conflict, QueueInv
    <2>5. CASE Follow!Duplicate(d)
      BY <2>5, QueueMoves DEF Follow!Duplicate, QueueInv
    <2> QED
      BY <1>2, <2>1, <2>2, <2>3, <2>4, <2>5
  <1>3. ASSUME NEW d \in Follow!Deliveries,
               Follow!Refuse(d) \/ Follow!Raise(d) \/ Follow!Follow(d) \/ Follow!Undo(d)
        PROVE  QueueInv'
    <2>1. \A e \in {d} \cap Follow!Deliveries : queue[e] \in {"queued", "calling"}
      BY <1>3 DEF Follow!Refuse, Follow!Raise, Follow!Follow, Follow!Undo, Follow!Begins,
                  Follow!Listened
    <2>2. CASE Follow!Refuse(d)
      BY <1>1, <2>2, QueueMoves DEF Follow!Refuse, QueueInv
    <2>3. CASE Follow!Raise(d)
      BY <1>1, <2>1, <2>3, QueueMoves, FollowFacts DEF Follow!Raise, Follow!Fault, QueueInv
    <2>4. CASE Follow!Follow(d)
      BY <1>1, <2>1, <2>4 DEF Follow!Follow, QueueInv
    <2>5. CASE Follow!Undo(d)
      <3>1. (IF row = NoRow THEN "skipped" ELSE "processed") \in {"processed", "skipped"}
        OBVIOUS
      <3> QED
        BY <1>1, <2>5, <3>1, QueueMoves DEF Follow!Undo, QueueInv
    <2> QED
      BY <1>3, <2>2, <2>3, <2>4, <2>5
  <1>4. ASSUME NEW f \in Follows, NEW s \in {"processed", "failed"}, Follow!End(f, s),
               accepted' \subseteq Follows, followFaults' \in 0..MaxFollowFaults,
               UNCHANGED <<kind, followCrashes>>
        PROVE  QueueInv'
    <2>1. f \in Follow!Deliveries
      BY FollowFacts
    <2>2. CASE queue[f] # "calling"
      BY <1>1, <1>4, <2>1, <2>2 DEF Follow!End, Follow!Respond, QueueInv
    <2>3. CASE queue[f] = "calling" /\ s = "processed"
      BY <1>1, <1>4, <2>1, <2>3, QueueMoves DEF Follow!End, Follow!Respond, QueueInv
    <2>4. CASE queue[f] = "calling" /\ s = "failed"
      <3>1. \A e \in {f} \cap Follow!Deliveries : queue[e] \in {"queued", "calling"}
        BY <2>4
      <3>2. Follow!Failed({f})
        BY <1>4, <2>4 DEF Follow!End, Follow!Respond
      <3> QED
        BY <1>1, <1>4, <2>1, <3>1, <3>2, QueueMoves DEF Follow!End, QueueInv
    <2> QED
      BY <1>4, <2>2, <2>3, <2>4
  <1>5. ASSUME NEW f \in Follows, Follow!Progress(f) \/ Follow!AcceptFails(f)
        PROVE  QueueInv'
    <2>1. CASE Follow!AcceptClaimed(f)
      BY <2>1 DEF Follow!AcceptClaimed, QueueInv
    <2>2. CASE Follow!AcceptDone(f)
      BY <1>4, <2>2 DEF Follow!AcceptDone, QueueInv
    <2>3. CASE Follow!Notified(f)
      BY <1>4, <2>3 DEF Follow!Notified, QueueInv
    <2>4. CASE Follow!AcceptFails(f)
      BY <1>4, <2>4, FollowFacts DEF Follow!AcceptFails, Follow!Fault, QueueInv
    <2> QED
      BY <1>5, <2>1, <2>2, <2>3, <2>4 DEF Follow!Progress
  <1>6. CASE Follow!BridgeCrash \/ Follow!GatewayCrash
    <2>1. CASE Follow!BridgeCrash
      <3>1. PICK D : D = {d \in Follow!Deliveries : queue[d] = "calling"}
        OBVIOUS
      <3>2. Follow!Failed(D) /\ \A e \in D \cap Follow!Deliveries : queue[e] = "calling"
        BY <2>1, <3>1 DEF Follow!BridgeCrash
      <3> QED
        BY <2>1, <3>2, QueueMoves, FollowFacts DEF Follow!BridgeCrash, Follow!Crash, QueueInv
    <2>2. CASE Follow!GatewayCrash
      BY <2>2, FollowFacts DEF Follow!GatewayCrash, Follow!Crash, QueueInv
    <2> QED
      BY <1>6, <2>1, <2>2
  <1>7. ASSUME NEW d \in Follow!Deliveries, Follow!CrashAfterBegin(d)
        PROVE  QueueInv'
    <2>1. PICK D : D = {d} \cup {e \in Follow!Deliveries : queue[e] = "calling"}
      OBVIOUS
    <2>2. /\ Follow!Failed(D)
          /\ \A e \in D \cap Follow!Deliveries : queue[e] \in {"queued", "calling"}
      BY <1>7, <2>1 DEF Follow!CrashAfterBegin, Follow!Begins, Follow!Listened
    <2> QED
      BY <1>1, <1>7, <2>2, QueueMoves, FollowFacts
      DEF Follow!CrashAfterBegin, Follow!Crash, QueueInv
  <1>8. CASE UNCHANGED followVars
    BY <1>8 DEF followVars, QueueInv
  <1> QED
    BY <1>2, <1>3, <1>5, <1>6, <1>7, <1>8 DEF Follow!Next, Follow!Bridge

(* What a step makes of the row, the handlers and what owners heard.       *)
LEMMA FollowShape ==
    ASSUME Follow!Next
    PROVE  \/ UNCHANGED <<row, lastId, told, handlers>>
           \/ \E f \in Follows :
                 /\ Follow!CreateOrRefresh(f) /\ UNCHANGED told
                 /\ handlers' = [handlers EXCEPT ![f] = [stage |-> "accepting", id |-> row'.id]]
           \/ row' = NoRow /\ UNCHANGED <<lastId, told, handlers>>
           \/ \E f \in Follows :
                 /\ handlers[f].stage = "accepting" /\ Follow!Claims(handlers[f].id)
                 /\ row' = [row EXCEPT !.notice = "attempted"]
                 /\ handlers' = [handlers EXCEPT ![f].stage = "notifying"]
                 /\ UNCHANGED <<lastId, told>>
           \/ \E f \in Follows :
                 /\ handlers' = [handlers EXCEPT ![f] = Follow!Idle]
                 /\ UNCHANGED <<row, lastId>>
                 /\ \/ told' = told
                    \/ /\ handlers[f].stage = "notifying"
                       /\ told' = Append(told, handlers[f].id)
           \/ /\ row' = NoRow /\ UNCHANGED <<lastId, told>>
              /\ handlers' = [d \in Follow!Deliveries |-> Follow!Idle]
  <1>1. ASSUME NEW d \in Follow!Deliveries,
               \/ Follow!Send(d) \/ Follow!Redeliver(d) \/ Follow!Abandon(d)
               \/ Follow!Conflict(d) \/ Follow!Duplicate(d) \/ Follow!Refuse(d)
               \/ Follow!Raise(d)
        PROVE  UNCHANGED <<row, lastId, told, handlers>>
    BY <1>1 DEF Follow!Send, Follow!Redeliver, Follow!Abandon, Follow!Conflict,
                Follow!Duplicate, Follow!Refuse, Follow!Raise
  <1>2. ASSUME NEW f, Follow!Follow(f)
        PROVE  /\ Follow!CreateOrRefresh(f) /\ UNCHANGED told
               /\ handlers' = [handlers EXCEPT ![f] = [stage |-> "accepting", id |-> row'.id]]
    BY <1>2 DEF Follow!Follow
  <1>3. ASSUME NEW u, Follow!Undo(u)
        PROVE  row' = NoRow /\ UNCHANGED <<lastId, told, handlers>>
    BY <1>3 DEF Follow!Undo
  <1>4. ASSUME NEW f, Follow!AcceptClaimed(f)
        PROVE  /\ handlers[f].stage = "accepting" /\ Follow!Claims(handlers[f].id)
               /\ row' = [row EXCEPT !.notice = "attempted"]
               /\ handlers' = [handlers EXCEPT ![f].stage = "notifying"]
               /\ UNCHANGED <<lastId, told>>
    BY <1>4 DEF Follow!AcceptClaimed
  <1>5. ASSUME NEW f, Follow!AcceptDone(f) \/ Follow!AcceptFails(f) \/ Follow!Notified(f)
        PROVE  /\ handlers' = [handlers EXCEPT ![f] = Follow!Idle]
               /\ UNCHANGED <<row, lastId>>
               /\ \/ told' = told
                  \/ /\ handlers[f].stage = "notifying"
                     /\ told' = Append(told, handlers[f].id)
    BY <1>5 DEF Follow!AcceptDone, Follow!AcceptFails, Follow!Notified, Follow!End
  <1>6. ASSUME Follow!BridgeCrash \/ \E d \in Follow!Deliveries : Follow!CrashAfterBegin(d)
        PROVE  /\ row' = NoRow /\ UNCHANGED <<lastId, told>>
               /\ handlers' = [d \in Follow!Deliveries |-> Follow!Idle]
    BY <1>6 DEF Follow!BridgeCrash, Follow!CrashAfterBegin, Follow!Restart
  <1>7. Follow!GatewayCrash => UNCHANGED <<row, lastId, told, handlers>>
    BY DEF Follow!GatewayCrash
  <1> QED
    BY <1>1, <1>2, <1>3, <1>4, <1>5, <1>6, <1>7
    DEF Follow!Next, Follow!Bridge, Follow!Progress

LEMMA HeardStep == HeardInv /\ [Follow!Next]_followVars => HeardInv'
  <1> SUFFICES ASSUME HeardInv, [Follow!Next]_followVars PROVE HeardInv'
    OBVIOUS
  <1>1. /\ lastId \in Nat /\ told \in Seq(Nat) /\ row \in Follow!Rows \cup {NoRow}
        /\ handlers \in [Follow!Deliveries ->
                            [stage : {"idle", "accepting", "notifying"}, id : Nat]]
    BY DEF HeardInv
  <1>2. /\ Follow!Idle \in [stage : {"idle", "accepting", "notifying"}, id : Nat]
        /\ Follow!Idle.stage # "notifying"
    BY DEF Follow!Idle
  <1>3. told' = told => \A id : Heard(id)' = Heard(id)
    BY DEF Heard
  <1>4. CASE UNCHANGED <<row, lastId, told, handlers>>
    BY <1>4 DEF HeardInv, Heard, Tells
  <1>5. ASSUME NEW f \in Follows, Follow!CreateOrRefresh(f), UNCHANGED told,
               handlers' = [handlers EXCEPT ![f] = [stage |-> "accepting", id |-> row'.id]]
        PROVE  HeardInv'
    <2>1. /\ row' \in Follow!Rows /\ row' # NoRow /\ lastId' \in Nat /\ lastId <= lastId'
          /\ row'.id \in Nat /\ row'.id <= lastId'
          /\ \/ row'.id > lastId
             \/ row # NoRow /\ row'.id = row.id /\ row'.notice = row.notice
      <3>1. CASE row = NoRow
        <4>1. /\ row' = [id |-> lastId + 1, follow |-> f, notice |-> "pending"]
              /\ lastId' = lastId + 1
          BY <1>5, <3>1 DEF Follow!CreateOrRefresh
        <4> QED
          BY <1>1, <4>1, FollowFacts DEF Follow!Rows
      <3>2. CASE row # NoRow
        <4>1. row' = [row EXCEPT !.follow = f] /\ lastId' = lastId /\ row \in Follow!Rows
          BY <1>1, <1>5, <3>2 DEF Follow!CreateOrRefresh
        <4> QED
          BY <1>1, <3>2, <4>1, FollowFacts DEF Follow!Rows, HeardInv
      <3> QED
        BY <3>1, <3>2
    <2>2. f \in Follow!Deliveries
      BY FollowFacts
    <2>3. handlers' \in [Follow!Deliveries ->
                            [stage : {"idle", "accepting", "notifying"}, id : Nat]]
      BY <1>1, <1>5, <2>1, <2>2
    <2>4. \A d \in Follow!Deliveries : \A id : Tells(d, id)' => Tells(d, id)
      BY <1>1, <1>5, <2>2 DEF Tells
    <2>5. ASSUME NEW id \in Nat, Heard(id)' \/ \E d \in Follow!Deliveries : Tells(d, id)'
          PROVE  id <= lastId' /\ (row'.id # id \/ row'.notice = "attempted")
      <3>1. id <= lastId /\ (row = NoRow \/ row.id # id \/ row.notice = "attempted")
        BY <1>3, <1>5, <2>4, <2>5 DEF HeardInv
      <3> QED
        BY <1>1, <2>1, <3>1
    <2> QED
      BY <1>1, <1>3, <1>5, <2>1, <2>3, <2>4, <2>5 DEF HeardInv
  <1>6. CASE row' = NoRow /\ UNCHANGED <<lastId, told, handlers>>
    BY <1>6 DEF HeardInv, Heard, Tells
  <1>7. ASSUME NEW f \in Follows,
               handlers[f].stage = "accepting", Follow!Claims(handlers[f].id),
               row' = [row EXCEPT !.notice = "attempted"],
               handlers' = [handlers EXCEPT ![f].stage = "notifying"],
               UNCHANGED <<lastId, told>>
        PROVE  HeardInv'
    <2>1. f \in Follow!Deliveries
      BY FollowFacts
    <2>2. /\ row \in Follow!Rows /\ row # NoRow /\ row.notice = "pending"
          /\ handlers[f].id = row.id /\ row.id \in Nat /\ row.id <= lastId
      BY <1>1, <1>7 DEF Follow!Claims, HeardInv, Follow!Rows
    <2>3. row' \in Follow!Rows /\ row'.id = row.id /\ row'.notice = "attempted"
      BY <1>7, <2>2 DEF Follow!Rows
    <2>4. handlers' \in [Follow!Deliveries ->
                            [stage : {"idle", "accepting", "notifying"}, id : Nat]]
      BY <1>1, <1>7, <2>1
    <2>5. \A d \in Follow!Deliveries : \A id :
             Tells(d, id)' => Tells(d, id) \/ (d = f /\ id = row.id)
      BY <1>1, <1>7, <2>1, <2>2 DEF Tells
    <2>6. ~Heard(row.id) /\ \A d \in Follow!Deliveries : ~Tells(d, row.id)
      BY <2>2, FollowFacts DEF HeardInv
    <2>7. \A id \in Nat : Heard(id)' \/ (\E d \in Follow!Deliveries : Tells(d, id)') =>
             id <= lastId' /\ (row'.id # id \/ row'.notice = "attempted")
      BY <1>3, <1>7, <2>2, <2>3, <2>5 DEF HeardInv
    <2>8. \A d, e \in Follow!Deliveries, id \in Nat : Tells(d, id)' =>
             ~Heard(id)' /\ (Tells(e, id)' => d = e)
      BY <1>3, <1>7, <2>5, <2>6 DEF HeardInv
    <2> QED
      BY <1>1, <1>7, <2>2, <2>3, <2>4, <2>7, <2>8 DEF HeardInv
  <1>8. ASSUME NEW f \in Follows, handlers' = [handlers EXCEPT ![f] = Follow!Idle],
               UNCHANGED <<row, lastId>>,
               \/ told' = told
               \/ handlers[f].stage = "notifying" /\ told' = Append(told, handlers[f].id)
        PROVE  HeardInv'
    <2>1. f \in Follow!Deliveries
      BY FollowFacts
    <2>2. handlers' \in [Follow!Deliveries ->
                            [stage : {"idle", "accepting", "notifying"}, id : Nat]]
      BY <1>1, <1>2, <1>8, <2>1
    <2>3. \A d \in Follow!Deliveries : \A id : Tells(d, id)' => Tells(d, id) /\ d # f
      BY <1>1, <1>2, <1>8, <2>1 DEF Tells
    <2>4. CASE told' = told
      BY <1>3, <1>8, <2>2, <2>3, <2>4 DEF HeardInv
    <2>5. CASE handlers[f].stage = "notifying" /\ told' = Append(told, handlers[f].id)
      <3>1. PICK k \in Nat : k = handlers[f].id
        BY <1>1, <2>1
      <3>2. /\ told' \in Seq(Nat) /\ Len(told') = Len(told) + 1 /\ told'[Len(told) + 1] = k
            /\ \A n \in 1..Len(told) : told'[n] = told[n]
        BY <1>1, <2>5, <3>1, AppendProperties
      <3>3. Tells(f, k)
        BY <2>5, <3>1 DEF Tells
      <3>4. ~Heard(k) /\ \A d \in Follow!Deliveries : Tells(d, k) => d = f
        BY <2>1, <3>3 DEF HeardInv
      <3>5. \A n \in 1..Len(told') : n \in 1..Len(told) \/ n = Len(told) + 1
        BY <1>1, <3>2
      <3>6. \A id : Heard(id)' => Heard(id) \/ id = k
        BY <3>2, <3>5 DEF Heard
      <3>7. \A m, n \in 1..Len(told') : told'[m] = told'[n] => m = n
        BY <3>2, <3>4, <3>5 DEF HeardInv, Heard
      <3>8. \A id \in Nat : (Heard(id)' \/ \E d \in Follow!Deliveries : Tells(d, id)') =>
               id <= lastId' /\ (row' = NoRow \/ row'.id # id \/ row'.notice = "attempted")
        BY <1>8, <2>1, <2>3, <3>3, <3>6 DEF HeardInv
      <3>9. \A d, e \in Follow!Deliveries, id \in Nat : Tells(d, id)' =>
               ~Heard(id)' /\ (Tells(e, id)' => d = e)
        BY <2>3, <3>4, <3>6 DEF HeardInv
      <3> QED
        BY <1>8, <2>2, <3>2, <3>7, <3>8, <3>9 DEF HeardInv
    <2> QED
      BY <1>8, <2>4, <2>5
  <1>9. CASE /\ row' = NoRow /\ UNCHANGED <<lastId, told>>
             /\ handlers' = [d \in Follow!Deliveries |-> Follow!Idle]
    <2>1. \A d \in Follow!Deliveries : \A id : ~Tells(d, id)'
      BY <1>2, <1>9 DEF Tells
    <2>2. handlers' \in [Follow!Deliveries ->
                            [stage : {"idle", "accepting", "notifying"}, id : Nat]]
      BY <1>2, <1>9
    <2> QED
      BY <1>3, <1>9, <2>1, <2>2 DEF HeardInv
  <1>10. CASE UNCHANGED followVars
    BY <1>4, <1>10 DEF followVars
  <1> QED
    BY <1>4, <1>5, <1>6, <1>7, <1>8, <1>9, <1>10, FollowShape

LEMMA FollowStep == FollowInv /\ [Follow!Next]_followVars => FollowInv'
  BY QueueStep, HeardStep DEF FollowInv
-----------------------------------------------------------------------------
(* Remote subscriptions *)

(* What a command awaits it awaits for a channel and a community.          *)
Awaiting == [at : {"follow", "followed", "undo", "undid"}, channel : Channels,
             community : Communities]
Resting == [at : {"ready", "done"}]

(* A failed row has no Follow, and neither has one that a restart cut off  *)
(* from its Follow.                                                        *)
RowsInv ==
    /\ follows \in [Communities -> Subscription!FollowRows \cup {NoRow}]
    /\ subs \in [Channels -> Subscription!SubRows \cup {NoRow}]
    /\ \A m \in Communities : Subscription!Has(m, "failed") => follows[m].follow = NoFollow
    /\ Subscription!RoutedIsFollowed

CallsInv ==
    /\ calls \in [Subscription!Commands -> Awaiting \cup Resting]
    /\ outbox \subseteq Subscription!Commands \X Communities
    /\ accepts \subseteq Subscription!Commands
    /\ remote \subseteq Communities
    /\ denied \subseteq Communities
    /\ undone \subseteq Subscription!Commands
    /\ subFaults \in 0..MaxSubFaults
    /\ subCrashes \in 0..MaxSubCrashes

SubscriptionInv == RowsInv /\ CallsInv

LEMMA SubscriptionFacts ==
    /\ MaxCommands \in Nat /\ MaxSubFaults \in Nat /\ MaxSubCrashes \in Nat
    /\ NoFollow \notin Subscription!Commands
    /\ NoRow \notin Subscription!FollowRows /\ NoRow \notin Subscription!SubRows
  BY BridgingAssumption DEF Subscription!RemoteSubscriptionAssumption, Subscription!Commands

LEMMA CallShapes ==
    /\ [at |-> "done"] \in Awaiting \cup Resting
    /\ \A x \in Awaiting \cup Resting :
          /\ x.at \in {"ready", "follow", "followed", "undo", "undid", "done"}
          /\ x.at \notin {"ready", "done"} => x \in Awaiting
    /\ \A a \in {"follow", "followed", "undo", "undid"} :
          /\ \A ch \in Channels, m \in Communities : Subscription!Call(a, ch, m) \in Awaiting
          /\ \A x \in Awaiting : [x EXCEPT !.at = a] \in Awaiting
  BY DEF Awaiting, Resting, Subscription!Call

LEMMA SubscriptionInit == Subscription!Init => SubscriptionInv
  BY SubscriptionFacts
  DEF Subscription!Init, SubscriptionInv, RowsInv, CallsInv, Resting, Subscription!Has,
      Subscription!RoutedIsFollowed

LEMMA CallsStep == SubscriptionInv /\ [Subscription!Next]_subVars => CallsInv'
  <1> SUFFICES ASSUME SubscriptionInv, [Subscription!Next]_subVars PROVE CallsInv'
    OBVIOUS
  <1>1. /\ CallsInv /\ subs \in [Channels -> Subscription!SubRows \cup {NoRow}]
        /\ follows \in [Communities -> Subscription!FollowRows \cup {NoRow}]
    BY DEF SubscriptionInv, RowsInv
  <1>2. ASSUME NEW m \in Communities
        PROVE  Subscription!FollowIdOf(m) \in Subscription!Commands \cup {NoFollow}
    BY <1>1 DEF Subscription!FollowIdOf, Subscription!FollowRows
  <1>3. ASSUME NEW c \in Subscription!Commands, Subscription!Ends(c)
        PROVE  calls' \in [Subscription!Commands -> Awaiting \cup Resting]
    BY <1>1, <1>3, CallShapes DEF Subscription!Ends, CallsInv
  <1>4. ASSUME NEW c \in Subscription!Commands, NEW ch \in Channels, NEW m \in Communities,
               NEW a \in {"follow", "undo"}, Subscription!Awaits(c, a, ch, m)
        PROVE  calls' \in [Subscription!Commands -> Awaiting \cup Resting]
    BY <1>1, <1>4, CallShapes DEF Subscription!Awaits, CallsInv
  <1>5. ASSUME NEW c \in Subscription!Commands, NEW a \in {"followed", "undid"},
               calls[c].at \in {"follow", "undo"}, calls' = [calls EXCEPT ![c].at = a]
        PROVE  calls' \in [Subscription!Commands -> Awaiting \cup Resting]
    <2>1. calls[c] \in Awaiting
      BY <1>1, <1>5, CallShapes DEF CallsInv
    <2>2. [calls[c] EXCEPT !.at = a] \in Awaiting
      BY <2>1, CallShapes
    <2> QED
      BY <1>1, <1>5, <2>2 DEF CallsInv
  <1>6. ASSUME NEW c \in Subscription!Commands, NEW ch \in Channels, NEW m \in Communities,
               Subscription!SubscribeShared(c, ch, m) \/ Subscription!SubscribeFresh(c, ch, m)
        PROVE  CallsInv'
    BY <1>1, <1>3, <1>4, <1>6
    DEF Subscription!SubscribeShared, Subscription!SubscribeFresh, CallsInv
  <1>7. ASSUME NEW c \in Subscription!Commands, NEW ch \in Channels,
               \/ Subscription!UnsubscribeLocally(c, ch) \/ Subscription!UnsubscribeLast(c, ch)
               \/ Subscription!UnsubscribeRefused(c, ch)
        PROVE  CallsInv'
    <2>1. CASE Subscription!UnsubscribeLocally(c, ch) \/ Subscription!UnsubscribeRefused(c, ch)
      BY <1>1, <1>3, <2>1
      DEF Subscription!UnsubscribeLocally, Subscription!UnsubscribeRefused, CallsInv
    <2>2. CASE Subscription!UnsubscribeLast(c, ch)
      <3>1. PICK m \in Communities : m = subs[ch].community
        BY <1>1, <2>2 DEF Subscription!UnsubscribeLast, Subscription!SubRows
      <3>2. /\ Subscription!FollowIdOf(m) # NoFollow /\ Subscription!Awaits(c, "undo", ch, m)
            /\ undone' = undone \cup {Subscription!FollowIdOf(m)}
            /\ UNCHANGED <<outbox, accepts, remote, denied, subFaults, subCrashes>>
        BY <2>2, <3>1 DEF Subscription!UnsubscribeLast
      <3>3. undone' \subseteq Subscription!Commands
        BY <1>1, <1>2, <3>2 DEF CallsInv
      <3> QED
        BY <1>1, <1>4, <3>2, <3>3 DEF CallsInv
    <2> QED
      BY <1>7, <2>1, <2>2
  <1>8. ASSUME NEW c \in Subscription!Commands, Subscription!Gateway(c)
        PROVE  CallsInv'
    <2>1. CASE Subscription!GatewayFollows(c)
      <3>1. calls[c] \in Awaiting /\ calls[c].community \in Communities
        BY <1>1, <2>1, CallShapes DEF Subscription!GatewayFollows, CallsInv, Awaiting
      <3>2. calls' \in [Subscription!Commands -> Awaiting \cup Resting]
        BY <1>5, <2>1 DEF Subscription!GatewayFollows
      <3> QED
        BY <1>1, <2>1, <3>1, <3>2 DEF Subscription!GatewayFollows, CallsInv
    <2>2. CASE Subscription!GatewayUndoes(c)
      <3>1. calls' \in [Subscription!Commands -> Awaiting \cup Resting]
        BY <1>5, <2>2 DEF Subscription!GatewayUndoes
      <3> QED
        BY <1>1, <2>2, <3>1 DEF Subscription!GatewayUndoes, CallsInv
    <2> QED
      BY <1>8, <2>1, <2>2 DEF Subscription!Gateway
  <1>9. ASSUME NEW c \in Subscription!Commands,
               Subscription!Resume(c) \/ Subscription!FollowFails(c) \/ Subscription!UndoFails(c)
        PROVE  CallsInv'
    <2>1. CASE Subscription!FollowAnswered(c)
      BY <1>1, <1>3, <2>1 DEF Subscription!FollowAnswered, CallsInv
    <2>2. CASE Subscription!UndoAnswered(c)
      <3>1. PICK m \in Communities : m = calls[c].community
        BY <1>1, <2>2, CallShapes DEF Subscription!UndoAnswered, CallsInv, Awaiting
      <3>2. undone' \subseteq Subscription!Commands
        BY <1>1, <1>2, <2>2, <3>1 DEF Subscription!UndoAnswered, CallsInv
      <3> QED
        BY <1>1, <1>3, <2>2, <3>2 DEF Subscription!UndoAnswered, CallsInv
    <2>3. CASE Subscription!FollowFails(c) \/ Subscription!UndoFails(c)
      BY <1>1, <1>3, <2>3, SubscriptionFacts
      DEF Subscription!FollowFails, Subscription!UndoFails, Subscription!Fault, CallsInv
    <2> QED
      BY <1>9, <2>1, <2>2, <2>3 DEF Subscription!Resume
  <1>10. ASSUME NEW c \in Subscription!Commands,
                \/ \E m \in Communities : Subscription!RemoteFollowed(c, m)
                \/ Subscription!HandleAccept(c)
         PROVE  CallsInv'
    BY <1>1, <1>10 DEF Subscription!RemoteFollowed, Subscription!HandleAccept, CallsInv
  <1>11. ASSUME NEW m \in Communities, Subscription!ImplicitAccept(m) \/ Subscription!Deny(m)
         PROVE  CallsInv'
    BY <1>1, <1>11 DEF Subscription!ImplicitAccept, Subscription!Deny, CallsInv
  <1>12. CASE Subscription!BridgeCrash
    <2>1. calls' \in [Subscription!Commands -> Awaiting \cup Resting]
      BY <1>1, <1>12, CallShapes DEF Subscription!BridgeCrash, Subscription!AllEnd, CallsInv
    <2> QED
      BY <1>1, <1>12, <2>1, SubscriptionFacts
      DEF Subscription!BridgeCrash, Subscription!Crash, CallsInv
  <1>13. CASE UNCHANGED subVars
    BY <1>1, <1>13 DEF subVars, CallsInv
  <1> QED
    BY <1>6, <1>7, <1>8, <1>9, <1>10, <1>11, <1>12, <1>13 DEF Subscription!Next

(* The row of a channel does not wait or route without its Follow's.       *)
Backed(ch) ==
    \/ subs[ch] = NoRow
    \/ subs[ch].follow = NoFollow
    \/ subs[ch].follow \in undone
    \/ follows[subs[ch].community] = [status |-> subs[ch].status, follow |-> subs[ch].follow]

LEMMA RowsFacts ==
    /\ Subscription!RoutedIsFollowed <=> \A ch \in Channels : Backed(ch)
    /\ RowsInv => \A m \in Communities : follows[m] # NoRow =>
          /\ follows[m] \in Subscription!FollowRows
          /\ follows[m] = [status |-> follows[m].status, follow |-> follows[m].follow]
    /\ RowsInv => \A ch \in Channels : subs[ch] # NoRow =>
          subs[ch] \in Subscription!SubRows /\ subs[ch].community \in Communities
    /\ \A r, t : /\ [status |-> r, follow |-> t].status = r
                 /\ [status |-> r, follow |-> t].follow = t
  BY DEF Subscription!RoutedIsFollowed, Backed, RowsInv, Subscription!FollowRows,
         Subscription!SubRows

(* The rows of a command whose Follow was sent, or failed.                 *)
LEMMA StoreKeepsRows ==
    ASSUME SubscriptionInv, NEW c \in Subscription!Commands, UNCHANGED undone,
           calls[c].at \in {"follow", "followed"},
           Subscription!Store(c, "pending", c) \/ Subscription!Store(c, "failed", NoFollow)
    PROVE  RowsInv'
  <1>1. PICK r, t, ch, m : /\ (r = "pending" /\ t = c) \/ (r = "failed" /\ t = NoFollow)
                           /\ Subscription!Store(c, r, t)
                           /\ ch = calls[c].channel /\ m = calls[c].community
    OBVIOUS
  <1>2. ch \in Channels /\ m \in Communities
    BY <1>1, CallShapes DEF SubscriptionInv, CallsInv, Awaiting
  <1>3. RowsInv /\ r \in Subscription!Statuses /\ t \in Subscription!Commands \cup {NoFollow}
    BY <1>1 DEF SubscriptionInv, Subscription!Statuses
  <1>4. CASE follows[m] # NoRow
    <2>1. UNCHANGED <<follows, subs>>
      BY <1>1, <1>4 DEF Subscription!Store
    <2> QED
      BY <1>3, <2>1
      DEF RowsInv, Subscription!Has, Subscription!RoutedIsFollowed
  <1>5. CASE follows[m] = NoRow
    <2> DEFINE new == [status |-> r, follow |-> t]
               mine == [community |-> m, status |-> r, follow |-> t]
    <2>1. /\ follows' = [follows EXCEPT ![m] = new]
          /\ subs' = IF subs[ch] # NoRow THEN subs ELSE [subs EXCEPT ![ch] = mine]
      BY <1>1, <1>5 DEF Subscription!Store
    <2>2. /\ new \in Subscription!FollowRows /\ new.status = r /\ new.follow = t
          /\ mine \in Subscription!SubRows /\ mine.community = m /\ mine.status = r
          /\ mine.follow = t
      BY <1>2, <1>3 DEF Subscription!FollowRows, Subscription!SubRows
    <2> HIDE DEF mine
    <2>3. /\ follows' \in [Communities -> Subscription!FollowRows \cup {NoRow}]
          /\ follows'[m] = new /\ \A n \in Communities \ {m} : follows'[n] = follows[n]
      BY <1>2, <1>3, <2>1, <2>2 DEF RowsInv
    <2>4. /\ subs' \in [Channels -> Subscription!SubRows \cup {NoRow}]
          /\ \A e \in Channels : subs'[e] = subs[e] \/ (e = ch /\ subs'[e] = mine)
      BY <1>2, <1>3, <2>1, <2>2 DEF RowsInv
    <2>5. \A n \in Communities : Subscription!Has(n, "failed")' => follows'[n].follow = NoFollow
      BY <1>1, <1>3, <2>2, <2>3 DEF RowsInv, Subscription!Has
    <2>6. ASSUME NEW e \in Channels PROVE Backed(e)'
      <3>1. CASE e = ch /\ subs'[e] = mine
        BY <2>2, <2>3, <3>1 DEF Backed
      <3>2. CASE subs'[e] = subs[e] /\ subs[e] # NoRow
        <4>1. PICK n \in Communities : n = subs[e].community
          BY <1>3, <3>2, RowsFacts
        <4>2. CASE n = m
          <5>1. Backed(e) /\ subs[e] \in Subscription!SubRows
            BY <1>3, <3>2, RowsFacts DEF RowsInv
          <5>2. [status |-> subs[e].status, follow |-> subs[e].follow]
                   \in Subscription!FollowRows
            BY <5>1 DEF Subscription!SubRows, Subscription!FollowRows
          <5> QED
            BY <1>5, <3>2, <4>1, <4>2, <5>1, <5>2, SubscriptionFacts DEF Backed
        <4>3. CASE n # m
          BY <1>3, <2>3, <3>2, <4>1, <4>3, RowsFacts DEF Backed, RowsInv
        <4> QED
          BY <4>2, <4>3
      <3> QED
        BY <2>4, <3>1, <3>2 DEF Backed
    <2> QED
      BY <2>3, <2>4, <2>5, <2>6, RowsFacts DEF RowsInv, Subscription!RoutedIsFollowed, Backed
  <1> QED
    BY <1>4, <1>5

(* An Accept finds the row and every channel that waits with it.           *)
LEMMA ActivateKeepsRows ==
    ASSUME RowsInv, NEW m \in Communities, Subscription!Has(m, "pending"),
           Subscription!Activate(m), UNCHANGED undone
    PROVE  RowsInv'
  <1>1. PICK t : follows[m].follow = t /\ follows[m].status = "pending"
    BY DEF Subscription!Has
  <1>2. follows[m] \in Subscription!FollowRows
    BY RowsFacts DEF Subscription!Has
  <1>3. /\ follows'[m] = [status |-> "accepted", follow |-> t]
        /\ follows'[m] \in Subscription!FollowRows
        /\ follows' \in [Communities -> Subscription!FollowRows \cup {NoRow}]
        /\ \A n \in Communities \ {m} : follows'[n] = follows[n]
    BY <1>1, <1>2 DEF Subscription!Activate, RowsInv, Subscription!FollowRows,
                      Subscription!Statuses
  <1>4. ASSUME NEW e \in Channels, subs[e] # NoRow
        PROVE  /\ subs'[e] \in Subscription!SubRows
               /\ subs'[e].community = subs[e].community /\ subs'[e].follow = subs[e].follow
               /\ subs'[e].status = IF subs[e].community = m /\ subs[e].status = "pending"
                                    THEN "accepted" ELSE subs[e].status
    BY <1>4, RowsFacts
    DEF Subscription!Activate, Subscription!Subscribers, Subscription!SubRows,
        Subscription!Statuses
  <1>5. \A e \in Channels : subs[e] = NoRow => subs'[e] = NoRow
    BY DEF Subscription!Activate, Subscription!Subscribers
  <1>6. subs' \in [Channels -> Subscription!SubRows \cup {NoRow}]
    <2>1. subs' = [e \in Channels |-> subs'[e]]
      BY DEF Subscription!Activate
    <2> QED
      BY <1>4, <1>5, <2>1
  <1>7. ASSUME NEW e \in Channels PROVE Backed(e)'
    <2>1. Backed(e)
      BY RowsFacts DEF RowsInv
    <2>2. CASE subs[e] = NoRow
      BY <1>5, <2>2 DEF Backed
    <2>3. CASE subs[e] # NoRow /\ subs[e].community # m
      <3>1. subs[e].community \in Communities \ {m} /\ subs'[e].status = subs[e].status
        BY <1>4, <2>3, RowsFacts
      <3> QED
        BY <1>3, <1>4, <2>1, <2>3, <3>1 DEF Backed
    <2>4. CASE subs[e] # NoRow /\ subs[e].community = m
      <3>1. \/ subs[e].follow = NoFollow \/ subs[e].follow \in undone
            \/ subs[e].status = "pending" /\ subs[e].follow = t
        BY <1>1, <2>1, <2>4, RowsFacts DEF Backed
      <3> QED
        BY <1>3, <1>4, <2>4, <3>1 DEF Backed
    <2> QED
      BY <2>2, <2>3, <2>4
  <1>8. \A n \in Communities : Subscription!Has(n, "failed")' => follows'[n].follow = NoFollow
    BY <1>3 DEF RowsInv, Subscription!Has
  <1> QED
    BY <1>3, <1>6, <1>7, <1>8, RowsFacts DEF RowsInv, Subscription!RoutedIsFollowed, Backed

(* A channel's row goes, or shares the row there is.                       *)
LEMMA ChannelKeepsRows ==
    ASSUME RowsInv, NEW ch \in Channels, undone \subseteq undone', UNCHANGED follows,
           \/ subs' = [subs EXCEPT ![ch] = NoRow]
           \/ \E m \in Communities :
                 /\ follows[m] # NoRow
                 /\ subs' = [subs EXCEPT ![ch] = [community |-> m, status |-> follows[m].status,
                                                  follow |-> follows[m].follow]]
    PROVE  RowsInv'
  <1>1. ASSUME NEW x \in Subscription!SubRows \cup {NoRow}, subs' = [subs EXCEPT ![ch] = x]
        PROVE  /\ subs' \in [Channels -> Subscription!SubRows \cup {NoRow}] /\ subs'[ch] = x
               /\ \A e \in Channels \ {ch} : Backed(e)'
    BY <1>1, RowsFacts DEF RowsInv, Backed
  <1>2. CASE subs' = [subs EXCEPT ![ch] = NoRow]
    <2>1. Backed(ch)'
      BY <1>1, <1>2 DEF Backed
    <2> QED
      BY <1>1, <1>2, <2>1, RowsFacts
      DEF RowsInv, Subscription!RoutedIsFollowed, Backed, Subscription!Has
  <1>3. ASSUME NEW m \in Communities, NEW x, follows[m] # NoRow,
               x = [community |-> m, status |-> follows[m].status, follow |-> follows[m].follow],
               subs' = [subs EXCEPT ![ch] = x]
        PROVE  RowsInv'
    <2>1. follows[m] \in Subscription!FollowRows
      BY <1>3, RowsFacts
    <2>2. /\ x \in Subscription!SubRows /\ x.community = m
          /\ x.status = follows[m].status /\ x.follow = follows[m].follow
      BY <1>3, <2>1 DEF Subscription!FollowRows, Subscription!SubRows
    <2>3. Backed(ch)'
      BY <1>1, <1>3, <2>2, RowsFacts DEF Backed
    <2> QED
      BY <1>1, <1>3, <2>2, <2>3, RowsFacts
      DEF RowsInv, Subscription!RoutedIsFollowed, Backed, Subscription!Has
  <1> QED
    BY <1>2, <1>3

(* The Follow of a community goes: it failed, or an Undo crossed it.       *)
LEMMA ForgetKeepsRows ==
    ASSUME RowsInv, NEW m \in Communities, follows' = [follows EXCEPT ![m] = NoRow],
           undone \subseteq undone',
           \A e \in Channels : subs'[e] = subs[e] \/ subs'[e] = NoRow,
           subs' \in [Channels -> Subscription!SubRows \cup {NoRow}],
           follows[m] # NoRow => \/ follows[m].follow = NoFollow
                                 \/ follows[m].follow \in undone'
    PROVE  RowsInv'
  <1>1. /\ follows' \in [Communities -> Subscription!FollowRows \cup {NoRow}]
        /\ follows'[m] = NoRow /\ \A n \in Communities \ {m} : follows'[n] = follows[n]
    BY DEF RowsInv
  <1>2. ASSUME NEW e \in Channels PROVE Backed(e)'
    <2>1. CASE subs'[e] = NoRow
      BY <2>1 DEF Backed
    <2>2. CASE subs'[e] = subs[e] /\ subs[e] # NoRow
      <3>1. PICK n \in Communities : n = subs[e].community
        BY <2>2, RowsFacts
      <3>2. Backed(e) /\ subs[e] \in Subscription!SubRows
        BY <2>2, RowsFacts DEF RowsInv
      <3>3. CASE n = m
        <4>1. [status |-> subs[e].status, follow |-> subs[e].follow] \in Subscription!FollowRows
          BY <3>2 DEF Subscription!SubRows, Subscription!FollowRows
        <4>2. \/ subs[e].follow = NoFollow \/ subs[e].follow \in undone
              \/ follows[m] # NoRow /\ follows[m].follow = subs[e].follow
          BY <2>2, <3>1, <3>2, <3>3, <4>1, SubscriptionFacts, RowsFacts DEF Backed
        <4> QED
          BY <2>2, <4>2 DEF Backed
      <3>4. CASE n # m
        BY <1>1, <2>2, <3>1, <3>2, <3>4 DEF Backed
      <3> QED
        BY <3>3, <3>4
    <2> QED
      BY <2>1, <2>2
  <1>3. \A n \in Communities : Subscription!Has(n, "failed")' => follows'[n].follow = NoFollow
    BY <1>1 DEF RowsInv, Subscription!Has
  <1> QED
    BY <1>1, <1>2, <1>3, RowsFacts DEF RowsInv, Subscription!RoutedIsFollowed, Backed

LEMMA RowsStep == SubscriptionInv /\ [Subscription!Next]_subVars => RowsInv'
  <1> SUFFICES ASSUME SubscriptionInv, [Subscription!Next]_subVars PROVE RowsInv'
    OBVIOUS
  <1>1. RowsInv /\ CallsInv
    BY DEF SubscriptionInv
  <1>2. ASSUME UNCHANGED <<follows, subs>>, undone \subseteq undone'
        PROVE  RowsInv'
    BY <1>1, <1>2, RowsFacts DEF RowsInv, Subscription!Has, Subscription!RoutedIsFollowed
  <1>3. ASSUME NEW c \in Subscription!Commands, NEW ch \in Channels, NEW m \in Communities,
               Subscription!SubscribeShared(c, ch, m)
        PROVE  RowsInv'
    BY <1>1, <1>3, ChannelKeepsRows DEF Subscription!SubscribeShared, Subscription!Has
  <1>4. ASSUME NEW c \in Subscription!Commands, NEW ch \in Channels, NEW m \in Communities,
               Subscription!SubscribeFresh(c, ch, m)
        PROVE  RowsInv'
    <2>1. /\ follows' = [follows EXCEPT ![m] = NoRow] /\ subs' = [subs EXCEPT ![ch] = NoRow]
          /\ undone' = undone /\ (follows[m] = NoRow \/ Subscription!Has(m, "failed"))
      BY <1>4 DEF Subscription!SubscribeFresh
    <2>2. /\ subs' \in [Channels -> Subscription!SubRows \cup {NoRow}]
          /\ \A e \in Channels : subs'[e] = subs[e] \/ subs'[e] = NoRow
      BY <1>1, <2>1 DEF RowsInv
    <2>3. follows[m] # NoRow => follows[m].follow = NoFollow
      BY <1>1, <2>1 DEF RowsInv
    <2> QED
      BY <1>1, <2>1, <2>2, <2>3, ForgetKeepsRows
  <1>5. ASSUME NEW c \in Subscription!Commands, NEW ch \in Channels,
               \/ Subscription!UnsubscribeLocally(c, ch) \/ Subscription!UnsubscribeLast(c, ch)
               \/ Subscription!UnsubscribeRefused(c, ch)
        PROVE  RowsInv'
    BY <1>1, <1>2, <1>5, ChannelKeepsRows
    DEF Subscription!UnsubscribeLocally, Subscription!UnsubscribeLast,
        Subscription!UnsubscribeRefused
  <1>6. ASSUME NEW c \in Subscription!Commands,
               \/ Subscription!Gateway(c) \/ Subscription!UndoFails(c)
               \/ \E m \in Communities : Subscription!RemoteFollowed(c, m)
        PROVE  RowsInv'
    BY <1>2, <1>6
    DEF Subscription!Gateway, Subscription!GatewayFollows, Subscription!GatewayUndoes,
        Subscription!UndoFails, Subscription!RemoteFollowed
  <1>7. ASSUME NEW c \in Subscription!Commands,
               Subscription!FollowAnswered(c) \/ Subscription!FollowFails(c)
        PROVE  RowsInv'
    BY <1>7, StoreKeepsRows DEF Subscription!FollowAnswered, Subscription!FollowFails
  <1>8. ASSUME NEW c \in Subscription!Commands, Subscription!UndoAnswered(c)
        PROVE  RowsInv'
    <2>1. PICK m \in Communities : m = calls[c].community
      BY <1>1, <1>8, CallShapes DEF Subscription!UndoAnswered, CallsInv, Awaiting
    <2>2. /\ follows' = [follows EXCEPT ![m] = NoRow] /\ UNCHANGED subs
          /\ undone' = undone \cup ({Subscription!FollowIdOf(m)} \ {NoFollow})
      BY <1>8, <2>1 DEF Subscription!UndoAnswered
    <2>3. follows[m] # NoRow => follows[m].follow = NoFollow \/ follows[m].follow \in undone'
      BY <2>2 DEF Subscription!FollowIdOf
    <2> QED
      BY <1>1, <2>2, <2>3, ForgetKeepsRows DEF RowsInv
  <1>9. ASSUME NEW c \in Subscription!Commands, Subscription!HandleAccept(c)
        PROVE  RowsInv'
    BY <1>1, <1>2, <1>9, ActivateKeepsRows DEF Subscription!HandleAccept
  <1>10. ASSUME NEW m \in Communities, Subscription!ImplicitAccept(m) \/ Subscription!Deny(m)
         PROVE  RowsInv'
    BY <1>1, <1>2, <1>10, ActivateKeepsRows
    DEF Subscription!ImplicitAccept, Subscription!Deny
  <1>11. CASE Subscription!BridgeCrash
    <2>1. /\ follows' = [m \in Communities |-> NoRow]
          /\ subs' = [ch \in Channels |->
                IF subs[ch] = NoRow THEN NoRow
                ELSE [subs[ch] EXCEPT !.status = "pending", !.follow = NoFollow]]
      BY <1>11 DEF Subscription!BridgeCrash, Subscription!Restart
    <2>2. ASSUME NEW ch \in Channels, subs[ch] # NoRow
          PROVE  subs'[ch] \in Subscription!SubRows /\ subs'[ch].follow = NoFollow
      BY <1>1, <2>1, <2>2, RowsFacts DEF Subscription!SubRows, Subscription!Statuses
    <2>3. subs' \in [Channels -> Subscription!SubRows \cup {NoRow}]
      BY <2>1, <2>2
    <2>4. \A ch \in Channels : Backed(ch)'
      BY <2>1, <2>2 DEF Backed
    <2> QED
      BY <2>1, <2>3, <2>4, RowsFacts
      DEF RowsInv, Subscription!Has, Subscription!RoutedIsFollowed, Backed
  <1>12. CASE UNCHANGED subVars
    BY <1>2, <1>12 DEF subVars
  <1> QED
    BY <1>3, <1>4, <1>5, <1>6, <1>7, <1>8, <1>9, <1>10, <1>11, <1>12
    DEF Subscription!Next, Subscription!Resume

LEMMA SubscriptionStep == SubscriptionInv /\ [Subscription!Next]_subVars => SubscriptionInv'
  BY CallsStep, RowsStep DEF SubscriptionInv
-----------------------------------------------------------------------------
(* The sync of a remote community *)

Shows == Sync!Ops \cup {"none"}
GroupRows == [thread : Nat, shown : [Channels -> Shows]]
Stages == {"idle", "waiting", "fetching", "filling", "copying", "publishing", "mirroring",
           "changing"}
JobRows == [at : Stages, group : Nat, todo : SUBSET Channels, sent : SUBSET Channels]
Outcomes == {"none", "in_progress", "processed", "skipped", "deferred", "failed"}

(* The handlers of creates and of changes are never taken for each other,  *)
(* nor those of remote and of members' messages; whoever makes copies has  *)
(* made the group they are recorded in.                                    *)
Fit(d) ==
    /\ jobs[d].at \notin {"idle", "changing"} => d[1] = "create"
    /\ jobs[d].at = "changing" => d[1] # "create"
    /\ jobs[d].at \in {"waiting", "fetching", "filling", "copying"} => source[d[2]] = Remote
    /\ jobs[d].at \in {"publishing", "mirroring"} => source[d[2]] # Remote
    /\ jobs[d].at # "idle" => status[d] # "none"
    /\ jobs[d].at \in {"copying", "mirroring"} => Sync!Known(d[2])

SyncTypes ==
    /\ source \in [Sync!Objects -> {Remote} \cup Channels]
    /\ members \in [Channels -> {"none", "pending", "stale", "accepted"}]
    /\ groups \in [Sync!Objects -> Seq(GroupRows)]
    /\ made \in [Sync!Objects -> [Channels -> Nat]]
    /\ jobs \in [SyncDeliveries -> JobRows]
    /\ status \in [SyncDeliveries -> Outcomes]
    /\ syncChurn \in Nat /\ syncFaults \in Nat /\ syncBroken \in Nat /\ syncCrashes \in Nat

SyncBase == SyncTypes /\ \A d \in SyncDeliveries : Fit(d)

LEMMA SyncFacts ==
    /\ Post \notin Comments /\ Remote \notin Channels /\ IsFiniteSet(SyncDeliveries)
    /\ \A d \in SyncDeliveries : d[1] \in Sync!Ops /\ d[2] \in Sync!Objects
    /\ Post \in Sync!Objects /\ Comments \subseteq Sync!Objects
    /\ "none" \notin Sync!Ops /\ "create" \in Sync!Ops
    /\ Sync!Idle \in JobRows /\ Sync!Idle.at = "idle"
    /\ Sync!Blank \in [Channels -> Shows]
  <1>1. SyncDeliveries \subseteq Sync!Ops \X Sync!Objects \X Nat
    BY BridgingAssumption DEF Sync!CommunitySyncAssumption
  <1>2. \A d \in SyncDeliveries : d[1] \in Sync!Ops /\ d[2] \in Sync!Objects
    BY <1>1
  <1>3. Sync!Idle \in JobRows /\ Sync!Idle.at = "idle"
    BY DEF Sync!Idle, JobRows, Stages
  <1>4. Post \notin Comments /\ Remote \notin Channels /\ IsFiniteSet(SyncDeliveries)
    BY BridgingAssumption DEF Sync!CommunitySyncAssumption, Sync!IsFiniteSet, IsFiniteSet
  <1>5. /\ Post \in Sync!Objects /\ Comments \subseteq Sync!Objects
        /\ "none" \notin Sync!Ops /\ "create" \in Sync!Ops
    BY DEF Sync!Objects, Sync!Ops
  <1>6. Sync!Blank \in [Channels -> Shows]
    BY DEF Sync!Blank, Shows
  <1> QED
    BY <1>2, <1>3, <1>4, <1>5, <1>6

LEMMA AtShape ==
    ASSUME NEW a \in Stages, NEW g \in Nat, NEW T \in SUBSET Channels
    PROVE  /\ Sync!At(a, g, T) \in JobRows /\ Sync!At(a, g, T).at = a
           /\ Sync!At(a, g, T).group = g /\ Sync!At(a, g, T).todo = T
  BY DEF Sync!At, Sync!Idle, JobRows, Stages

LEMMA DoneShape ==
    ASSUME SyncTypes, NEW d \in SyncDeliveries, NEW ch
    PROVE  /\ Sync!Done(d, ch) \in JobRows /\ Sync!Done(d, ch).at = jobs[d].at
           /\ Sync!Done(d, ch).group = jobs[d].group
           /\ Sync!Done(d, ch).todo = jobs[d].todo \ {ch}
  BY DEF Sync!Done, SyncTypes, JobRows

(* The handler of d moves to j and its outcome to s; no other does.        *)
OnlyMoves(d, j, s) ==
    /\ jobs' \in [SyncDeliveries -> JobRows] /\ jobs'[d] = j
    /\ status' \in [SyncDeliveries -> Outcomes] /\ status'[d] = s
    /\ \A e \in SyncDeliveries \ {d} : jobs'[e] = jobs[e] /\ status'[e] = status[e]

LEMMA JobMoves ==
    ASSUME SyncTypes, NEW d \in SyncDeliveries, NEW j \in JobRows
    PROVE  /\ Sync!Start(d, j) => OnlyMoves(d, j, "in_progress")
           /\ Sync!Moves(d, j) => OnlyMoves(d, j, status[d])
           /\ \A s \in Outcomes : Sync!Finish(d, s) => OnlyMoves(d, Sync!Idle, s)
  <1>1. Sync!Start(d, j) => OnlyMoves(d, j, "in_progress")
    BY DEF Sync!Start, SyncTypes, Outcomes, OnlyMoves
  <1>2. Sync!Moves(d, j) => OnlyMoves(d, j, status[d])
    BY DEF Sync!Moves, SyncTypes, OnlyMoves
  <1>3. \A s \in Outcomes : Sync!Finish(d, s) => OnlyMoves(d, Sync!Idle, s)
    BY SyncFacts DEF Sync!Finish, SyncTypes, OnlyMoves
  <1> QED
    BY <1>1, <1>2, <1>3

(* Groups and what they show are never taken back.                         *)
GroupsGrow ==
    /\ groups' \in [Sync!Objects -> Seq(GroupRows)]
    /\ \A o \in Sync!Objects : Sync!Known(o) =>
          Sync!Known(o)' /\ Sync!Shown(o, 1) \subseteq Sync!Shown(o, 1)'

LEMMA KnownShape ==
    ASSUME SyncTypes, NEW o \in Sync!Objects
    PROVE  /\ Sync!Known(o) <=> 1 \in 1..Len(groups[o])
           /\ groups[o] \in Seq(GroupRows) /\ Len(groups[o]) \in Nat
  BY DEF SyncTypes, Sync!Known

LEMMA NewGroup ==
    ASSUME SyncTypes, NEW o \in Sync!Objects, NEW t \in Nat, NEW m \in [Channels -> Shows],
           \/ groups' = [groups EXCEPT ![o] = Append(groups[o], Sync!Group(t, m))]
           \/ groups[o] = <<>> /\ groups' = [groups EXCEPT ![o] = <<Sync!Group(t, m)>>]
    PROVE  GroupsGrow /\ Sync!Known(o)'
  <1> DEFINE new == Sync!Group(t, m)
  <1>1. new \in GroupRows
    BY DEF Sync!Group, GroupRows
  <1> HIDE DEF new
  <1>2. groups[o] \in Seq(GroupRows) /\ DOMAIN groups = Sync!Objects
    BY DEF SyncTypes
  <1>3. /\ groups'[o] \in Seq(GroupRows) /\ Len(groups'[o]) = Len(groups[o]) + 1
        /\ \A i \in 1..Len(groups[o]) : groups'[o][i] = groups[o][i]
    <2>1. CASE groups' = [groups EXCEPT ![o] = Append(groups[o], new)]
      BY <1>1, <1>2, <2>1, AppendProperties
    <2>2. CASE groups[o] = <<>> /\ groups' = [groups EXCEPT ![o] = <<new>>]
      BY <1>1, <1>2, <2>2
    <2> QED
      BY <2>1, <2>2 DEF new
  <1>4. \A p \in Sync!Objects \ {o} : groups'[p] = groups[p]
    BY <1>2
  <1>5. groups' \in [Sync!Objects -> Seq(GroupRows)]
    BY <1>2, <1>3, <1>4 DEF SyncTypes
  <1>6. ASSUME NEW p \in Sync!Objects, Sync!Known(p)
        PROVE  Sync!Known(p)' /\ Sync!Shown(p, 1) \subseteq Sync!Shown(p, 1)'
    <2>1. 1 \in 1..Len(groups[p]) /\ groups'[p][1] = groups[p][1]
      BY <1>3, <1>4, <1>6, KnownShape
    <2>2. groups'[p] # <<>>
      BY <1>2, <1>3, <1>4, <1>6 DEF Sync!Known
    <2> QED
      BY <2>1, <2>2 DEF Sync!Known, Sync!Shown
  <1>7. Sync!Known(o)'
    BY <1>2, <1>3 DEF Sync!Known
  <1> QED
    BY <1>5, <1>6, <1>7 DEF GroupsGrow

(* Rows are recorded in a group: what it showed it shows.                  *)
Records(o, g, f) == groups' = [groups EXCEPT ![o][g].shown = f]
RecordsOne(o, g, ch, v) == groups' = [groups EXCEPT ![o][g].shown[ch] = v]

LEMMA RecordedRows ==
    ASSUME SyncTypes, NEW o \in Sync!Objects, NEW g, NEW f, Records(o, g, f),
           g \in 1..Len(groups[o]) =>
              /\ f \in [Channels -> Shows]
              /\ \A ch \in Channels : f[ch] = groups[o][g].shown[ch] \/ f[ch] # "none"
    PROVE  GroupsGrow /\ (g \in 1..Len(groups[o]) => groups'[o][g].shown = f)
  <1> DEFINE new == [groups[o][g] EXCEPT !.shown = f]
  <1>1. /\ groups' = [groups EXCEPT ![o] = [groups[o] EXCEPT ![g] = new]]
        /\ groups[o] \in Seq(GroupRows) /\ DOMAIN groups = Sync!Objects
    BY DEF SyncTypes, Records
  <1>2. \A p \in Sync!Objects \ {o} : groups'[p] = groups[p]
    BY <1>1
  <1>3. CASE g \notin 1..Len(groups[o])
    <2>1. groups'[o] = groups[o]
      BY <1>1, <1>3
    <2>2. groups' = groups
      BY <1>1, <1>2, <2>1 DEF SyncTypes
    <2> QED
      BY <1>3, <2>2 DEF GroupsGrow, Sync!Known, Sync!Shown, SyncTypes
  <1>4. CASE g \in 1..Len(groups[o])
    <2>1. groups[o][g] \in GroupRows
      BY <1>1, <1>4
    <2>2. new \in GroupRows /\ new.shown = f
      BY <1>4, <2>1 DEF GroupRows
    <2> HIDE DEF new
    <2>3. /\ groups'[o] \in Seq(GroupRows) /\ Len(groups'[o]) = Len(groups[o])
          /\ groups'[o][g] = new
          /\ \A i \in 1..Len(groups[o]) : i # g => groups'[o][i] = groups[o][i]
      BY <1>1, <1>4, <2>2, ExceptSeq
    <2>4. groups' \in [Sync!Objects -> Seq(GroupRows)]
      BY <1>1, <1>2, <2>3 DEF SyncTypes
    <2>5. ASSUME NEW p \in Sync!Objects, Sync!Known(p)
          PROVE  Sync!Known(p)' /\ Sync!Shown(p, 1) \subseteq Sync!Shown(p, 1)'
      <3>1. CASE p # o
        BY <1>2, <2>5, <3>1 DEF Sync!Known, Sync!Shown
      <3>2. CASE p = o
        <4>1. 1 \in 1..Len(groups[o]) /\ Sync!Known(o)'
          BY <1>1, <2>3, <2>5, <3>2, KnownShape DEF Sync!Known
        <4>2. Sync!Shown(o, 1) \subseteq Sync!Shown(o, 1)'
          BY <1>4, <2>2, <2>3, <4>1 DEF Sync!Shown
        <4> QED
          BY <3>2, <4>1, <4>2
      <3> QED
        BY <3>1, <3>2
    <2> QED
      BY <2>2, <2>3, <2>4, <2>5 DEF GroupsGrow
  <1> QED
    BY <1>3, <1>4

LEMMA SameGroups == SyncTypes /\ UNCHANGED groups => GroupsGrow
  BY DEF SyncTypes, GroupsGrow, Sync!Known, Sync!Shown

(* A copy more is a copy more of one object in one channel.                *)
LEMMA MakeShape ==
    ASSUME SyncTypes, NEW o \in Sync!Objects, NEW ch \in Channels, Sync!Make(o, ch)
    PROVE  /\ made' \in [Sync!Objects -> [Channels -> Nat]]
           /\ made'[o][ch] = made[o][ch] + 1
           /\ \A p \in Sync!Objects, e \in Channels :
                 p # o \/ e # ch => made'[p][e] = made[p][e]
  BY DEF SyncTypes, Sync!Make

LEMMA PromotedShape ==
    SyncTypes => /\ Sync!Promoted \in [Channels -> {"none", "pending", "stale", "accepted"}]
                 /\ Sync!Activated \in [Channels -> {"none", "pending", "stale", "accepted"}]
  BY DEF SyncTypes, Sync!Promoted, Sync!Activated

(* One handler moves, and what it does keeps the types: it still fits.     *)
LEMMA BaseMoves ==
    ASSUME SyncBase, NEW d \in SyncDeliveries, NEW j \in JobRows, NEW s \in Outcomes,
           OnlyMoves(d, j, s), GroupsGrow, UNCHANGED source,
           members' \in [Channels -> {"none", "pending", "stale", "accepted"}],
           made' \in [Sync!Objects -> [Channels -> Nat]],
           syncChurn' \in Nat, syncFaults' \in Nat, syncBroken' \in Nat, syncCrashes' \in Nat,
           /\ j.at \notin {"idle", "changing"} => d[1] = "create"
           /\ j.at = "changing" => d[1] # "create"
           /\ j.at \in {"waiting", "fetching", "filling", "copying"} => source[d[2]] = Remote
           /\ j.at \in {"publishing", "mirroring"} => source[d[2]] # Remote
           /\ j.at # "idle" => s # "none"
           /\ j.at \in {"copying", "mirroring"} => Sync!Known(d[2])'
    PROVE  SyncBase'
  <1>1. SyncTypes'
    BY DEF SyncBase, SyncTypes, OnlyMoves, GroupsGrow
  <1>2. Fit(d)'
    BY DEF Fit, OnlyMoves
  <1>3. ASSUME NEW e \in SyncDeliveries, e # d
        PROVE  Fit(e)'
    <2>1. Fit(e) /\ jobs'[e] = jobs[e] /\ status'[e] = status[e]
      BY <1>3 DEF SyncBase, OnlyMoves
    <2>2. Sync!Known(e[2]) => Sync!Known(e[2])'
      BY SyncFacts DEF GroupsGrow
    <2> QED
      BY <2>1, <2>2 DEF Fit
  <1> QED
    BY <1>1, <1>2, <1>3 DEF SyncBase

LEMMA ReceiveKeepsBase ==
    ASSUME SyncBase, NEW d \in SyncDeliveries, Sync!Receive(d)
    PROVE  SyncBase' /\ GroupsGrow
  <1>1. SyncTypes
    BY DEF SyncBase
  <1>2. Sync!Idle \in JobRows /\ Sync!Idle.at = "idle" /\ d[2] \in Sync!Objects
    BY SyncFacts
  <1>3. "skipped" \in Outcomes /\ "in_progress" \in Outcomes
    BY DEF Outcomes
  <1>4. ASSUME Sync!InboundCreate(d),
               UNCHANGED <<source, groups, made, syncChurn, syncFaults, syncBroken, syncCrashes>>
        PROVE  /\ Sync!Finish(d, "skipped") => SyncBase' /\ GroupsGrow
               /\ \A a \in {"waiting", "fetching"}, g \in Nat, T \in SUBSET Channels :
                     Sync!Start(d, Sync!At(a, g, T)) => SyncBase' /\ GroupsGrow
    <2>1. /\ members' \in [Channels -> {"none", "pending", "stale", "accepted"}]
          /\ made' \in [Sync!Objects -> [Channels -> Nat]]
          /\ syncChurn' \in Nat /\ syncFaults' \in Nat /\ syncBroken' \in Nat
          /\ syncCrashes' \in Nat
      BY <1>1, <1>4, PromotedShape DEF Sync!InboundCreate, Sync!Promote, SyncTypes
    <2>2. d[1] = "create" /\ source[d[2]] = Remote /\ GroupsGrow
      BY <1>1, <1>4, SameGroups DEF Sync!InboundCreate, Sync!FromRemote
    <2>3. Sync!Finish(d, "skipped") => SyncBase' /\ GroupsGrow
      BY <1>1, <1>2, <1>3, <1>4, <2>1, <2>2, JobMoves, BaseMoves
    <2>4. ASSUME NEW a \in {"waiting", "fetching"}, NEW g \in Nat, NEW T \in SUBSET Channels,
                 Sync!Start(d, Sync!At(a, g, T))
          PROVE  SyncBase' /\ GroupsGrow
      <3>1. PICK j \in JobRows : j = Sync!At(a, g, T) /\ j.at = a
        BY AtShape DEF Stages
      <3>2. OnlyMoves(d, j, "in_progress")
        BY <1>1, <2>4, <3>1, JobMoves
      <3> QED
        BY <1>3, <1>4, <2>1, <2>2, <3>1, <3>2, BaseMoves
    <2> QED
      BY <2>3, <2>4
  <1>5. CASE Sync!SkipCreate(d)
    BY <1>4, <1>5 DEF Sync!SkipCreate
  <1>6. CASE Sync!InboundPost(d)
    <2>1. Sync!Subscribed \in SUBSET Channels
      BY DEF Sync!Subscribed
    <2> QED
      BY <1>4, <1>6, <2>1 DEF Sync!InboundPost
  <1>7. CASE Sync!InboundComment(d)
    BY <1>4, <1>7 DEF Sync!InboundComment
  <1>8. CASE Sync!MemberPosts(d)
    <2>1. /\ d[1] = "create" /\ source[d[2]] # Remote /\ GroupsGrow
          /\ UNCHANGED <<source, members, syncChurn, syncFaults, syncBroken, syncCrashes>>
          /\ made' \in [Sync!Objects -> [Channels -> Nat]]
          /\ \/ Sync!Start(d, Sync!At("publishing", 0, {}))
             \/ Sync!Finish(d, "skipped")
      BY <1>1, <1>8, SameGroups DEF Sync!MemberPosts, Sync!FromRemote, SyncTypes
    <2>2. PICK j \in JobRows : j = Sync!At("publishing", 0, {}) /\ j.at = "publishing"
      BY AtShape DEF Stages
    <2>3. OnlyMoves(d, j, "in_progress") \/ OnlyMoves(d, Sync!Idle, "skipped")
      BY <1>1, <1>2, <1>3, <2>1, <2>2, JobMoves
    <2> QED
      BY <1>1, <1>2, <1>3, <2>1, <2>2, <2>3, BaseMoves DEF SyncTypes
  <1>9. CASE Sync!Change(d)
    <2>1. PICK T \in SUBSET Channels : T = Sync!Shown(d[2], 1) \ {source[d[2]]}
      BY DEF Sync!Shown
    <2>2. /\ d[1] # "create" /\ GroupsGrow
          /\ UNCHANGED <<source, members, made, syncChurn, syncFaults, syncBroken, syncCrashes>>
          /\ \/ Sync!Start(d, Sync!At("changing", 1, T))
             \/ Sync!Finish(d, "skipped")
      BY <1>1, <1>9, <2>1, SameGroups DEF Sync!Change
    <2>3. PICK j \in JobRows : j = Sync!At("changing", 1, T) /\ j.at = "changing"
      BY AtShape DEF Stages
    <2>4. OnlyMoves(d, j, "in_progress") \/ OnlyMoves(d, Sync!Idle, "skipped")
      BY <1>1, <1>2, <1>3, <2>2, <2>3, JobMoves
    <2> QED
      BY <1>1, <1>2, <1>3, <2>2, <2>3, <2>4, BaseMoves DEF SyncTypes
  <1> QED
    BY <1>5, <1>6, <1>7, <1>8, <1>9 DEF Sync!Receive

(* One row is recorded or changed.                                         *)
LEMMA OneRow ==
    ASSUME SyncTypes, NEW o \in Sync!Objects, NEW g, NEW ch \in Channels, NEW v \in Sync!Ops,
           RecordsOne(o, g, ch, v)
    PROVE  GroupsGrow /\ (g \in 1..Len(groups[o]) => ch \in Sync!Shown(o, g)')
  <1>1. PICK f : f = [groups[o][g].shown EXCEPT ![ch] = v]
    OBVIOUS
  <1>2. Records(o, g, f)
    BY <1>1 DEF Records, RecordsOne
  <1>3. v \in Shows /\ v # "none"
    BY SyncFacts DEF Shows
  <1>4. ASSUME g \in 1..Len(groups[o])
        PROVE  /\ f \in [Channels -> Shows] /\ f[ch] = v
               /\ \A e \in Channels : f[e] = groups[o][g].shown[e] \/ f[e] # "none"
    <2>1. groups[o][g] \in GroupRows
      BY <1>4, KnownShape
    <2>2. groups[o][g].shown \in [Channels -> Shows]
      BY <2>1 DEF GroupRows
    <2> QED
      BY <1>1, <1>3, <2>2
  <1>5. GroupsGrow /\ (g \in 1..Len(groups[o]) => groups'[o][g].shown = f)
    BY <1>2, <1>4, RecordedRows
  <1> QED
    BY <1>3, <1>4, <1>5 DEF Sync!Shown

LEMMA CopiedKeepsBase ==
    ASSUME SyncBase, NEW d \in SyncDeliveries, NEW ch \in Channels,
           \/ Sync!Copied(d, ch) \/ Sync!CopyFails(d, ch)
    PROVE  SyncBase' /\ GroupsGrow
  <1>1. SyncTypes
    BY DEF SyncBase
  <1>2. /\ Sync!Idle \in JobRows /\ Sync!Idle.at = "idle" /\ d[2] \in Sync!Objects
        /\ "failed" \in Outcomes /\ status[d] \in Outcomes
    BY <1>1, SyncFacts DEF Outcomes, SyncTypes
  <1>3. PICK o \in Sync!Objects : o = Sync!Target(d)
    BY SyncFacts DEF Sync!Target
  <1>4. Sync!Calls(d, ch)
    BY DEF Sync!Copied, Sync!CopyFails
  <1>5. PICK j \in JobRows : j = Sync!Done(d, ch) /\ j.at = jobs[d].at
    BY <1>1, DoneShape
  <1>6. OnlyMoves(d, j, status[d]) \/ OnlyMoves(d, Sync!Idle, "failed")
    <2>1. Sync!Moves(d, j) \/ Sync!Finish(d, "failed")
      BY <1>5 DEF Sync!Copied, Sync!CopyFails, Sync!Raises
    <2> QED
      BY <1>1, <1>2, <2>1, JobMoves
  <1>7. GroupsGrow
    <2>1. \/ UNCHANGED groups
          \/ RecordsOne(o, jobs[d].group, ch, "create")
      BY <1>3 DEF Sync!Copied, Sync!CopyFails, RecordsOne
    <2> QED
      BY <1>1, <2>1, SameGroups, OneRow, SyncFacts
  <1>8. /\ made' \in [Sync!Objects -> [Channels -> Nat]] /\ UNCHANGED <<source, members>>
        /\ syncChurn' \in Nat /\ syncFaults' \in Nat /\ syncBroken' \in Nat
        /\ syncCrashes' \in Nat
    <2>1. Sync!Make(o, ch) \/ UNCHANGED made
      BY <1>3 DEF Sync!Copied, Sync!CopyFails
    <2>2. made' \in [Sync!Objects -> [Channels -> Nat]]
      BY <1>1, <2>1, MakeShape DEF SyncTypes
    <2>3. /\ UNCHANGED <<source, members, syncChurn, syncBroken, syncCrashes>>
          /\ syncFaults' = syncFaults \/ syncFaults' = syncFaults + 1
      BY DEF Sync!Copied, Sync!CopyFails, Sync!Fault
    <2> QED
      BY <1>1, <2>2, <2>3 DEF SyncTypes
  <1>9. /\ jobs[d].at \in {"filling", "copying"} /\ d[1] = "create"
        /\ source[d[2]] = Remote /\ status[d] # "none"
        /\ jobs[d].at = "copying" => Sync!Known(d[2])'
    <2>1. jobs[d].at \in {"filling", "copying"} /\ Fit(d)
      BY <1>4 DEF Sync!Calls, SyncBase
    <2> QED
      BY <1>2, <1>7, <2>1 DEF Fit, GroupsGrow
  <1> QED
    BY <1>1, <1>2, <1>5, <1>6, <1>7, <1>8, <1>9, BaseMoves DEF SyncTypes

(* The other steps of a handler on one channel: Mirrored, Changed and when *)
(* they fail.                                                              *)
LEMMA MirroredKeepsBase ==
    ASSUME SyncBase, NEW d \in SyncDeliveries, NEW ch \in Channels,
           \/ Sync!Mirrored(d, ch) \/ Sync!MirrorFails(d, ch)
           \/ Sync!Changed(d, ch) \/ Sync!ChangeFails(d, ch)
    PROVE  SyncBase' /\ GroupsGrow
  <1>1. SyncTypes /\ d[2] \in Sync!Objects /\ d[1] \in Sync!Ops /\ status[d] \in Outcomes
    BY SyncFacts DEF SyncBase, SyncTypes
  <1>2. PICK j \in JobRows :
           /\ j.at = jobs[d].at
           /\ j = Sync!Done(d, ch) \/ j = [Sync!Done(d, ch) EXCEPT !.sent = @ \cup {ch}]
           /\ Sync!Moves(d, j)
    <2>1. Sync!Done(d, ch) \in JobRows /\ Sync!Done(d, ch).at = jobs[d].at
      BY <1>1, DoneShape
    <2>2. /\ [Sync!Done(d, ch) EXCEPT !.sent = @ \cup {ch}] \in JobRows
          /\ [Sync!Done(d, ch) EXCEPT !.sent = @ \cup {ch}].at = jobs[d].at
      BY <2>1 DEF JobRows
    <2>3. \/ Sync!Moves(d, Sync!Done(d, ch))
          \/ Sync!Moves(d, [Sync!Done(d, ch) EXCEPT !.sent = @ \cup {ch}])
      BY DEF Sync!Mirrored, Sync!MirrorFails, Sync!Changed, Sync!ChangeFails
    <2> QED
      BY <2>1, <2>2, <2>3
  <1>3. OnlyMoves(d, j, status[d])
    BY <1>1, <1>2, JobMoves
  <1>4. GroupsGrow
    <2>1. \/ UNCHANGED groups
          \/ RecordsOne(d[2], 1, ch, d[1])
      BY DEF Sync!Mirrored, Sync!MirrorFails, Sync!Changed, Sync!ChangeFails, RecordsOne
    <2> QED
      BY <1>1, <2>1, SameGroups, OneRow
  <1>5. /\ made' \in [Sync!Objects -> [Channels -> Nat]] /\ UNCHANGED <<source, members>>
        /\ syncChurn' \in Nat /\ syncFaults' \in Nat /\ syncBroken' \in Nat
        /\ syncCrashes' \in Nat
    <2>1. Sync!Make(d[2], ch) \/ UNCHANGED made
      BY DEF Sync!Mirrored, Sync!MirrorFails, Sync!Changed, Sync!ChangeFails
    <2>2. made' \in [Sync!Objects -> [Channels -> Nat]]
      BY <1>1, <2>1, MakeShape DEF SyncTypes
    <2> QED
      BY <1>1, <2>2
      DEF Sync!Mirrored, Sync!MirrorFails, Sync!Changed, Sync!ChangeFails, Sync!Fault, SyncTypes
  <1>6. Fit(d) /\ (Sync!Known(d[2]) => Sync!Known(d[2])')
    BY <1>1, <1>4 DEF SyncBase, GroupsGrow
  <1> QED
    BY <1>1, <1>2, <1>3, <1>4, <1>5, <1>6, BaseMoves DEF SyncTypes, Fit

LEMMA ProceedKeepsBase ==
    ASSUME SyncBase, NEW d \in SyncDeliveries,
           \/ Sync!Fetched(d) \/ Sync!Ready(d) \/ Sync!CopiesDone(d) \/ Sync!ChangesDone(d)
           \/ Sync!FetchFails(d) \/ Sync!PublishFails(d)
    PROVE  SyncBase' /\ GroupsGrow
  <1>1. SyncTypes /\ Fit(d) /\ d[2] \in Sync!Objects /\ Post \in Sync!Objects
    BY SyncFacts DEF SyncBase
  <1>2. Sync!Idle \in JobRows /\ Sync!Idle.at = "idle"
    BY SyncFacts
  <1>3. {"failed", "processed", "deferred"} \subseteq Outcomes /\ status[d] \in Outcomes
    BY <1>1 DEF Outcomes, SyncTypes
  <1>4. ASSUME NEW s \in {"failed", "processed", "deferred"}, Sync!Finish(d, s),
               UNCHANGED <<source, members, groups, made, syncChurn, syncBroken, syncCrashes>>,
               syncFaults' \in Nat
        PROVE  SyncBase' /\ GroupsGrow
    BY <1>1, <1>2, <1>3, <1>4, SameGroups, JobMoves, BaseMoves DEF SyncTypes
  <1>5. CASE Sync!CopiesDone(d) \/ Sync!ChangesDone(d)
    BY <1>1, <1>4, <1>5 DEF Sync!CopiesDone, Sync!ChangesDone, SyncTypes
  <1>6. CASE Sync!FetchFails(d) \/ Sync!PublishFails(d)
    BY <1>1, <1>4, <1>6 DEF Sync!FetchFails, Sync!PublishFails, Sync!Fault, SyncTypes
  <1>7. CASE Sync!Fetched(d)
    <2>1. GroupsGrow
      <3>1. \/ UNCHANGED groups
            \/ /\ groups[Post] = <<>>
               /\ groups' = [groups EXCEPT ![Post] = <<Sync!Group(0, Sync!Blank)>>]
        BY <1>7 DEF Sync!Fetched, Sync!Known
      <3> QED
        BY <1>1, <3>1, SameGroups, NewGroup, SyncFacts
    <2>2. PICK T \in SUBSET Channels :
             T = IF Sync!Known(Post) THEN Sync!Accepted \ Sync!Shown(Post, 1) ELSE Sync!Accepted
      BY DEF Sync!Accepted
    <2>3. PICK j \in JobRows : j = Sync!At("filling", 1, T) /\ j.at = "filling"
      BY AtShape DEF Stages
    <2>4. /\ Sync!Moves(d, j) /\ jobs[d].at = "fetching"
          /\ UNCHANGED <<source, members, made, syncChurn, syncFaults, syncBroken, syncCrashes>>
      BY <1>7, <2>2, <2>3 DEF Sync!Fetched
    <2>5. OnlyMoves(d, j, status[d])
      BY <1>1, <2>4, JobMoves
    <2> QED
      BY <1>1, <1>3, <2>1, <2>3, <2>4, <2>5, BaseMoves DEF SyncTypes, Fit
  <1>8. CASE Sync!Ready(d)
    <2>1. /\ jobs[d] \in JobRows /\ jobs[d].group \in Nat /\ jobs[d].todo \in SUBSET Channels
          /\ Len(groups[d[2]]) + 1 \in Nat
      BY <1>1, KnownShape DEF SyncTypes, JobRows
    <2>2. GroupsGrow /\ Sync!Known(d[2])'
      <3>1. groups' = [groups EXCEPT ![d[2]] =
                          Append(groups[d[2]], Sync!Group(jobs[d].group, Sync!Blank))]
        BY <1>8 DEF Sync!Ready
      <3> QED
        BY <1>1, <2>1, <3>1, NewGroup, SyncFacts
    <2>3. PICK T \in SUBSET Channels :
             T = IF d[2] = Post THEN jobs[d].todo ELSE Sync!Shown(Post, jobs[d].group)
      BY <2>1 DEF Sync!Shown
    <2>4. PICK j \in JobRows :
             j = Sync!At("copying", Len(groups[d[2]]) + 1, T) /\ j.at = "copying"
      BY <2>1, AtShape DEF Stages
    <2>5. /\ Sync!Moves(d, j) /\ jobs[d].at \in {"waiting", "filling"}
          /\ UNCHANGED <<source, members, made, syncChurn, syncFaults, syncBroken, syncCrashes>>
      BY <1>8, <2>3, <2>4 DEF Sync!Ready
    <2>6. OnlyMoves(d, j, status[d])
      BY <1>1, <2>5, JobMoves
    <2> QED
      BY <1>1, <1>3, <2>2, <2>4, <2>5, <2>6, BaseMoves DEF SyncTypes, Fit
  <1> QED
    BY <1>5, <1>6, <1>7, <1>8

LEMMA PublishedKeepsBase ==
    ASSUME SyncBase, NEW d \in SyncDeliveries, Sync!Published(d) \/ Sync!RecordMirrors(d)
    PROVE  SyncBase' /\ GroupsGrow
  <1>1. SyncTypes /\ Fit(d) /\ d[2] \in Sync!Objects /\ Post \in Sync!Objects
    BY SyncFacts DEF SyncBase
  <1>2. Sync!Idle \in JobRows /\ Sync!Idle.at = "idle"
    BY SyncFacts
  <1>3. {"failed", "processed"} \subseteq Outcomes /\ status[d] \in Outcomes
    BY <1>1 DEF Outcomes, SyncTypes
  <1>4. ASSUME NEW s \in {"failed", "processed"}, Sync!Finish(d, s), GroupsGrow,
               UNCHANGED <<source, members, made, syncChurn, syncFaults, syncBroken, syncCrashes>>
        PROVE  SyncBase'
    BY <1>1, <1>2, <1>3, <1>4, JobMoves, BaseMoves DEF SyncTypes
  <1>5. CASE Sync!Published(d)
    <2>1. PICK ch, o : ch = source[d[2]] /\ o = d[2]
      OBVIOUS
    <2>2. PICK mine \in [Channels -> Shows] : mine = [Sync!Blank EXCEPT ![ch] = "create"]
      BY SyncFacts DEF Shows
    <2>3. /\ jobs[d].at = "publishing"
          /\ UNCHANGED <<source, members, made, syncChurn, syncFaults, syncBroken, syncCrashes>>
      BY <1>5 DEF Sync!Published
    <2>4. CASE Sync!Finish(d, "failed") /\ UNCHANGED groups
      BY <1>1, <1>4, <2>3, <2>4, SameGroups
    <2>5. ASSUME NEW g \in Nat, NEW T \in SUBSET Channels,
                 groups' = [groups EXCEPT ![o] = Append(groups[o], Sync!Group(g, mine))],
                 Sync!Moves(d, Sync!At("mirroring", Len(groups[o]) + 1, T))
          PROVE  SyncBase' /\ GroupsGrow
      <3>1. GroupsGrow /\ Sync!Known(d[2])'
        BY <1>1, <2>1, <2>5, NewGroup
      <3>2. Len(groups[o]) + 1 \in Nat
        BY <1>1, <2>1, KnownShape
      <3>3. PICK j \in JobRows :
               j = Sync!At("mirroring", Len(groups[o]) + 1, T) /\ j.at = "mirroring"
        BY <3>2, AtShape DEF Stages
      <3>4. OnlyMoves(d, j, status[d])
        BY <1>1, <2>5, <3>3, JobMoves
      <3> QED
        BY <1>1, <1>3, <2>3, <3>1, <3>3, <3>4, BaseMoves DEF SyncTypes, Fit
    <2>6. \/ Sync!Finish(d, "failed") /\ UNCHANGED groups
          \/ \E g \in IF o = Post THEN {0}
                      ELSE {i \in DOMAIN groups[Post] : ch \in Sync!Shown(Post, i)} :
                /\ groups' = [groups EXCEPT ![o] = Append(groups[o], Sync!Group(g, mine))]
                /\ Sync!Moves(d, Sync!At("mirroring", Len(groups[o]) + 1,
                      (IF o = Post THEN {c \in Channels : members[c] # "none"}
                                   ELSE Sync!Shown(Post, g)) \ {ch}))
      BY <1>5, <2>1, <2>2 DEF Sync!Published
    <2>7. DOMAIN groups[Post] \subseteq Nat
      BY <1>1, KnownShape
    <2>8. \A g : ((IF o = Post THEN {c \in Channels : members[c] # "none"}
                               ELSE Sync!Shown(Post, g)) \ {ch}) \in SUBSET Channels
      BY DEF Sync!Shown
    <2> QED
      BY <2>4, <2>5, <2>6, <2>7, <2>8
  <1>6. CASE Sync!RecordMirrors(d)
    <2> DEFINE o == d[2]
               g == jobs[d].group
               Rows(set) == groups' = [groups EXCEPT ![o][g].shown =
                               [ch \in Channels |-> IF ch \in set THEN "create" ELSE @[ch]]]
    <2>1. Rows(jobs[d].sent) \/ \E set \in SUBSET (jobs[d].sent \ Sync!Shown(o, g)) : Rows(set)
      BY <1>6 DEF Sync!RecordMirrors
    <2>2. /\ UNCHANGED <<source, members, made, syncChurn, syncFaults, syncBroken, syncCrashes>>
          /\ Sync!Finish(d, "processed") \/ Sync!Finish(d, "failed")
      BY <1>6 DEF Sync!RecordMirrors
    <2>3. PICK set : Records(o, g, [ch \in Channels |-> IF ch \in set THEN "create"
                                                        ELSE groups[o][g].shown[ch]])
      <3>2. PICK set : Rows(set)
        BY <2>1
      <3>3. Records(o, g, [ch \in Channels |-> IF ch \in set THEN "create"
                                               ELSE groups[o][g].shown[ch]])
        BY <3>2 DEF Records
      <3> QED
        BY <3>3
    <2>4. PICK f : f = [ch \in Channels |-> IF ch \in set THEN "create"
                                            ELSE groups[o][g].shown[ch]]
      OBVIOUS
    <2>5. ASSUME g \in 1..Len(groups[o])
          PROVE  /\ f \in [Channels -> Shows]
                 /\ \A ch \in Channels : f[ch] = groups[o][g].shown[ch] \/ f[ch] # "none"
      <3>1. groups[o][g] \in GroupRows
        BY <1>1, <2>5, KnownShape
      <3>2. groups[o][g].shown \in [Channels -> Shows] /\ "create" \in Shows
        BY <3>1, SyncFacts DEF GroupRows, Shows
      <3> QED
        BY <2>4, <3>2
    <2>6. GroupsGrow
      BY <1>1, <2>3, <2>4, <2>5, RecordedRows
    <2> QED
      BY <1>4, <2>2, <2>6
  <1> QED
    BY <1>5, <1>6

LEMMA SyncBaseStep ==
    SyncBase /\ [Sync!Next]_syncVars => SyncBase' /\ GroupsGrow /\ UNCHANGED source
  <1> SUFFICES ASSUME SyncBase, [Sync!Next]_syncVars
               PROVE  SyncBase' /\ GroupsGrow /\ UNCHANGED source
    OBVIOUS
  <1>1. SyncTypes
    BY DEF SyncBase
  <1>2. ASSUME NEW d \in SyncDeliveries, Sync!Receive(d)
        PROVE  SyncBase' /\ GroupsGrow /\ UNCHANGED source
    BY <1>2, ReceiveKeepsBase
    DEF Sync!Receive, Sync!SkipCreate, Sync!InboundPost, Sync!InboundComment,
        Sync!MemberPosts, Sync!Change
  <1>3. ASSUME NEW d \in SyncDeliveries,
               Sync!Proceed(d) \/ Sync!FetchFails(d) \/ Sync!PublishFails(d)
        PROVE  SyncBase' /\ GroupsGrow /\ UNCHANGED source
    <2>1. CASE Sync!Fetched(d) \/ Sync!Ready(d) \/ Sync!CopiesDone(d) \/ Sync!ChangesDone(d)
      BY <2>1, ProceedKeepsBase
      DEF Sync!Fetched, Sync!Ready, Sync!CopiesDone, Sync!ChangesDone
    <2>2. CASE Sync!FetchFails(d) \/ Sync!PublishFails(d)
      BY <2>2, ProceedKeepsBase DEF Sync!FetchFails, Sync!PublishFails
    <2>3. CASE Sync!Published(d) \/ Sync!RecordMirrors(d)
      BY <2>3, PublishedKeepsBase DEF Sync!Published, Sync!RecordMirrors
    <2>4. ASSUME NEW ch \in Channels,
                 Sync!Copied(d, ch) \/ Sync!Mirrored(d, ch) \/ Sync!Changed(d, ch)
          PROVE  SyncBase' /\ GroupsGrow /\ UNCHANGED source
      BY <2>4, CopiedKeepsBase, MirroredKeepsBase
      DEF Sync!Copied, Sync!Mirrored, Sync!Changed
    <2> QED
      BY <1>3, <2>1, <2>2, <2>3, <2>4 DEF Sync!Proceed
  <1>4. ASSUME NEW d \in SyncDeliveries, NEW ch \in Channels,
               Sync!CopyFails(d, ch) \/ Sync!MirrorFails(d, ch) \/ Sync!ChangeFails(d, ch)
        PROVE  SyncBase' /\ GroupsGrow /\ UNCHANGED source
    BY <1>4, CopiedKeepsBase, MirroredKeepsBase
    DEF Sync!CopyFails, Sync!MirrorFails, Sync!ChangeFails
  <1>5. ASSUME NEW d \in SyncDeliveries, Sync!Break(d)
        PROVE  SyncBase' /\ GroupsGrow /\ UNCHANGED source
    <2>1. /\ UNCHANGED <<source, members, groups, made, jobs, status, syncChurn, syncFaults,
                         syncCrashes>>
          /\ syncBroken' = syncBroken + 1
      BY <1>5 DEF Sync!Break
    <2> QED
      BY <1>1, <2>1, SameGroups DEF SyncBase, SyncTypes, Fit, Sync!Known
  <1>6. ASSUME NEW d \in SyncDeliveries, Sync!Redeliver(d)
        PROVE  SyncBase' /\ GroupsGrow /\ UNCHANGED source
    <2>1. /\ UNCHANGED <<source, members, groups, made, jobs, syncChurn, syncFaults,
                         syncBroken, syncCrashes>>
          /\ status' = [status EXCEPT ![d] = "failed"]
      BY <1>6 DEF Sync!Redeliver
    <2>2. SyncTypes' /\ \A e \in SyncDeliveries : status'[e] = "none" => status[e] = "none"
      BY <1>1, <2>1 DEF SyncTypes, Outcomes
    <2> QED
      BY <1>1, <2>1, <2>2, SameGroups DEF SyncBase, Fit, Sync!Known
  <1>7. ASSUME NEW ch \in Channels, Sync!Resubscribe(ch)
        PROVE  SyncBase' /\ GroupsGrow /\ UNCHANGED source
    <2>1. /\ UNCHANGED <<source, groups, made, jobs, status, syncFaults, syncBroken, syncCrashes>>
          /\ syncChurn' = syncChurn + 1
      BY <1>7 DEF Sync!Resubscribe
    <2>2. members' \in [Channels -> {"none", "pending", "stale", "accepted"}]
      BY <1>1, <1>7, PromotedShape DEF Sync!Resubscribe, SyncTypes
    <2> QED
      BY <1>1, <2>1, <2>2, SameGroups DEF SyncBase, SyncTypes, Fit, Sync!Known
  <1>8. CASE Sync!Crash
    <2>1. /\ UNCHANGED <<source, groups, made, status, syncChurn, syncFaults, syncBroken>>
          /\ syncCrashes' = syncCrashes + 1
          /\ jobs' = [d \in SyncDeliveries |-> Sync!Idle]
          /\ members' \in [Channels -> {"none", "pending", "stale", "accepted"}]
      BY <1>1, <1>8 DEF Sync!Crash, SyncTypes
    <2> QED
      BY <1>1, <2>1, SameGroups, SyncFacts DEF SyncBase, SyncTypes, Fit, Sync!Known
  <1>9. CASE UNCHANGED syncVars
    <2>1. UNCHANGED <<source, members, groups, made, jobs, status, syncChurn, syncFaults,
                      syncBroken, syncCrashes>>
      BY <1>9 DEF syncVars
    <2> QED
      BY <1>1, <2>1, SameGroups DEF SyncBase, SyncTypes, Fit, Sync!Known
  <1> QED
    BY <1>2, <1>3, <1>4, <1>5, <1>6, <1>7, <1>8, <1>9 DEF Sync!Next, Sync!Fails

(* No more than n.                                                         *)
Few(S, n) == IsFiniteSet(S) /\ Cardinality(S) <= n

LEMMA FewLess ==
    ASSUME NEW n \in Nat, NEW m \in Nat, NEW S, Few(S, n), NEW T \in SUBSET S, n <= m
    PROVE  Few(T, m)
  BY FS_Subset, FS_CardinalityType DEF Few

LEMMA FewMore ==
    ASSUME NEW n \in Nat, NEW S, Few(S, n), NEW x, NEW T \in SUBSET (S \cup {x})
    PROVE  Few(T, n + 1)
  <1>1. IsFiniteSet(S \cup {x}) /\ Cardinality(S) \in Nat /\ Cardinality(S) <= n
    BY FS_AddElement, FS_CardinalityType DEF Few
  <1>2. Cardinality(S \cup {x}) <= n + 1 /\ Cardinality(S \cup {x}) \in Nat
    <2>1. IsFiniteSet(S)
      BY DEF Few
    <2>2. Cardinality(S \cup {x}) \in {Cardinality(S), Cardinality(S) + 1}
      BY <2>1, FS_AddElement
    <2> QED
      BY <1>1, <2>2
  <1>3. IsFiniteSet(T) /\ Cardinality(T) <= Cardinality(S \cup {x}) /\ Cardinality(T) \in Nat
    BY <1>1, FS_Subset, FS_CardinalityType
  <1> QED
    BY <1>2, <1>3 DEF Few

LEMMA FewNone == \A n \in Nat : Few({}, n)
  BY FS_EmptySet DEF Few

(* The creates of a comment; the handlers, or a member's message, that can *)
(* still make a copy of it in the channel.                                 *)
Creates(o) == {d \in SyncDeliveries : d[1] = "create" /\ d[2] = o}

Can(d, ch) ==
    \/ jobs[d].at \in {"waiting", "fetching", "filling"}
    \/ jobs[d].at \in {"copying", "mirroring"} /\ ch \in jobs[d].todo
    \/ jobs[d].at = "publishing" /\ ch # source[d[2]]
    \/ /\ jobs[d].at = "idle" /\ source[d[2]] # Remote
       /\ status[d] = "none" /\ d[3] = 1

(* A handler of a remote event that the gateway's queue does not wait for. *)
Loose(d) == jobs[d].at # "idle" /\ source[d[2]] = Remote /\ d # open

(* Copies there are and copies that can be made are one, and one more for  *)
(* every request that broke: a handler begins while others of the same     *)
(* comment run only if all those are loose, and no copy is there then.     *)
CopiesInv ==
    /\ \A o \in Comments, ch \in Channels :
          made[o][ch] + Cardinality({d \in Creates(o) : Can(d, ch)}) <= 1 + syncBroken
    /\ \A o \in Comments, ch \in Channels :
          source[o] = Remote /\ ~Sync!Known(o) => made[o][ch] = 0
    /\ Few({d \in SyncDeliveries : Loose(d)}, syncBroken)

(* What a step of d may do about comment o in channel ch.                  *)
Spends(d, o, ch) ==
    /\ d \in Creates(o) /\ Can(d, ch)' => Can(d, ch)
    /\ \/ made'[o][ch] = made[o][ch]
       \/ /\ d \in Creates(o) /\ Can(d, ch) /\ ~Can(d, ch)'
          /\ made'[o][ch] \in {1, made[o][ch] + 1}

(* No other handler moves.                                                 *)
Alone(d) == \A e \in SyncDeliveries \ {d} : jobs'[e] = jobs[e] /\ status'[e] = status[e]

LEMMA CopiesCount ==
    ASSUME SyncBase, CopiesInv, NEW o \in Comments, NEW ch \in Channels,
           made'[o][ch] \in Nat, syncBroken' \in Nat, syncBroken <= syncBroken',
           \A d \in Creates(o) : Can(d, ch)' => Can(d, ch),
           \/ made'[o][ch] = made[o][ch]
           \/ \E d \in Creates(o) : /\ Can(d, ch) /\ ~Can(d, ch)'
                                    /\ made'[o][ch] \in {1, made[o][ch] + 1}
    PROVE  made'[o][ch] + Cardinality({d \in Creates(o) : Can(d, ch)'}) <= 1 + syncBroken'
  <1> DEFINE Now == {d \in Creates(o) : Can(d, ch)}
             Then == {d \in Creates(o) : Can(d, ch)'}
  <1>1. IsFiniteSet(Creates(o))
    BY SyncFacts, FS_Subset DEF Creates
  <1>2. /\ IsFiniteSet(Now) /\ Then \subseteq Now
        /\ Cardinality(Now) \in Nat /\ Cardinality(Then) \in Nat
        /\ Cardinality(Then) <= Cardinality(Now)
    BY <1>1, FS_Subset, FS_CardinalityType
  <1>3. /\ made[o][ch] \in Nat /\ syncBroken \in Nat
        /\ made[o][ch] + Cardinality(Now) <= 1 + syncBroken
    BY SyncFacts DEF SyncBase, SyncTypes, CopiesInv
  <1>4. CASE made'[o][ch] = made[o][ch]
    BY <1>2, <1>3, <1>4
  <1>5. ASSUME NEW d \in Creates(o), Can(d, ch), ~Can(d, ch)',
               made'[o][ch] \in {1, made[o][ch] + 1}
        PROVE  made'[o][ch] + Cardinality(Then) <= 1 + syncBroken'
    <2>1. Then \subseteq Now \ {d} /\ d \in Now
      BY <1>5
    <2>2. IsFiniteSet(Now \ {d}) /\ Cardinality(Now \ {d}) = Cardinality(Now) - 1
      BY <1>2, <2>1, FS_RemoveElement
    <2>3. Cardinality(Then) <= Cardinality(Now) - 1
      BY <2>1, <2>2, FS_Subset
    <2> HIDE DEF Now, Then
    <2> QED
      BY <1>2, <1>3, <1>5, <2>3
  <1> QED
    BY <1>4, <1>5

(* A handler of remote comment o begins: those that run are loose.         *)
LEMMA BeginsCount ==
    ASSUME SyncBase, CopiesInv, NEW d \in SyncDeliveries, Sync!InboundComment(d), Alone(d),
           NEW ch \in Channels
    PROVE  made'[d[2]][ch] + Cardinality({e \in Creates(d[2]) : Can(e, ch)'}) <= 1 + syncBroken
  <1> DEFINE o == d[2]
             Now == {e \in Creates(o) : Can(e, ch)}
             Then == {e \in Creates(o) : Can(e, ch)'}
             Running == {e \in SyncDeliveries : Loose(e)}
  <1>1. /\ o \in Comments /\ source[o] = Remote /\ ~Sync!Known(o) /\ open = Nothing
        /\ UNCHANGED <<made, source>>
    BY DEF Sync!InboundComment, Sync!InboundCreate, Sync!FromRemote, Sync!Begins
  <1>2. made'[o][ch] = 0
    BY <1>1 DEF CopiesInv
  <1>3. Nothing \notin SyncDeliveries
    BY BridgingAssumption DEF Sync!CommunitySyncAssumption
  <1>4. Now \in SUBSET Running
    BY <1>1, <1>3 DEF Creates, Can, Loose
  <1>5. syncBroken \in Nat /\ Few(Running, syncBroken)
    BY DEF SyncBase, SyncTypes, CopiesInv
  <1>6. Few(Now, syncBroken)
    BY <1>4, <1>5, FewLess
  <1>7. Then \in SUBSET (Now \cup {d})
    BY <1>1 DEF Creates, Can, Alone
  <1>8. Few(Then, syncBroken + 1)
    BY <1>5, <1>6, <1>7, FewMore
  <1>9. Cardinality(Then) \in Nat
    BY <1>8, FS_CardinalityType DEF Few
  <1> QED
    BY <1>2, <1>5, <1>8, <1>9 DEF Few

(* The first part of CopiesInv, over a step of one handler.                *)
LEMMA CopiesMoves ==
    ASSUME SyncBase, SyncBase', CopiesInv, UNCHANGED source, syncBroken <= syncBroken',
           NEW d \in SyncDeliveries, Alone(d), NEW o \in Comments, NEW ch \in Channels,
           Spends(d, o, ch) \/ (Sync!InboundComment(d) /\ o = d[2])
    PROVE  made'[o][ch] + Cardinality({e \in Creates(o) : Can(e, ch)'}) <= 1 + syncBroken'
  <1>1. made'[o][ch] \in Nat /\ syncBroken' \in Nat /\ syncBroken \in Nat
    BY SyncFacts DEF SyncBase, SyncTypes
  <1>2. CASE Spends(d, o, ch)
    <2>1. ASSUME NEW e \in Creates(o), e # d, Can(e, ch)'
          PROVE  Can(e, ch)
      <3>1. jobs'[e] = jobs[e] /\ status'[e] = status[e] /\ e \in SyncDeliveries
        BY <2>1 DEF Alone, Creates
      <3> QED
        BY <2>1, <3>1 DEF Can
    <2>2. \A e \in Creates(o) : Can(e, ch)' => Can(e, ch)
      BY <1>2, <2>1 DEF Spends
    <2> QED
      BY <1>1, <1>2, <2>2, CopiesCount DEF Spends
  <1>3. CASE Sync!InboundComment(d) /\ o = d[2]
    <2>1. syncBroken' = syncBroken
      BY <1>3 DEF Sync!InboundComment
    <2> QED
      BY <1>3, <2>1, BeginsCount
  <1> QED
    BY <1>2, <1>3

LEMMA ActorAlone ==
    ASSUME SyncTypes, NEW d \in SyncDeliveries,
           \/ Sync!Receive(d) \/ Sync!Proceed(d) \/ Sync!FetchFails(d) \/ Sync!PublishFails(d)
           \/ Sync!Break(d) \/ Sync!Redeliver(d)
           \/ \E ch \in Channels :
                 Sync!CopyFails(d, ch) \/ Sync!MirrorFails(d, ch) \/ Sync!ChangeFails(d, ch)
    PROVE  Alone(d)
  <1>1. (\E j : Sync!Start(d, j) \/ Sync!Moves(d, j)) \/ (\E s : Sync!Finish(d, s)) => Alone(d)
    BY DEF Sync!Start, Sync!Moves, Sync!Finish, Alone, SyncTypes
  <1>2. CASE Sync!Receive(d)
    BY <1>1, <1>2
    DEF Sync!Receive, Sync!SkipCreate, Sync!InboundPost, Sync!InboundComment,
        Sync!MemberPosts, Sync!Change
  <1>3. CASE Sync!Proceed(d)
    <2>1. CASE Sync!Fetched(d) \/ Sync!Ready(d) \/ Sync!CopiesDone(d) \/ Sync!ChangesDone(d)
      BY <1>1, <2>1 DEF Sync!Fetched, Sync!Ready, Sync!CopiesDone, Sync!ChangesDone
    <2>2. CASE Sync!Published(d) \/ Sync!RecordMirrors(d)
      BY <1>1, <2>2 DEF Sync!Published, Sync!RecordMirrors
    <2>3. ASSUME NEW ch \in Channels,
                 Sync!Copied(d, ch) \/ Sync!Mirrored(d, ch) \/ Sync!Changed(d, ch)
          PROVE  Alone(d)
      BY <1>1, <2>3 DEF Sync!Copied, Sync!Mirrored, Sync!Changed, Sync!Raises
    <2> QED
      BY <1>3, <2>1, <2>2, <2>3 DEF Sync!Proceed
  <1>4. CASE Sync!FetchFails(d) \/ Sync!PublishFails(d)
    BY <1>1, <1>4 DEF Sync!FetchFails, Sync!PublishFails
  <1>5. CASE Sync!Break(d) \/ Sync!Redeliver(d)
    BY <1>5 DEF Sync!Break, Sync!Redeliver, Alone, SyncTypes
  <1>6. ASSUME NEW ch \in Channels,
               Sync!CopyFails(d, ch) \/ Sync!MirrorFails(d, ch) \/ Sync!ChangeFails(d, ch)
        PROVE  Alone(d)
    BY <1>1, <1>6 DEF Sync!CopyFails, Sync!MirrorFails, Sync!ChangeFails, Sync!Raises
  <1> QED
    BY <1>2, <1>3, <1>4, <1>5, <1>6

(* Where a job is after each of the moves.                                 *)
LEMMA MovedTo ==
    ASSUME SyncTypes, NEW d \in SyncDeliveries
    PROVE  /\ \A j : Sync!Start(d, j) \/ Sync!Moves(d, j) => jobs'[d] = j
           /\ \A s : Sync!Finish(d, s) => jobs'[d].at = "idle" /\ status'[d] = s
  BY SyncFacts DEF Sync!Start, Sync!Moves, Sync!Finish, SyncTypes

LEMMA ReceiveSpends ==
    ASSUME SyncBase, GroupsGrow, UNCHANGED source, NEW d \in SyncDeliveries, Sync!Receive(d),
           NEW o \in Comments, NEW ch \in Channels
    PROVE  Spends(d, o, ch) \/ (Sync!InboundComment(d) /\ o = d[2])
  <1>1. SyncTypes /\ d[2] \in Sync!Objects /\ o \in Sync!Objects
    BY SyncFacts DEF SyncBase
  <1>2. d \in Creates(o) => d[2] = o /\ d[2] # Post /\ d[1] = "create"
    BY SyncFacts DEF Creates
  <1>3. Sync!Begins(d) => jobs[d].at = "idle"
    BY SyncFacts DEF Sync!Begins
  <1>4. CASE Sync!SkipCreate(d)
    <2>1. /\ jobs[d].at = "idle" /\ jobs'[d].at = "idle" /\ source[d[2]] = Remote
          /\ UNCHANGED <<made, groups>>
      BY <1>1, <1>3, <1>4, MovedTo
      DEF Sync!SkipCreate, Sync!InboundCreate, Sync!FromRemote
    <2> QED
      BY <2>1 DEF Spends, Can
  <1>5. CASE Sync!InboundPost(d)
    BY <1>2, <1>5 DEF Sync!InboundPost, Spends
  <1>6. CASE Sync!InboundComment(d)
    BY <1>6 DEF Sync!InboundComment, Spends, Creates
  <1>7. CASE Sync!MemberPosts(d)
    <2>1. /\ jobs[d].at = "idle" /\ status[d] = "none" /\ source[d[2]] # Remote
          /\ made' = [made EXCEPT ![d[2]][source[d[2]]] = 1]
          /\ d[1] = "create" /\ d[3] = 1
      BY <1>3, <1>7 DEF Sync!MemberPosts, Sync!Begins, Sync!FromRemote
    <2>2. \/ jobs'[d] = Sync!At("publishing", 0, {})
          \/ jobs'[d].at = "idle" /\ status'[d] = "skipped"
      BY <1>1, <1>7, MovedTo DEF Sync!MemberPosts
    <2>3. \/ jobs'[d].at = "publishing"
          \/ jobs'[d].at = "idle" /\ status'[d] = "skipped"
      BY <2>2, AtShape DEF Stages
    <2>4. Can(d, ch) /\ (Can(d, ch)' => ch # source[d[2]])
      BY <2>1, <2>3 DEF Can
    <2>5. \/ made'[o][ch] = made[o][ch]
          \/ o = d[2] /\ ch = source[d[2]] /\ made'[o][ch] = 1
      BY <1>1, <2>1 DEF SyncTypes
    <2> QED
      BY <2>1, <2>4, <2>5 DEF Spends, Creates
  <1>8. CASE Sync!Change(d)
    BY <1>2, <1>8 DEF Sync!Change, Spends
  <1> QED
    BY <1>4, <1>5, <1>6, <1>7, <1>8 DEF Sync!Receive

LEMMA ProceedSpends ==
    ASSUME SyncBase, SyncBase', GroupsGrow, UNCHANGED source, NEW d \in SyncDeliveries,
           \/ Sync!Fetched(d) \/ Sync!Ready(d) \/ Sync!CopiesDone(d) \/ Sync!ChangesDone(d)
           \/ Sync!Published(d) \/ Sync!RecordMirrors(d)
           \/ Sync!FetchFails(d) \/ Sync!PublishFails(d) \/ Sync!Break(d) \/ Sync!Redeliver(d),
           NEW o \in Comments, NEW ch \in Channels
    PROVE  Spends(d, o, ch)
  <1>1. /\ SyncTypes /\ Fit(d) /\ d[2] \in Sync!Objects /\ UNCHANGED made
        /\ Sync!Known(d[2]) => Sync!Known(d[2])'
    BY SyncFacts
    DEF SyncBase, Sync!Fetched, Sync!Ready, Sync!CopiesDone, Sync!ChangesDone, Sync!Published,
        Sync!RecordMirrors, Sync!FetchFails, Sync!PublishFails, Sync!Break, Sync!Redeliver,
        GroupsGrow
  <1>2. CASE Sync!Fetched(d) \/ Sync!Ready(d) \/ Sync!FetchFails(d)
    BY <1>1, <1>2 DEF Sync!Fetched, Sync!Ready, Sync!FetchFails, Spends, Can
  <1>3. CASE Sync!CopiesDone(d)
    BY <1>1, <1>3, MovedTo DEF Sync!CopiesDone, Spends, Can, Fit
  <1>4. CASE Sync!ChangesDone(d)
    BY <1>1, <1>4 DEF Sync!ChangesDone, Spends, Creates, Fit
  <1>5. CASE Sync!PublishFails(d) \/ Sync!RecordMirrors(d)
    <2>1. jobs'[d].at = "idle" /\ status'[d] # "none" /\ source[d[2]] # Remote
      <3>1. /\ jobs[d].at \in {"publishing", "mirroring"}
            /\ Sync!Finish(d, "failed") \/ Sync!Finish(d, "processed")
        BY <1>5 DEF Sync!PublishFails, Sync!RecordMirrors
      <3> QED
        BY <1>1, <3>1, MovedTo DEF Fit
    <2> QED
      BY <1>1, <2>1 DEF Spends, Can
  <1>6. CASE Sync!Published(d)
    <2>1. jobs[d].at = "publishing" /\ source[d[2]] # Remote
      BY <1>1, <1>6 DEF Sync!Published, Fit
    <2>2. \/ jobs'[d].at = "idle" /\ status'[d] = "failed"
          \/ \E g, n : jobs'[d] = Sync!At("mirroring", n,
                (IF d[2] = Post THEN {c \in Channels : members[c] # "none"}
                                ELSE Sync!Shown(Post, g)) \ {source[d[2]]})
      BY <1>1, <1>6, MovedTo, ZenonT(30) DEF Sync!Published
    <2>3. Can(d, ch)' => ch # source[d[2]]
      <3>1. ASSUME NEW g, NEW n, jobs'[d] = Sync!At("mirroring", n,
                (IF d[2] = Post THEN {c \in Channels : members[c] # "none"}
                                ELSE Sync!Shown(Post, g)) \ {source[d[2]]})
            PROVE  jobs'[d].at = "mirroring" /\ source[d[2]] \notin jobs'[d].todo
        BY <3>1 DEF Sync!At, Sync!Idle
      <3> QED
        BY <2>1, <2>2, <3>1 DEF Can
    <2> QED
      BY <1>1, <2>1, <2>3 DEF Spends, Can
  <1>7. CASE Sync!Break(d)
    BY <1>1, <1>7 DEF Sync!Break, Spends, Can
  <1>8. CASE Sync!Redeliver(d)
    <2>1. UNCHANGED <<jobs, groups>> /\ status[d] # "none"
      BY <1>8 DEF Sync!Redeliver
    <2>2. status'[d] # "none"
      BY <1>1, <1>8 DEF Sync!Redeliver, SyncTypes
    <2> QED
      BY <1>1, <2>1, <2>2 DEF Spends, Can
  <1> QED
    BY <1>2, <1>3, <1>4, <1>5, <1>6, <1>7, <1>8

LEMMA CallsSpend ==
    ASSUME SyncBase, SyncBase', GroupsGrow, UNCHANGED source,
           NEW d \in SyncDeliveries, NEW e \in Channels,
           \/ Sync!Copied(d, e) \/ Sync!CopyFails(d, e) \/ Sync!Mirrored(d, e)
           \/ Sync!MirrorFails(d, e) \/ Sync!Changed(d, e) \/ Sync!ChangeFails(d, e),
           NEW o \in Comments, NEW ch \in Channels
    PROVE  Spends(d, o, ch)
  <1>1. /\ SyncTypes /\ Fit(d) /\ d[2] \in Sync!Objects /\ Post \in Sync!Objects
        /\ o \in Sync!Objects /\ o # Post
        /\ Sync!Known(d[2]) => Sync!Known(d[2])'
    BY SyncFacts DEF SyncBase, GroupsGrow
  <1>2. /\ Sync!Done(d, e).at = jobs[d].at /\ Sync!Done(d, e).todo = jobs[d].todo \ {e}
        /\ Sync!Done(d, e) \in JobRows
    BY <1>1, DoneShape
  <1>3. CASE Sync!Copied(d, e) \/ Sync!CopyFails(d, e)
    <2>1. /\ jobs[d].at \in {"filling", "copying"} /\ e \in jobs[d].todo
          /\ Sync!Make(Sync!Target(d), e) \/ UNCHANGED made
          /\ \/ Sync!Moves(d, Sync!Done(d, e))
             \/ Sync!Finish(d, "failed") /\ jobs[d].at # "filling"
      BY <1>3 DEF Sync!Copied, Sync!CopyFails, Sync!Calls, Sync!Raises
    <2>2. \/ jobs'[d].at = jobs[d].at /\ jobs'[d].todo = jobs[d].todo \ {e}
          \/ jobs'[d].at = "idle" /\ jobs[d].at # "filling"
      BY <1>1, <1>2, <2>1, MovedTo
    <2>3. CASE jobs[d].at = "filling"
      <3>1. made'[o][ch] = made[o][ch]
        <4>1. CASE Sync!Make(Post, e)
          BY <1>1, <4>1, MakeShape
        <4> QED
          BY <2>1, <2>3, <4>1 DEF Sync!Target
      <3> QED
        BY <2>2, <2>3, <3>1 DEF Spends, Can
    <2>4. CASE jobs[d].at = "copying"
      <3>1. d[1] = "create" /\ source[d[2]] = Remote /\ Sync!Known(d[2])'
        BY <1>1, <2>4 DEF Fit
      <3>2. /\ Can(d, e) /\ ~Can(d, e)' /\ (Can(d, ch)' => Can(d, ch))
        BY <2>1, <2>2, <2>4, <3>1 DEF Can
      <3>3. made'[o][ch] = made[o][ch] \/ (o = d[2] /\ ch = e /\ made'[o][ch] = made[o][ch] + 1)
        <4>1. CASE Sync!Make(d[2], e)
          BY <1>1, <4>1, MakeShape
        <4> QED
          BY <2>1, <2>4, <4>1 DEF Sync!Target
      <3> QED
        BY <3>1, <3>2, <3>3 DEF Spends, Creates
    <2> QED
      BY <2>1, <2>3, <2>4
  <1>4. CASE Sync!Mirrored(d, e) \/ Sync!MirrorFails(d, e)
    <2>1. /\ jobs[d].at = "mirroring" /\ e \in jobs[d].todo /\ d[1] = "create"
          /\ Sync!Make(d[2], e) \/ UNCHANGED made
          /\ \/ Sync!Moves(d, Sync!Done(d, e))
             \/ Sync!Moves(d, [Sync!Done(d, e) EXCEPT !.sent = @ \cup {e}])
      BY <1>1, <1>4 DEF Sync!Mirrored, Sync!MirrorFails, Fit
    <2>2. jobs'[d].at = jobs[d].at /\ jobs'[d].todo = jobs[d].todo \ {e}
      BY <1>1, <1>2, <2>1, MovedTo DEF JobRows
    <2>3. /\ Can(d, e) /\ ~Can(d, e)' /\ (Can(d, ch)' => Can(d, ch))
      BY <2>1, <2>2 DEF Can
    <2>4. made'[o][ch] = made[o][ch] \/ (o = d[2] /\ ch = e /\ made'[o][ch] = made[o][ch] + 1)
      <3>1. CASE Sync!Make(d[2], e)
        BY <1>1, <3>1, MakeShape
      <3> QED
        BY <2>1, <3>1
    <2> QED
      BY <2>1, <2>3, <2>4 DEF Spends, Creates
  <1>5. CASE Sync!Changed(d, e) \/ Sync!ChangeFails(d, e)
    BY <1>1, <1>5 DEF Sync!Changed, Sync!ChangeFails, Spends, Creates, Fit
  <1> QED
    BY <1>3, <1>4, <1>5

LEMMA BrokenGrows ==
    ASSUME SyncTypes, [Sync!Next]_syncVars
    PROVE  syncBroken <= syncBroken'
  <1>1. syncBroken \in Nat
    BY DEF SyncTypes
  <1>2. ASSUME NEW d \in SyncDeliveries, Sync!Receive(d) \/ Sync!Proceed(d) \/ Sync!Fails(d)
        PROVE  syncBroken' \in {syncBroken, syncBroken + 1}
    BY <1>2
    DEF Sync!Receive, Sync!SkipCreate, Sync!InboundPost, Sync!InboundComment, Sync!MemberPosts,
        Sync!Change, Sync!Proceed, Sync!Fetched, Sync!Ready, Sync!CopiesDone, Sync!Published,
        Sync!RecordMirrors, Sync!ChangesDone, Sync!Copied, Sync!Mirrored, Sync!Changed,
        Sync!Fails, Sync!Break, Sync!Redeliver, Sync!FetchFails, Sync!PublishFails,
        Sync!CopyFails, Sync!MirrorFails, Sync!ChangeFails
  <1>3. syncBroken' \in {syncBroken, syncBroken + 1}
    BY <1>2 DEF Sync!Next, Sync!Resubscribe, Sync!Crash, syncVars
  <1> QED
    BY <1>1, <1>3

(* No copy of a remote comment is there before its group.                  *)
LEMMA UnseenStep ==
    ASSUME SyncBase, CopiesInv, [Sync!Next]_syncVars, NEW o \in Comments, NEW ch \in Channels,
           source'[o] = Remote, ~Sync!Known(o)'
    PROVE  made'[o][ch] = 0
  <1>1. SyncTypes /\ GroupsGrow /\ UNCHANGED source /\ SyncBase'
    BY SyncBaseStep DEF SyncBase
  <1>2. o \in Sync!Objects /\ o # Post
    BY SyncFacts
  <1>3. ~Sync!Known(o) /\ made[o][ch] = 0
    BY <1>1, <1>2 DEF CopiesInv, GroupsGrow
  <1>4. ASSUME NEW d \in SyncDeliveries, Sync!Receive(d)
        PROVE  made'[o][ch] = made[o][ch]
    <2>1. CASE Sync!MemberPosts(d)
      <3>1. d[2] # o /\ made' = [made EXCEPT ![d[2]][source[d[2]]] = 1]
        BY <1>1, <2>1 DEF Sync!MemberPosts, Sync!FromRemote
      <3> QED
        BY <1>1, <1>2, <3>1 DEF SyncTypes
    <2>2. CASE ~Sync!MemberPosts(d)
      BY <1>4, <2>2
      DEF Sync!Receive, Sync!SkipCreate, Sync!InboundPost, Sync!InboundComment, Sync!Change
    <2> QED
      BY <2>1, <2>2
  <1>5. ASSUME NEW d \in SyncDeliveries, NEW e \in Channels,
               \/ Sync!Copied(d, e) \/ Sync!CopyFails(d, e)
               \/ Sync!Mirrored(d, e) \/ Sync!MirrorFails(d, e)
        PROVE  made'[o][ch] = made[o][ch]
    <2>1. Fit(d) /\ d[2] \in Sync!Objects /\ Post \in Sync!Objects
      BY <1>1, SyncFacts DEF SyncBase
    <2>2. UNCHANGED made \/ \E p \in Sync!Objects \ {o} : Sync!Make(p, e)
      <3>1. CASE Sync!Copied(d, e) \/ Sync!CopyFails(d, e)
        <4>1. /\ jobs[d].at \in {"filling", "copying"}
              /\ UNCHANGED made \/ Sync!Make(Sync!Target(d), e)
          BY <3>1 DEF Sync!Copied, Sync!CopyFails, Sync!Calls
        <4>2. Sync!Target(d) \in Sync!Objects \ {o}
          BY <1>2, <1>3, <2>1, <4>1 DEF Sync!Target, Fit
        <4> QED
          BY <4>1, <4>2
      <3>2. CASE Sync!Mirrored(d, e) \/ Sync!MirrorFails(d, e)
        <4>1. /\ jobs[d].at = "mirroring"
              /\ UNCHANGED made \/ Sync!Make(d[2], e)
          BY <3>2 DEF Sync!Mirrored, Sync!MirrorFails
        <4>2. d[2] # o
          BY <1>1, <2>1, <4>1 DEF Fit
        <4> QED
          BY <2>1, <4>1, <4>2
      <3> QED
        BY <1>5, <3>1, <3>2
    <2> QED
      BY <1>1, <1>2, <2>2, MakeShape
  <1>6. ASSUME NEW d \in SyncDeliveries,
               \/ Sync!Fetched(d) \/ Sync!Ready(d) \/ Sync!CopiesDone(d) \/ Sync!ChangesDone(d)
               \/ Sync!Published(d) \/ Sync!RecordMirrors(d)
               \/ Sync!FetchFails(d) \/ Sync!PublishFails(d) \/ Sync!Break(d) \/ Sync!Redeliver(d)
               \/ \E e \in Channels : Sync!Changed(d, e) \/ Sync!ChangeFails(d, e)
        PROVE  made'[o][ch] = made[o][ch]
    BY <1>6
    DEF Sync!Fetched, Sync!Ready, Sync!CopiesDone, Sync!ChangesDone, Sync!Published,
        Sync!RecordMirrors, Sync!FetchFails, Sync!PublishFails, Sync!Break, Sync!Redeliver,
        Sync!Changed, Sync!ChangeFails
  <1>7. CASE Sync!Crash \/ UNCHANGED syncVars \/ \E e \in Channels : Sync!Resubscribe(e)
    <2>1. made' = made
      BY <1>7 DEF Sync!Crash, Sync!Resubscribe, syncVars
    <2> QED
      BY <1>3, <2>1
  <1> QED
    BY <1>3, <1>4, <1>5, <1>6, <1>7 DEF Sync!Next, Sync!Proceed, Sync!Fails

(* Only a request that breaks makes a handler loose.                       *)
LEMMA LooseStep ==
    ASSUME SyncBase, CopiesInv, [Sync!Next]_syncVars
    PROVE  Few({d \in SyncDeliveries : Loose(d)'}, syncBroken')
  <1> DEFINE Now == {d \in SyncDeliveries : Loose(d)}
             Then == {d \in SyncDeliveries : Loose(d)'}
  <1>1. SyncTypes /\ UNCHANGED source /\ Nothing \notin SyncDeliveries /\ SyncTypes'
    BY SyncBaseStep, BridgingAssumption DEF SyncBase, Sync!CommunitySyncAssumption
  <1>2. Few(Now, syncBroken) /\ syncBroken \in Nat /\ syncBroken' \in Nat
    BY <1>1 DEF CopiesInv, SyncTypes
  <1>3. ASSUME \A e \in SyncDeliveries : Loose(e)' => Loose(e), syncBroken <= syncBroken'
        PROVE  Few(Then, syncBroken')
    <2>1. Then \in SUBSET Now
      BY <1>3
    <2> QED
      BY <1>2, <1>3, <2>1, FewLess
  <1>4. ASSUME NEW d \in SyncDeliveries
        PROVE  /\ \A j : Sync!Moves(d, j) /\ jobs[d].at # "idle" =>
                     \A e \in SyncDeliveries : Loose(e)' => Loose(e)
               /\ \A s : Sync!Finish(d, s) => \A e \in SyncDeliveries : Loose(e)' => Loose(e)
               /\ \A j : Sync!Begins(d) /\ Sync!Start(d, j) =>
                     \A e \in SyncDeliveries : Loose(e)' => Loose(e)
    <2>1. \A j : Sync!Moves(d, j) /\ jobs[d].at # "idle" =>
             \A e \in SyncDeliveries : Loose(e)' => Loose(e)
      BY <1>1 DEF Sync!Moves, Loose, SyncTypes
    <2>2. \A s : Sync!Finish(d, s) => \A e \in SyncDeliveries : Loose(e)' => Loose(e)
      BY <1>1, SyncFacts DEF Sync!Finish, Loose, SyncTypes
    <2>3. \A j : Sync!Begins(d) /\ Sync!Start(d, j) =>
             \A e \in SyncDeliveries : Loose(e)' => Loose(e)
      BY <1>1 DEF Sync!Begins, Sync!Start, Sync!FromRemote, Loose, SyncTypes
    <2> QED
      BY <2>1, <2>2, <2>3
  <1>5. ASSUME NEW d \in SyncDeliveries, Sync!Receive(d)
        PROVE  Few(Then, syncBroken')
    <2>1. /\ syncBroken' = syncBroken
          /\ Sync!Begins(d) /\ ((\E j : Sync!Start(d, j)) \/ \E s : Sync!Finish(d, s))
      BY <1>5
      DEF Sync!Receive, Sync!SkipCreate, Sync!InboundPost, Sync!InboundComment,
          Sync!InboundCreate, Sync!MemberPosts, Sync!Change
    <2> QED
      BY <1>2, <1>3, <1>4, <2>1
  <1>6. ASSUME NEW d \in SyncDeliveries,
               \/ Sync!Proceed(d) \/ Sync!FetchFails(d) \/ Sync!PublishFails(d)
               \/ \E ch \in Channels : \/ Sync!CopyFails(d, ch) \/ Sync!MirrorFails(d, ch)
                                       \/ Sync!ChangeFails(d, ch)
        PROVE  Few(Then, syncBroken')
    <2>1. /\ syncBroken' = syncBroken
          /\ \/ jobs[d].at # "idle" /\ \E j : Sync!Moves(d, j)
             \/ \E s : Sync!Finish(d, s)
      BY <1>6
      DEF Sync!Proceed, Sync!Fetched, Sync!Ready, Sync!CopiesDone, Sync!ChangesDone,
          Sync!Published, Sync!RecordMirrors, Sync!Copied, Sync!Mirrored, Sync!Changed,
          Sync!FetchFails, Sync!PublishFails, Sync!CopyFails, Sync!MirrorFails,
          Sync!ChangeFails, Sync!Calls, Sync!Raises
    <2> QED
      BY <1>2, <1>3, <1>4, <2>1
  <1>7. ASSUME NEW d \in SyncDeliveries, Sync!Break(d)
        PROVE  Few(Then, syncBroken')
    <2>1. syncBroken' = syncBroken + 1 /\ open = d /\ UNCHANGED <<jobs, source>>
      BY <1>7 DEF Sync!Break
    <2>2. Then \in SUBSET (Now \cup {d})
      BY <2>1 DEF Loose
    <2> QED
      BY <1>2, <2>1, <2>2, FewMore
  <1>8. ASSUME NEW d \in SyncDeliveries, Sync!Redeliver(d)
        PROVE  Few(Then, syncBroken')
    BY <1>2, <1>3, <1>8 DEF Sync!Redeliver, Loose
  <1>9. CASE Sync!Crash
    <2>1. syncBroken' = syncBroken /\ \A e \in SyncDeliveries : jobs'[e].at = "idle"
      BY <1>9, SyncFacts DEF Sync!Crash
    <2> QED
      BY <1>2, <1>3, <2>1 DEF Loose
  <1>10. CASE UNCHANGED syncVars \/ \E ch \in Channels : Sync!Resubscribe(ch)
    BY <1>2, <1>3, <1>10 DEF Sync!Resubscribe, syncVars, Loose
  <1> QED
    BY <1>5, <1>6, <1>7, <1>8, <1>9, <1>10 DEF Sync!Next, Sync!Fails

LEMMA CopiesStep == SyncBase /\ CopiesInv /\ [Sync!Next]_syncVars => CopiesInv'
  <1> SUFFICES ASSUME SyncBase, CopiesInv, [Sync!Next]_syncVars PROVE CopiesInv'
    OBVIOUS
  <1>1. SyncBase' /\ UNCHANGED source /\ SyncTypes /\ GroupsGrow
    BY SyncBaseStep DEF SyncBase
  <1>2. syncBroken <= syncBroken' /\ syncBroken \in Nat /\ syncBroken' \in Nat
    BY <1>1, BrokenGrows DEF SyncBase, SyncTypes
  <1> SUFFICES ASSUME NEW o \in Comments, NEW ch \in Channels
               PROVE  made'[o][ch] + Cardinality({d \in Creates(o) : Can(d, ch)'})
                         <= 1 + syncBroken'
    BY UnseenStep, LooseStep DEF CopiesInv, Creates
  <1>3. ASSUME NEW d \in SyncDeliveries, Sync!Receive(d) \/ Sync!Proceed(d) \/ Sync!Fails(d)
        PROVE  made'[o][ch] + Cardinality({e \in Creates(o) : Can(e, ch)'}) <= 1 + syncBroken'
    <2>1. Alone(d)
      BY <1>1, <1>3, ActorAlone DEF Sync!Fails
    <2>2. Spends(d, o, ch) \/ (Sync!InboundComment(d) /\ o = d[2])
      BY <1>1, <1>3, ReceiveSpends, ProceedSpends, CallsSpend DEF Sync!Proceed, Sync!Fails
    <2> QED
      BY <1>1, <1>2, <2>1, <2>2, CopiesMoves
  <1>4. ASSUME UNCHANGED made, \A d \in Creates(o) : Can(d, ch)' => Can(d, ch)
        PROVE  made'[o][ch] + Cardinality({e \in Creates(o) : Can(e, ch)'}) <= 1 + syncBroken'
    <2>1. made'[o][ch] \in Nat
      BY <1>1, SyncFacts DEF SyncBase, SyncTypes
    <2> QED
      BY <1>2, <1>4, <2>1, CopiesCount
  <1>5. CASE UNCHANGED syncVars \/ \E e \in Channels : Sync!Resubscribe(e)
    BY <1>4, <1>5 DEF Sync!Resubscribe, syncVars, Can
  <1>6. CASE Sync!Crash
    <2>1. /\ UNCHANGED <<source, made, status>>
          /\ \A d \in SyncDeliveries : jobs'[d].at = "idle"
      BY <1>6, SyncFacts DEF Sync!Crash
    <2>2. ASSUME NEW d \in Creates(o), Can(d, ch)'
          PROVE  Can(d, ch)
      <3>1. Fit(d) /\ d \in SyncDeliveries
        BY <1>1 DEF SyncBase, Creates
      <3>2. source[d[2]] # Remote /\ status[d] = "none" /\ d[3] = 1
        BY <2>1, <2>2, <3>1 DEF Can
      <3> QED
        BY <3>1, <3>2 DEF Fit, Can
    <2> QED
      BY <1>4, <2>1, <2>2
  <1> QED
    BY <1>3, <1>5, <1>6 DEF Sync!Next

LEMMA CopiesBound == SyncBase /\ CopiesInv => RetriesAddNoCopy
  <1> SUFFICES ASSUME SyncBase, CopiesInv, NEW o \in Comments, NEW ch \in Channels
               PROVE  made[o][ch] <= 1 + syncBroken
    BY DEF RetriesAddNoCopy, Sync!RetriesAddNoCopy
  <1>1. IsFiniteSet(Creates(o))
    BY SyncFacts, FS_Subset DEF Creates
  <1>2. /\ Cardinality({d \in Creates(o) : Can(d, ch)}) \in Nat
        /\ made[o][ch] \in Nat /\ syncBroken \in Nat
    BY <1>1, SyncFacts, FS_Subset, FS_CardinalityType DEF SyncBase, SyncTypes
  <1> QED
    BY <1>2 DEF CopiesInv

(* As long as no subscription changed all channels are subscribed, or none *)
(* is since a crash.                                                       *)
MembersInv ==
    syncChurn = 0 =>
        \A ch \in Channels : members[ch] = IF syncCrashes = 0 THEN "accepted" ELSE "stale"

(* What a handler of a remote comment is sure of: the channels that have   *)
(* no thread and get none, and the threads it does not copy to, are no     *)
(* more than the calls that failed.                                        *)
Reached(d) ==
    /\ jobs[d].at = "waiting" =>
          /\ jobs[d].group = 1 /\ Sync!Known(Post)
          /\ Few(Channels \ Sync!Shown(Post, 1), syncFaults)
    /\ jobs[d].at = "filling" =>
          /\ jobs[d].group = 1 /\ Sync!Known(Post)
          /\ Few(Channels \ (Sync!Shown(Post, 1) \cup jobs[d].todo), syncFaults)
    /\ jobs[d].at = "copying" =>
          Few({ch \in Channels : made[d[2]][ch] = 0 /\ ch \notin jobs[d].todo}, syncFaults)
    /\ status[d] = "processed" => Few({ch \in Channels : made[d[2]][ch] = 0}, syncFaults)

Inbound(d) == d[1] = "create" /\ d[2] \in Comments /\ source[d[2]] = Remote

ReachInv ==
    /\ MembersInv
    /\ syncChurn = 0 /\ syncCrashes = 0 => \A d \in SyncDeliveries : Inbound(d) => Reached(d)

(* Copies stay, and troubles are counted.                                  *)
LEMMA MadeGrows ==
    ASSUME SyncTypes, [Sync!Next]_syncVars
    PROVE  /\ \A o \in Sync!Objects, ch \in Channels : made'[o][ch] = 0 => made[o][ch] = 0
           /\ syncChurn' \in {syncChurn, syncChurn + 1}
           /\ syncFaults' \in {syncFaults, syncFaults + 1}
           /\ syncCrashes' \in {syncCrashes, syncCrashes + 1}
  <1> DEFINE Goal == /\ \A o \in Sync!Objects, ch \in Channels :
                           made'[o][ch] = 0 => made[o][ch] = 0
                     /\ syncChurn' \in {syncChurn, syncChurn + 1}
                     /\ syncFaults' \in {syncFaults, syncFaults + 1}
                     /\ syncCrashes' \in {syncCrashes, syncCrashes + 1}
  <1>1. ASSUME UNCHANGED <<made, syncChurn, syncCrashes>>,
               syncFaults' \in {syncFaults, syncFaults + 1}
        PROVE  Goal
    BY <1>1
  <1>2. ASSUME NEW o \in Sync!Objects, NEW ch \in Channels, Sync!Make(o, ch),
               UNCHANGED <<syncChurn, syncCrashes>>, syncFaults' \in {syncFaults, syncFaults + 1}
        PROVE  Goal
    <2>1. /\ made'[o][ch] = made[o][ch] + 1 /\ made[o][ch] \in Nat
          /\ \A p \in Sync!Objects, e \in Channels :
                p # o \/ e # ch => made'[p][e] = made[p][e]
      BY <1>2, MakeShape DEF SyncTypes
    <2>2. ASSUME NEW p \in Sync!Objects, NEW e \in Channels, made'[p][e] = 0
          PROVE  made[p][e] = 0
      BY <2>1, <2>2
    <2> QED
      BY <1>2, <2>2
  <1>3. ASSUME NEW d \in SyncDeliveries, Sync!Receive(d)
        PROVE  Goal
    <2>1. CASE Sync!MemberPosts(d)
      <3>1. /\ made' = [made EXCEPT ![d[2]][source[d[2]]] = 1]
            /\ UNCHANGED <<syncChurn, syncFaults, syncCrashes>>
        BY <2>1 DEF Sync!MemberPosts
      <3>2. \A o \in Sync!Objects, ch \in Channels :
               made'[o][ch] = made[o][ch] \/ made'[o][ch] = 1
        BY <3>1 DEF SyncTypes
      <3> QED
        BY <3>1, <3>2
    <2>2. CASE \/ Sync!SkipCreate(d) \/ Sync!InboundPost(d)
               \/ Sync!InboundComment(d) \/ Sync!Change(d)
      BY <1>1, <2>2
      DEF Sync!SkipCreate, Sync!InboundPost, Sync!InboundComment, Sync!Change
    <2> QED
      BY <1>3, <2>1, <2>2 DEF Sync!Receive
  <1>4. ASSUME NEW d \in SyncDeliveries,
               \/ Sync!Fetched(d) \/ Sync!Ready(d) \/ Sync!CopiesDone(d) \/ Sync!ChangesDone(d)
               \/ Sync!Published(d) \/ Sync!RecordMirrors(d)
               \/ Sync!FetchFails(d) \/ Sync!PublishFails(d) \/ Sync!Break(d) \/ Sync!Redeliver(d)
        PROVE  Goal
    <2>1. /\ UNCHANGED <<made, syncChurn, syncCrashes>>
          /\ syncFaults' \in {syncFaults, syncFaults + 1}
      BY <1>4
      DEF Sync!Fetched, Sync!Ready, Sync!CopiesDone, Sync!ChangesDone, Sync!Published,
          Sync!RecordMirrors, Sync!FetchFails, Sync!PublishFails, Sync!Break, Sync!Redeliver,
          Sync!Fault
    <2> QED
      BY <1>1, <2>1
  <1>5. ASSUME NEW d \in SyncDeliveries, NEW ch \in Channels,
               \/ Sync!Copied(d, ch) \/ Sync!CopyFails(d, ch) \/ Sync!Mirrored(d, ch)
               \/ Sync!MirrorFails(d, ch) \/ Sync!Changed(d, ch) \/ Sync!ChangeFails(d, ch)
        PROVE  Goal
    <2>1. /\ UNCHANGED <<syncChurn, syncCrashes>>
          /\ syncFaults' \in {syncFaults, syncFaults + 1}
          /\ \/ UNCHANGED made \/ Sync!Make(Sync!Target(d), ch) \/ Sync!Make(d[2], ch)
      BY <1>5
      DEF Sync!Copied, Sync!CopyFails, Sync!Mirrored, Sync!MirrorFails, Sync!Changed,
          Sync!ChangeFails, Sync!Fault
    <2>2. Sync!Target(d) \in Sync!Objects /\ d[2] \in Sync!Objects
      BY SyncFacts DEF Sync!Target
    <2> HIDE DEF Goal
    <2> QED
      BY <1>1, <1>2, <2>1, <2>2
  <1>6. ASSUME (\E ch \in Channels : Sync!Resubscribe(ch)) \/ Sync!Crash \/ UNCHANGED syncVars
        PROVE  Goal
    BY <1>6 DEF Sync!Resubscribe, Sync!Crash, syncVars
  <1> QED
    BY <1>3, <1>4, <1>5, <1>6 DEF Sync!Next, Sync!Proceed, Sync!Fails

LEMMA MembersStep == SyncBase /\ MembersInv /\ [Sync!Next]_syncVars => MembersInv'
  <1> SUFFICES ASSUME SyncBase, MembersInv, [Sync!Next]_syncVars PROVE MembersInv'
    OBVIOUS
  <1>1. SyncTypes
    BY DEF SyncBase
  <1>2. ASSUME UNCHANGED <<syncChurn, syncCrashes>>,
               members' = members \/ members' = Sync!Promoted
        PROVE  MembersInv'
    <2>1. syncChurn = 0 => Sync!Promoted = members
      BY DEF MembersInv, Sync!Promoted
    <2> QED
      BY <1>2, <2>1 DEF MembersInv
  <1>3. ASSUME NEW d \in SyncDeliveries, Sync!Receive(d)
        PROVE  MembersInv'
    BY <1>2, <1>3
    DEF Sync!Receive, Sync!SkipCreate, Sync!InboundPost, Sync!InboundComment, Sync!InboundCreate,
        Sync!Promote, Sync!MemberPosts, Sync!Change
  <1>4. ASSUME NEW d \in SyncDeliveries,
               \/ Sync!Fetched(d) \/ Sync!Ready(d) \/ Sync!CopiesDone(d) \/ Sync!ChangesDone(d)
               \/ Sync!Published(d) \/ Sync!RecordMirrors(d)
               \/ Sync!FetchFails(d) \/ Sync!PublishFails(d) \/ Sync!Break(d) \/ Sync!Redeliver(d)
        PROVE  MembersInv'
    BY <1>2, <1>4
    DEF Sync!Fetched, Sync!Ready, Sync!CopiesDone, Sync!ChangesDone, Sync!Published,
        Sync!RecordMirrors, Sync!FetchFails, Sync!PublishFails, Sync!Break, Sync!Redeliver
  <1>5. ASSUME NEW d \in SyncDeliveries, NEW ch \in Channels,
               \/ Sync!Copied(d, ch) \/ Sync!CopyFails(d, ch) \/ Sync!Mirrored(d, ch)
               \/ Sync!MirrorFails(d, ch) \/ Sync!Changed(d, ch) \/ Sync!ChangeFails(d, ch)
        PROVE  MembersInv'
    BY <1>2, <1>5
    DEF Sync!Copied, Sync!CopyFails, Sync!Mirrored, Sync!MirrorFails, Sync!Changed,
        Sync!ChangeFails
  <1>6. ASSUME NEW ch \in Channels, Sync!Resubscribe(ch)
        PROVE  MembersInv'
    BY <1>1, <1>6 DEF Sync!Resubscribe, MembersInv, SyncTypes
  <1>7. CASE Sync!Crash
    BY <1>1, <1>7 DEF Sync!Crash, MembersInv, SyncTypes
  <1>8. CASE UNCHANGED syncVars
    BY <1>8 DEF syncVars, MembersInv
  <1> QED
    BY <1>3, <1>4, <1>5, <1>6, <1>7, <1>8 DEF Sync!Next, Sync!Proceed, Sync!Fails

(* What a handler is sure of stays true while it does not move.            *)
LEMMA ReachedStays ==
    ASSUME SyncTypes, GroupsGrow, UNCHANGED source, syncFaults' \in {syncFaults, syncFaults + 1},
           \A o \in Sync!Objects, ch \in Channels : made'[o][ch] = 0 => made[o][ch] = 0,
           NEW e \in SyncDeliveries, Reached(e), jobs'[e] = jobs[e],
           status'[e] = "processed" => status[e] = "processed"
    PROVE  Reached(e)'
  <1>1. PICK n, m : n = syncFaults /\ m = syncFaults'
    OBVIOUS
  <1>2. n \in Nat /\ m \in Nat /\ n <= m
    BY <1>1 DEF SyncTypes
  <1>3. PICK S, T : S = Sync!Shown(Post, 1) /\ T = Sync!Shown(Post, 1)'
    OBVIOUS
  <1>4. Sync!Known(Post) => Sync!Known(Post)' /\ S \subseteq T
    BY <1>3, SyncFacts DEF GroupsGrow
  <1>5. PICK z, w : z = made[e[2]] /\ w = made'[e[2]]
    OBVIOUS
  <1>6. \A ch \in Channels : w[ch] = 0 => z[ch] = 0
    BY <1>5, SyncFacts
  <1>7. jobs[e].at = "waiting" => Few(Channels \ T, m)
    <2>1. jobs[e].at = "waiting" => Few(Channels \ S, n) /\ Channels \ T \in SUBSET (Channels \ S)
      BY <1>1, <1>3, <1>4 DEF Reached
    <2> QED
      BY <1>2, <2>1, FewLess
  <1>8. jobs[e].at = "filling" => Few(Channels \ (T \cup jobs[e].todo), m)
    <2>1. jobs[e].at = "filling" =>
             /\ Few(Channels \ (S \cup jobs[e].todo), n)
             /\ Channels \ (T \cup jobs[e].todo) \in SUBSET (Channels \ (S \cup jobs[e].todo))
      BY <1>1, <1>3, <1>4 DEF Reached
    <2> QED
      BY <1>2, <2>1, FewLess
  <1>9. jobs[e].at = "copying" => Few({ch \in Channels : w[ch] = 0 /\ ch \notin jobs[e].todo}, m)
    <2>1. jobs[e].at = "copying" =>
             Few({ch \in Channels : z[ch] = 0 /\ ch \notin jobs[e].todo}, n)
      BY <1>1, <1>5 DEF Reached
    <2>2. {ch \in Channels : w[ch] = 0 /\ ch \notin jobs[e].todo}
             \in SUBSET {ch \in Channels : z[ch] = 0 /\ ch \notin jobs[e].todo}
      BY <1>6
    <2> QED
      BY <1>2, <2>1, <2>2, FewLess
  <1>10. status[e] = "processed" => Few({ch \in Channels : w[ch] = 0}, m)
    <2>1. status[e] = "processed" => Few({ch \in Channels : z[ch] = 0}, n)
      BY <1>1, <1>5 DEF Reached
    <2>2. {ch \in Channels : w[ch] = 0} \in SUBSET {ch \in Channels : z[ch] = 0}
      BY <1>6
    <2> QED
      BY <1>2, <2>1, <2>2, FewLess
  <1>11. jobs[e].at \in {"waiting", "filling"} => jobs[e].group = 1 /\ Sync!Known(Post)'
    BY <1>4 DEF Reached
  <1> QED
    BY <1>1, <1>3, <1>5, <1>7, <1>8, <1>9, <1>10, <1>11 DEF Reached

(* It is sure of it when it begins, when it has fetched the post and when  *)
(* it goes to the threads there are.                                       *)
LEMMA ReachedAnew ==
    ASSUME SyncBase, SyncBase', GroupsGrow, [Sync!Next]_syncVars,
           NEW d \in SyncDeliveries, Inbound(d), Reached(d),
           \A ch \in Channels : members[ch] = "accepted",
           Sync!InboundComment(d) \/ Sync!Fetched(d) \/ Sync!Ready(d)
    PROVE  Reached(d)'
  <1>1. /\ SyncTypes /\ syncFaults \in Nat /\ Post \in Sync!Objects /\ d[2] # Post
        /\ d[2] \in Sync!Objects
    BY SyncFacts DEF SyncBase, SyncTypes, Inbound
  <1>2. Sync!Accepted = Channels /\ Sync!Subscribed = Channels
    BY DEF Sync!Accepted, Sync!Subscribed, Sync!Promoted
  <1>3. CASE Sync!InboundComment(d)
    <2>1. UNCHANGED <<groups, syncFaults>> /\ status'[d] = "in_progress"
      BY <1>1, <1>3 DEF Sync!InboundComment, Sync!Start, SyncTypes
    <2>2. CASE Sync!NeedsBackfill
      <3>1. jobs'[d] = Sync!At("fetching", 0, {})
        BY <1>1, <1>3, <2>2, MovedTo DEF Sync!InboundComment
      <3> QED
        BY <2>1, <3>1, AtShape DEF Reached, Stages
    <2>3. CASE ~Sync!NeedsBackfill
      <3>1. jobs'[d] = Sync!At("waiting", 1, {})
        BY <1>1, <1>3, <2>3, MovedTo DEF Sync!InboundComment
      <3>2. Sync!Known(Post)
        BY <1>2, <1>3, <2>3 DEF Sync!InboundComment, Sync!NeedsBackfill
      <3>3. Channels \ Sync!Shown(Post, 1) = {}
        BY <1>2, <2>3, <3>2 DEF Sync!NeedsBackfill
      <3>4. Few(Channels \ Sync!Shown(Post, 1), syncFaults)
        BY <1>1, <3>3, FewNone
      <3>5. /\ Sync!Known(Post)' /\ Few(Channels \ Sync!Shown(Post, 1)', syncFaults')
        BY <2>1, <3>2, <3>4 DEF Sync!Known, Sync!Shown
      <3> QED
        BY <2>1, <3>1, <3>5, AtShape DEF Reached, Stages
    <2> QED
      BY <2>2, <2>3
  <1>4. CASE Sync!Fetched(d)
    <2>1. /\ UNCHANGED <<made, syncFaults>> /\ status' = status /\ jobs[d].at = "fetching"
          /\ jobs'[d] = Sync!At("filling", 1, IF Sync!Known(Post)
                                              THEN Sync!Accepted \ Sync!Shown(Post, 1)
                                              ELSE Sync!Accepted)
      BY <1>1, <1>4, MovedTo DEF Sync!Fetched, Sync!Moves
    <2>2. Sync!Known(Post)' /\ (Sync!Known(Post) => Sync!Shown(Post, 1) = Sync!Shown(Post, 1)')
      BY <1>1, <1>4 DEF Sync!Fetched, Sync!Known, Sync!Shown, SyncTypes
    <2>3. PICK T \in SUBSET Channels :
             /\ T = IF Sync!Known(Post) THEN Sync!Accepted \ Sync!Shown(Post, 1)
                                        ELSE Sync!Accepted
             /\ jobs'[d] = Sync!At("filling", 1, T)
      BY <1>2, <2>1
    <2>4. Channels \ (Sync!Shown(Post, 1)' \cup T) = {}
      BY <1>2, <2>2, <2>3
    <2>5. jobs'[d].at = "filling" /\ jobs'[d].group = 1 /\ jobs'[d].todo = T
      BY <2>3, AtShape DEF Stages
    <2>6. Few(Channels \ (Sync!Shown(Post, 1)' \cup T), syncFaults')
      BY <1>1, <2>1, <2>4, FewNone
    <2>7. status'[d] = "processed" => Few({ch \in Channels : made'[d[2]][ch] = 0}, syncFaults')
      BY <2>1 DEF Reached
    <2> QED
      BY <2>2, <2>5, <2>6, <2>7 DEF Reached
  <1>5. CASE Sync!Ready(d)
    <2>1. /\ UNCHANGED <<made, syncFaults>> /\ status' = status
          /\ jobs[d].at = "waiting" \/ (jobs[d].at = "filling" /\ jobs[d].todo = {})
          /\ jobs'[d] = Sync!At("copying", Len(groups[d[2]]) + 1, Sync!Shown(Post, jobs[d].group))
      BY <1>1, <1>5, MovedTo DEF Sync!Ready, Sync!Moves
    <2>2. jobs[d].group = 1 /\ Few(Channels \ Sync!Shown(Post, 1), syncFaults)
      BY <2>1 DEF Reached
    <2>3. Len(groups[d[2]]) + 1 \in Nat /\ Sync!Shown(Post, 1) \in SUBSET Channels
      BY <1>1, KnownShape DEF Sync!Shown
    <2>4. jobs'[d].at = "copying" /\ jobs'[d].todo = Sync!Shown(Post, 1)
      BY <2>1, <2>2, <2>3, AtShape DEF Stages
    <2>5. PICK S : S = Sync!Shown(Post, 1)
      OBVIOUS
    <2>6. {ch \in Channels : made'[d[2]][ch] = 0 /\ ch \notin S} \in SUBSET (Channels \ S)
      OBVIOUS
    <2>7. Few({ch \in Channels : made'[d[2]][ch] = 0 /\ ch \notin S}, syncFaults')
      BY <1>1, <2>1, <2>2, <2>5, <2>6, FewLess
    <2>8. status'[d] = "processed" => Few({ch \in Channels : made'[d[2]][ch] = 0}, syncFaults')
      BY <2>1 DEF Reached
    <2> QED
      BY <2>4, <2>5, <2>7, <2>8 DEF Reached
  <1> QED
    BY <1>3, <1>4, <1>5

(* It stays sure of it with every copy it makes, and with every call that  *)
(* fails.                                                                  *)
LEMMA ReachedCopies ==
    ASSUME SyncBase, SyncBase', GroupsGrow, [Sync!Next]_syncVars,
           NEW d \in SyncDeliveries, Inbound(d), Reached(d), NEW ch \in Channels,
           Sync!Copied(d, ch) \/ Sync!CopyFails(d, ch)
    PROVE  Reached(d)'
  <1>1. /\ SyncTypes /\ syncFaults \in Nat /\ Post \in Sync!Objects /\ d[2] # Post
        /\ d[2] \in Sync!Objects
    BY SyncFacts DEF SyncBase, SyncTypes, Inbound
  <1>2. /\ jobs[d].at \in {"filling", "copying"} /\ ch \in jobs[d].todo
        /\ \/ Sync!Moves(d, Sync!Done(d, ch))
           \/ Sync!Finish(d, "failed") /\ jobs[d].at # "filling"
    BY DEF Sync!Copied, Sync!CopyFails, Sync!Calls, Sync!Raises
  <1>3. /\ Sync!Done(d, ch).at = jobs[d].at /\ Sync!Done(d, ch).todo = jobs[d].todo \ {ch}
        /\ Sync!Done(d, ch).group = jobs[d].group
    BY <1>1, DoneShape
  <1>4. CASE Sync!Finish(d, "failed")
    <2>1. jobs'[d].at = "idle" /\ status'[d] = "failed"
      BY <1>1, <1>4, MovedTo
    <2> QED
      BY <2>1 DEF Reached
  <1>5. CASE Sync!Moves(d, Sync!Done(d, ch))
    <2>1. /\ jobs'[d].at = jobs[d].at /\ jobs'[d].todo = jobs[d].todo \ {ch}
          /\ jobs'[d].group = jobs[d].group /\ status' = status
      BY <1>1, <1>3, <1>5, MovedTo DEF Sync!Moves
    <2>2. PICK z, w : z = made[d[2]] /\ w = made'[d[2]]
      OBVIOUS
    <2>3. \A e \in Channels : w[e] = 0 => z[e] = 0
      BY <1>1, <2>2, MadeGrows
    <2>4. PICK n, m : n = syncFaults /\ m = syncFaults'
      OBVIOUS
    <2>5. n \in Nat /\ m \in {n, n + 1} /\ m \in Nat
      BY <1>1, <2>4, MadeGrows
    <2>6. status'[d] = "processed" => Few({e \in Channels : w[e] = 0}, m)
      <3>1. {e \in Channels : w[e] = 0} \in SUBSET {e \in Channels : z[e] = 0}
        BY <2>3
      <3>2. status[d] = "processed" => Few({e \in Channels : z[e] = 0}, n)
        BY <2>2, <2>4 DEF Reached
      <3> QED
        BY <2>1, <2>5, <3>1, <3>2, FewLess
    <2>7. CASE jobs[d].at = "copying"
      <3>1. Sync!Copied(d, ch)
        <4>1. Sync!CopyFails(d, ch) => Sync!Finish(d, "failed")
          BY <2>7 DEF Sync!CopyFails, Sync!Raises
        <4>2. ~Sync!Finish(d, "failed")
          BY <1>1, <2>1, <2>7, MovedTo
        <4> QED
          BY <4>1, <4>2
      <3>2. w[ch] # 0
        BY <1>1, <2>2, <2>7, <3>1, MakeShape DEF Sync!Copied, Sync!Target, SyncTypes
      <3>3. {e \in Channels : w[e] = 0 /\ e \notin jobs[d].todo \ {ch}}
               \in SUBSET {e \in Channels : z[e] = 0 /\ e \notin jobs[d].todo}
        BY <2>3, <3>2
      <3>4. Few({e \in Channels : z[e] = 0 /\ e \notin jobs[d].todo}, n)
        BY <2>2, <2>4, <2>7 DEF Reached
      <3>5. Few({e \in Channels : w[e] = 0 /\ e \notin jobs'[d].todo}, m)
        BY <2>1, <2>5, <3>3, <3>4, FewLess
      <3> QED
        BY <2>1, <2>2, <2>4, <2>6, <2>7, <3>5 DEF Reached
    <2>8. CASE jobs[d].at = "filling"
      <3>1. PICK S, T : S = Sync!Shown(Post, 1) /\ T = Sync!Shown(Post, 1)'
        OBVIOUS
      <3>2. jobs[d].group = 1 /\ Sync!Known(Post) /\ Few(Channels \ (S \cup jobs[d].todo), n)
        BY <2>4, <2>8, <3>1 DEF Reached
      <3>3. Sync!Known(Post)' /\ S \subseteq T
        BY <1>1, <3>1, <3>2 DEF GroupsGrow
      <3>4. CASE Sync!Copied(d, ch)
        <4>1. ch \in T
          <5>1. CASE ch \in S
            BY <3>3, <5>1
          <5>2. CASE ch \notin S
            <6>1. RecordsOne(Post, 1, ch, "create")
              BY <2>8, <3>1, <3>2, <3>4, <5>2 DEF Sync!Copied, Sync!Target, RecordsOne
            <6>2. 1 \in 1..Len(groups[Post]) /\ "create" \in Sync!Ops
              BY <1>1, <3>2, KnownShape, SyncFacts
            <6> QED
              BY <1>1, <3>1, <6>1, <6>2, OneRow
          <5> QED
            BY <5>1, <5>2
        <4>2. Channels \ (T \cup (jobs[d].todo \ {ch}))
                 \in SUBSET (Channels \ (S \cup jobs[d].todo))
          BY <3>3, <4>1
        <4> QED
          BY <2>1, <2>2, <2>4, <2>5, <2>6, <2>8, <3>1, <3>2, <3>3, <4>2, FewLess DEF Reached
      <3>5. CASE Sync!CopyFails(d, ch)
        <4>1. m = n + 1
          BY <2>4, <3>5 DEF Sync!CopyFails, Sync!Fault
        <4>2. Channels \ (T \cup (jobs[d].todo \ {ch}))
                 \in SUBSET ((Channels \ (S \cup jobs[d].todo)) \cup {ch})
          BY <3>3
        <4>3. Few(Channels \ (T \cup (jobs[d].todo \ {ch})), m)
          BY <2>5, <3>2, <4>1, <4>2, FewMore
        <4> QED
          BY <2>1, <2>2, <2>4, <2>6, <2>8, <3>1, <3>2, <3>3, <4>3 DEF Reached
      <3> QED
        BY <3>4, <3>5
    <2> QED
      BY <1>2, <2>7, <2>8
  <1> QED
    BY <1>2, <1>4, <1>5

LEMMA ReachedMoves ==
    ASSUME SyncBase, SyncBase', GroupsGrow, [Sync!Next]_syncVars, UNCHANGED source,
           \A ch \in Channels : members[ch] = "accepted",
           NEW d \in SyncDeliveries, Inbound(d), Reached(d),
           Sync!Receive(d) \/ Sync!Proceed(d) \/ Sync!Fails(d)
    PROVE  Reached(d)'
  <1>1. SyncTypes /\ Fit(d) /\ d[1] = "create" /\ d[2] # Post /\ source[d[2]] = Remote
    BY SyncFacts DEF SyncBase, Inbound
  <1>2. CASE Sync!SkipCreate(d) \/ Sync!FetchFails(d)
    <2>1. jobs'[d].at = "idle" /\ status'[d] \in {"skipped", "deferred"}
      BY <1>1, <1>2, MovedTo DEF Sync!SkipCreate, Sync!FetchFails
    <2> QED
      BY <2>1 DEF Reached
  <1>3. CASE Sync!InboundComment(d) \/ Sync!Fetched(d) \/ Sync!Ready(d)
    BY <1>3, ReachedAnew
  <1>4. CASE Sync!CopiesDone(d)
    <2>1. /\ jobs[d].at = "copying" /\ jobs[d].todo = {} /\ UNCHANGED <<made, syncFaults>>
          /\ jobs'[d].at = "idle"
      BY <1>1, <1>4, MovedTo DEF Sync!CopiesDone
    <2>2. PICK z : z = made[d[2]]
      OBVIOUS
    <2>3. Few({ch \in Channels : z[ch] = 0 /\ ch \notin {}}, syncFaults)
      BY <2>1, <2>2 DEF Reached
    <2>4. {ch \in Channels : z[ch] = 0 /\ ch \notin {}} = {ch \in Channels : z[ch] = 0}
      OBVIOUS
    <2> QED
      BY <2>1, <2>2, <2>3, <2>4 DEF Reached
  <1>5. CASE Sync!Break(d) \/ Sync!Redeliver(d)
    <2>1. jobs' = jobs /\ (status'[d] = "processed" => status[d] = "processed")
      BY <1>1, <1>5 DEF Sync!Break, Sync!Redeliver, SyncTypes
    <2> QED
      BY <1>1, <2>1, ReachedStays, MadeGrows
  <1>6. ASSUME NEW ch \in Channels, Sync!Copied(d, ch) \/ Sync!CopyFails(d, ch)
        PROVE  Reached(d)'
    BY <1>6, ReachedCopies
  <1>7. ~Sync!InboundPost(d) /\ ~Sync!MemberPosts(d) /\ ~Sync!Change(d)
    BY <1>1 DEF Sync!InboundPost, Sync!MemberPosts, Sync!Change, Sync!FromRemote
  <1>8. /\ ~Sync!Published(d) /\ ~Sync!PublishFails(d) /\ ~Sync!RecordMirrors(d)
        /\ ~Sync!ChangesDone(d)
    BY <1>1 DEF Sync!Published, Sync!PublishFails, Sync!RecordMirrors, Sync!ChangesDone, Fit
  <1>9. \A ch \in Channels : /\ ~Sync!Mirrored(d, ch) /\ ~Sync!MirrorFails(d, ch)
                             /\ ~Sync!Changed(d, ch) /\ ~Sync!ChangeFails(d, ch)
    BY <1>1 DEF Sync!Mirrored, Sync!MirrorFails, Sync!Changed, Sync!ChangeFails, Fit
  <1> QED
    BY <1>2, <1>3, <1>4, <1>5, <1>6, <1>7, <1>8, <1>9
    DEF Sync!Receive, Sync!Proceed, Sync!Fails

LEMMA ReachStep == SyncBase /\ ReachInv /\ [Sync!Next]_syncVars => ReachInv'
  <1> SUFFICES ASSUME SyncBase, ReachInv, [Sync!Next]_syncVars PROVE ReachInv'
    OBVIOUS
  <1>1. /\ SyncBase' /\ GroupsGrow /\ UNCHANGED source /\ SyncTypes
        /\ MembersInv' /\ MembersInv
    BY SyncBaseStep, MembersStep DEF SyncBase, ReachInv
  <1> SUFFICES ASSUME syncChurn' = 0, syncCrashes' = 0, NEW e \in SyncDeliveries, Inbound(e)'
               PROVE  Reached(e)'
    BY <1>1 DEF ReachInv
  <1>2. syncChurn = 0 /\ syncCrashes = 0
    BY <1>1, MadeGrows DEF SyncTypes
  <1>3. Inbound(e) /\ Reached(e) /\ \A ch \in Channels : members[ch] = "accepted"
    BY <1>1, <1>2 DEF ReachInv, MembersInv, Inbound
  <1>4. ASSUME jobs'[e] = jobs[e], status'[e] = status[e]
        PROVE  Reached(e)'
    BY <1>1, <1>3, <1>4, ReachedStays, MadeGrows
  <1>5. ASSUME NEW d \in SyncDeliveries, Sync!Receive(d) \/ Sync!Proceed(d) \/ Sync!Fails(d)
        PROVE  Reached(e)'
    <2>1. CASE d = e
      BY <1>1, <1>3, <1>5, <2>1, ReachedMoves
    <2>2. CASE d # e
      <3>1. Alone(d)
        BY <1>1, <1>5, ActorAlone DEF Sync!Fails
      <3> QED
        BY <1>4, <2>2, <3>1 DEF Alone
    <2> QED
      BY <2>1, <2>2
  <1>6. ~Sync!Crash /\ \A ch \in Channels : ~Sync!Resubscribe(ch)
    BY <1>1, <1>2 DEF Sync!Crash, Sync!Resubscribe, SyncTypes
  <1>7. CASE UNCHANGED syncVars
    BY <1>4, <1>7 DEF syncVars
  <1> QED
    BY <1>5, <1>6, <1>7 DEF Sync!Next

LEMMA ReachBound == SyncBase /\ ReachInv => CommentsReachAll
  <1> SUFFICES ASSUME SyncBase, ReachInv, NEW d \in SyncDeliveries, d[1] = "create",
                      d[2] \in Comments, source[d[2]] = Remote, status[d] = "processed",
                      syncChurn = 0
               PROVE  Cardinality({ch \in Sync!Accepted : made[d[2]][ch] = 0}) <= syncFaults
    BY DEF CommentsReachAll, Sync!CommentsReachAll, Sync!FromRemote, Sync!Cardinality, Cardinality
  <1>1. syncFaults \in Nat
    BY DEF SyncBase, SyncTypes
  <1>2. PICK S : S = {ch \in Sync!Accepted : made[d[2]][ch] = 0}
    OBVIOUS
  <1>3. CASE syncCrashes = 0
    <2>1. Few({ch \in Channels : made[d[2]][ch] = 0}, syncFaults)
      BY <1>3 DEF ReachInv, Inbound, Reached
    <2>2. S \in SUBSET {ch \in Channels : made[d[2]][ch] = 0}
      BY <1>2 DEF Sync!Accepted
    <2> QED
      BY <1>1, <1>2, <2>1, <2>2, FewLess DEF Few
  <1>4. CASE syncCrashes # 0
    <2>1. S = {}
      BY <1>2, <1>4 DEF ReachInv, MembersInv, Sync!Accepted
    <2> QED
      BY <1>1, <1>2, <2>1, FewNone DEF Few
  <1> QED
    BY <1>3, <1>4

(* The types of the sync: what names a group names one there is.           *)
Count(o) == Len(groups[o])

LEMMA CountShape ==
    ASSUME NEW o \in Sync!Objects
    PROVE  /\ SyncTypes => /\ groups[o] \in Seq(GroupRows) /\ DOMAIN groups[o] = 1..Count(o)
                           /\ Count(o) \in Nat /\ (Sync!Known(o) <=> 1 <= Count(o))
           /\ SyncTypes' => /\ groups'[o] \in Seq(GroupRows) /\ Count(o)' \in Nat
                            /\ \A i \in 1..Count(o)' : groups'[o][i] \in GroupRows
  <1>1. SyncTypes => groups[o] \in Seq(GroupRows)
    BY DEF SyncTypes
  <1>2. SyncTypes' => groups'[o] \in Seq(GroupRows)
    BY DEF SyncTypes
  <1> QED
    BY <1>1, <1>2 DEF Count, Sync!Known

LinksInv ==
    /\ \A o \in Sync!Objects : \A i \in 1..Count(o) :
          groups[o][i].thread <= Count(Post)
    /\ \A d \in SyncDeliveries :
          /\ jobs[d].group <= Count(Post) + Count(d[2])
          /\ jobs[d].at \in {"waiting", "filling"} => jobs[d].group <= Count(Post)

TroublesInv ==
    /\ open \in SyncDeliveries \cup {Nothing}
    /\ syncChurn + syncFaults + syncBroken + syncCrashes <= MaxSyncTroubles

(* Groups are added for threads there are, and keep their thread.          *)
ThreadsFit ==
    \A o \in Sync!Objects :
        /\ Count(o)' >= Count(o)
        /\ \A i \in 1..Count(o) : groups'[o][i].thread = groups[o][i].thread
        /\ \A i \in 1..Count(o)' :
              i \in 1..Count(o) \/ groups'[o][i].thread <= Count(Post)

LEMMA SameThreads == SyncTypes /\ UNCHANGED groups => ThreadsFit
  <1> SUFFICES ASSUME SyncTypes, UNCHANGED groups PROVE ThreadsFit
    OBVIOUS
  <1>1. \A o \in Sync!Objects : Count(o) \in Nat /\ Count(o)' = Count(o)
    BY CountShape DEF Count
  <1> QED
    BY <1>1 DEF ThreadsFit

LEMMA NewThread ==
    ASSUME SyncTypes, NEW o \in Sync!Objects, NEW t \in Nat, NEW m \in [Channels -> Shows],
           t <= Count(Post),
           \/ groups' = [groups EXCEPT ![o] = Append(groups[o], Sync!Group(t, m))]
           \/ groups[o] = <<>> /\ groups' = [groups EXCEPT ![o] = <<Sync!Group(t, m)>>]
    PROVE  ThreadsFit /\ Count(o)' = Count(o) + 1
  <1> DEFINE new == Sync!Group(t, m)
  <1>1. new \in GroupRows /\ new.thread = t
    BY DEF Sync!Group, GroupRows
  <1> HIDE DEF new
  <1>2. groups[o] \in Seq(GroupRows) /\ DOMAIN groups = Sync!Objects
    BY DEF SyncTypes
  <1>3. /\ Count(o)' = Count(o) + 1
        /\ \A i \in 1..Count(o) : groups'[o][i] = groups[o][i]
        /\ groups'[o][Count(o) + 1] = new
    <2>1. CASE groups' = [groups EXCEPT ![o] = Append(groups[o], new)]
      BY <1>1, <1>2, <2>1, AppendProperties DEF Count
    <2>2. CASE groups[o] = <<>> /\ groups' = [groups EXCEPT ![o] = <<new>>]
      BY <1>1, <1>2, <2>2 DEF Count
    <2> QED
      BY <2>1, <2>2 DEF new
  <1>4. \A p \in Sync!Objects \ {o} : groups'[p] = groups[p]
    BY <1>2
  <1>5. \A p \in Sync!Objects : Count(p) \in Nat
    BY CountShape
  <1>6. ASSUME NEW p \in Sync!Objects
        PROVE  /\ Count(p)' >= Count(p)
               /\ \A i \in 1..Count(p) : groups'[p][i].thread = groups[p][i].thread
               /\ \A i \in 1..Count(p)' :
                     i \in 1..Count(p) \/ groups'[p][i].thread <= Count(Post)
    <2>1. CASE p = o
      BY <1>1, <1>3, <1>5, <2>1
    <2>2. CASE p # o
      BY <1>4, <1>5, <2>2 DEF Count
    <2> QED
      BY <2>1, <2>2
  <1> QED
    BY <1>3, <1>6 DEF ThreadsFit

LEMMA RecordedThreads ==
    ASSUME SyncTypes, NEW o \in Sync!Objects, NEW g, NEW f, Records(o, g, f)
    PROVE  ThreadsFit
  <1> DEFINE new == [groups[o][g] EXCEPT !.shown = f]
  <1>1. /\ groups' = [groups EXCEPT ![o] = [groups[o] EXCEPT ![g] = new]]
        /\ groups[o] \in Seq(GroupRows) /\ DOMAIN groups = Sync!Objects
    BY DEF SyncTypes, Records
  <1>2. g \in 1..Count(o) => new.thread = groups[o][g].thread
    <2> SUFFICES ASSUME g \in 1..Count(o) PROVE new.thread = groups[o][g].thread
      OBVIOUS
    <2>1. groups[o][g] \in GroupRows
      BY CountShape
    <2> QED
      BY <2>1 DEF GroupRows
  <1> HIDE DEF new
  <1>3. \A p \in Sync!Objects \ {o} : groups'[p] = groups[p]
    BY <1>1
  <1>4. /\ Count(o)' = Count(o)
        /\ \A i \in 1..Count(o) : groups'[o][i] = IF i = g THEN new ELSE groups[o][i]
    BY <1>1 DEF Count
  <1>5. ASSUME NEW p \in Sync!Objects
        PROVE  /\ Count(p)' = Count(p)
               /\ \A i \in 1..Count(p) : groups'[p][i].thread = groups[p][i].thread
    BY <1>2, <1>3, <1>4 DEF Count
  <1>6. \A p \in Sync!Objects : Count(p) \in Nat
    BY CountShape
  <1> QED
    BY <1>5, <1>6 DEF ThreadsFit

(* One handler moves to a group there is.                                  *)
LEMMA LinksMove ==
    ASSUME SyncTypes, SyncTypes', LinksInv, ThreadsFit, NEW d \in SyncDeliveries,
           \A e \in SyncDeliveries \ {d} : jobs'[e] = jobs[e],
           /\ jobs'[d].group <= Count(Post)' + Count(d[2])'
           /\ jobs'[d].at \in {"waiting", "filling"} => jobs'[d].group <= Count(Post)'
    PROVE  LinksInv'
  <1>1. ASSUME NEW o \in Sync!Objects
        PROVE  Count(o) \in Nat /\ Count(o)' \in Nat /\ Count(o)' >= Count(o)
    BY CountShape DEF ThreadsFit
  <1>2. ASSUME NEW o \in Sync!Objects, NEW i \in 1..Count(o)'
        PROVE  groups'[o][i].thread <= Count(Post)'
    <2>1. groups'[o][i] \in GroupRows
      BY CountShape
    <2>2. groups'[o][i].thread \in Nat
      BY <2>1 DEF GroupRows
    <2>3. groups'[o][i].thread <= Count(Post)
      BY DEF ThreadsFit, LinksInv
    <2> QED
      BY <1>1, <2>2, <2>3, SyncFacts
  <1>3. ASSUME NEW e \in SyncDeliveries, e # d
        PROVE  /\ jobs'[e].group <= Count(Post)' + Count(e[2])'
               /\ jobs'[e].at \in {"waiting", "filling"} => jobs'[e].group <= Count(Post)'
    <2>1. jobs'[e] = jobs[e] /\ e[2] \in Sync!Objects /\ Post \in Sync!Objects
      BY <1>3, SyncFacts
    <2>2. jobs[e].group \in Nat
      BY DEF SyncTypes, JobRows
    <2>3. /\ jobs[e].group <= Count(Post) + Count(e[2])
          /\ jobs[e].at \in {"waiting", "filling"} => jobs[e].group <= Count(Post)
      BY DEF LinksInv
    <2>4. /\ Count(Post)' >= Count(Post) /\ Count(e[2])' >= Count(e[2])
          /\ Count(Post)' \in Nat /\ Count(Post) \in Nat
          /\ Count(e[2])' \in Nat /\ Count(e[2]) \in Nat
      BY <1>1, <2>1
    <2> QED
      BY <2>1, <2>2, <2>3, <2>4
  <1> QED
    BY <1>2, <1>3 DEF LinksInv

(* The handler of d ends, goes on in its group or moves to group g.        *)
LEMMA LinksEnd ==
    ASSUME SyncTypes, SyncTypes', LinksInv, ThreadsFit, NEW d \in SyncDeliveries,
           NEW j \in JobRows, NEW s \in Outcomes, OnlyMoves(d, j, s),
           \/ j.group <= Count(Post)'
           \/ /\ j.at \notin {"waiting", "filling"}
              /\ j.group <= Count(Post)' + Count(d[2])'
           \/ j.group = jobs[d].group /\ j.at = jobs[d].at
    PROVE  LinksInv'
  <1>1. /\ Count(Post) \in Nat /\ Count(Post)' \in Nat
        /\ Count(d[2]) \in Nat /\ Count(d[2])' \in Nat
        /\ Count(Post) <= Count(Post)' /\ Count(d[2]) <= Count(d[2])'
    <2>1. Post \in Sync!Objects /\ d[2] \in Sync!Objects
      BY SyncFacts
    <2> QED
      BY <2>1, CountShape DEF ThreadsFit
  <1>2. j.group \in Nat /\ jobs'[d] = j
    BY DEF JobRows, OnlyMoves
  <1>3. /\ jobs[d].group \in Nat
        /\ jobs[d].group <= Count(Post) + Count(d[2])
        /\ jobs[d].at \in {"waiting", "filling"} => jobs[d].group <= Count(Post)
    BY DEF LinksInv, SyncTypes, JobRows
  <1>4. /\ j.group <= Count(Post)' + Count(d[2])'
        /\ j.at \in {"waiting", "filling"} => j.group <= Count(Post)'
    BY <1>1, <1>2, <1>3
  <1> QED
    BY <1>2, <1>4, LinksMove DEF OnlyMoves

LEMMA ReceiveLinks ==
    ASSUME SyncBase, SyncTypes', LinksInv, NEW d \in SyncDeliveries, Sync!Receive(d)
    PROVE  LinksInv'
  <1>0. SyncTypes
    BY DEF SyncBase
  <1>1. SyncTypes /\ UNCHANGED groups /\ ThreadsFit
    BY <1>0, SameThreads
    DEF SyncBase, Sync!Receive, Sync!SkipCreate, Sync!InboundPost, Sync!InboundComment,
        Sync!MemberPosts, Sync!Change
  <1>2. /\ Sync!Idle \in JobRows /\ Sync!Idle.group = 0
        /\ d[2] \in Sync!Objects /\ Post \in Sync!Objects
        /\ "skipped" \in Outcomes /\ "in_progress" \in Outcomes
    BY SyncFacts DEF Sync!Idle, Outcomes
  <1>3. /\ Count(Post) \in Nat /\ Count(d[2]) \in Nat
        /\ Count(Post)' = Count(Post) /\ Count(d[2])' = Count(d[2])
    BY <1>1, <1>2, CountShape DEF Count
  <1>4. Sync!Finish(d, "skipped") => LinksInv'
    BY <1>1, <1>2, <1>3, JobMoves, LinksEnd
  <1>5. ASSUME NEW a \in Stages, NEW g \in Nat, NEW T \in SUBSET Channels,
               Sync!Start(d, Sync!At(a, g, T)),
               \/ g <= Count(Post)
               \/ a \notin {"waiting", "filling"} /\ g <= Count(Post) + Count(d[2])
        PROVE  LinksInv'
    <2>1. PICK j \in JobRows : j = Sync!At(a, g, T) /\ j.at = a /\ j.group = g
      BY AtShape
    <2>2. OnlyMoves(d, j, "in_progress")
      BY <1>1, <1>5, <2>1, JobMoves
    <2> QED
      BY <1>1, <1>2, <1>3, <1>5, <2>1, <2>2, LinksEnd
  <1>6. {"waiting", "fetching", "publishing", "changing"} \subseteq Stages
    BY DEF Stages
  <1>7. CASE Sync!SkipCreate(d)
    BY <1>4, <1>7 DEF Sync!SkipCreate
  <1>8. CASE Sync!InboundPost(d)
    <2>1. Sync!Subscribed \in SUBSET Channels
      BY DEF Sync!Subscribed
    <2> QED
      BY <1>3, <1>5, <1>6, <1>8, <2>1 DEF Sync!InboundPost
  <1>9. CASE Sync!InboundComment(d)
    <2>1. CASE Sync!NeedsBackfill
      <3>1. Sync!Start(d, Sync!At("fetching", 0, {}))
        BY <1>9, <2>1 DEF Sync!InboundComment
      <3> QED
        BY <1>3, <1>5, <1>6, <3>1
    <2>2. CASE ~Sync!NeedsBackfill
      <3>1. Sync!Start(d, Sync!At("waiting", 1, {}))
        BY <1>9, <2>2 DEF Sync!InboundComment
      <3>2. Sync!Known(Post)
        BY <1>9, <2>2 DEF Sync!InboundComment, Sync!NeedsBackfill
      <3>3. 1 <= Count(Post)
        BY <1>1, <1>2, <3>2, CountShape
      <3> QED
        BY <1>5, <1>6, <3>1, <3>3
    <2> QED
      BY <2>1, <2>2
  <1>10. CASE Sync!MemberPosts(d)
    BY <1>3, <1>4, <1>5, <1>6, <1>10 DEF Sync!MemberPosts
  <1>11. CASE Sync!Change(d)
    <2>1. Sync!Finish(d, "skipped") \/ Sync!Known(d[2])
      BY <1>11 DEF Sync!Change
    <2>2. PICK T \in SUBSET Channels : T = Sync!Shown(d[2], 1) \ {source[d[2]]}
      BY DEF Sync!Shown
    <2>3. Sync!Finish(d, "skipped") \/ Sync!Start(d, Sync!At("changing", 1, T))
      BY <1>11, <2>2 DEF Sync!Change
    <2>4. Sync!Known(d[2]) => 1 <= Count(d[2])
      BY <1>1, <1>2, CountShape
    <2> QED
      BY <1>3, <1>4, <1>5, <1>6, <2>1, <2>3, <2>4
  <1> QED
    BY <1>7, <1>8, <1>9, <1>10, <1>11 DEF Sync!Receive

(* A step of a handler on one channel keeps its group.                     *)
LEMMA ChannelLinks ==
    ASSUME SyncBase, SyncTypes', LinksInv, NEW d \in SyncDeliveries, NEW ch \in Channels,
           \/ Sync!Copied(d, ch) \/ Sync!CopyFails(d, ch)
           \/ Sync!Mirrored(d, ch) \/ Sync!MirrorFails(d, ch)
           \/ Sync!Changed(d, ch) \/ Sync!ChangeFails(d, ch)
    PROVE  LinksInv'
  <1>1. SyncTypes /\ d[2] \in Sync!Objects /\ Post \in Sync!Objects /\ status[d] \in Outcomes
    BY SyncFacts DEF SyncBase, SyncTypes
  <1>2. /\ Sync!Idle \in JobRows /\ Sync!Idle.group = 0 /\ "failed" \in Outcomes
    BY SyncFacts DEF Sync!Idle, Outcomes
  <1>3. ThreadsFit
    <2>1. \/ UNCHANGED groups
          \/ RecordsOne(Sync!Target(d), jobs[d].group, ch, "create")
          \/ RecordsOne(d[2], 1, ch, d[1])
      BY DEF Sync!Copied, Sync!CopyFails, Sync!Mirrored, Sync!MirrorFails, Sync!Changed,
          Sync!ChangeFails, RecordsOne
    <2>2. ASSUME NEW o \in Sync!Objects, NEW g, NEW v, RecordsOne(o, g, ch, v)
          PROVE  ThreadsFit
      <3>1. PICK f : f = [groups[o][g].shown EXCEPT ![ch] = v]
        OBVIOUS
      <3>2. Records(o, g, f)
        BY <2>2, <3>1 DEF Records, RecordsOne
      <3> QED
        BY <1>1, <3>2, RecordedThreads
    <2>3. Sync!Target(d) \in Sync!Objects
      BY <1>1 DEF Sync!Target
    <2> QED
      BY <1>1, <2>1, <2>2, <2>3, SameThreads
  <1>4. \/ Sync!Finish(d, "failed")
        \/ \E j \in JobRows : /\ Sync!Moves(d, j)
                              /\ j.at = jobs[d].at /\ j.group = jobs[d].group
    <2>1. /\ Sync!Done(d, ch) \in JobRows /\ Sync!Done(d, ch).at = jobs[d].at
          /\ Sync!Done(d, ch).group = jobs[d].group
      BY <1>1, DoneShape
    <2>2. /\ [Sync!Done(d, ch) EXCEPT !.sent = @ \cup {ch}] \in JobRows
          /\ [Sync!Done(d, ch) EXCEPT !.sent = @ \cup {ch}].at = jobs[d].at
          /\ [Sync!Done(d, ch) EXCEPT !.sent = @ \cup {ch}].group = jobs[d].group
      BY <2>1 DEF JobRows
    <2>3. \/ Sync!Finish(d, "failed")
          \/ Sync!Moves(d, Sync!Done(d, ch))
          \/ Sync!Moves(d, [Sync!Done(d, ch) EXCEPT !.sent = @ \cup {ch}])
      BY DEF Sync!Copied, Sync!CopyFails, Sync!Mirrored, Sync!MirrorFails, Sync!Changed,
         Sync!ChangeFails, Sync!Raises
    <2> QED
      BY <2>1, <2>2, <2>3
  <1>5. Count(Post)' \in Nat
    BY <1>1, CountShape
  <1>6. CASE Sync!Finish(d, "failed")
    BY <1>1, <1>2, <1>3, <1>5, <1>6, JobMoves, LinksEnd
  <1>7. ASSUME NEW j \in JobRows, Sync!Moves(d, j), j.at = jobs[d].at, j.group = jobs[d].group
        PROVE  LinksInv'
    BY <1>1, <1>3, <1>7, JobMoves, LinksEnd
  <1> QED
    BY <1>4, <1>6, <1>7

LEMMA ProceedLinks ==
    ASSUME SyncBase, SyncTypes', LinksInv, NEW d \in SyncDeliveries,
           \/ Sync!Fetched(d) \/ Sync!Ready(d) \/ Sync!CopiesDone(d) \/ Sync!ChangesDone(d)
           \/ Sync!FetchFails(d) \/ Sync!PublishFails(d) \/ Sync!Published(d)
           \/ Sync!RecordMirrors(d)
    PROVE  LinksInv'
  <1>1. /\ SyncTypes /\ Fit(d) /\ d[2] \in Sync!Objects /\ Post \in Sync!Objects
        /\ status[d] \in Outcomes /\ jobs[d] \in JobRows /\ jobs[d].group \in Nat
    BY SyncFacts DEF SyncBase, SyncTypes, JobRows
  <1>2. /\ Sync!Idle \in JobRows /\ Sync!Idle.group = 0
        /\ {"failed", "processed", "deferred"} \subseteq Outcomes
    BY SyncFacts DEF Sync!Idle, Outcomes
  <1>3. /\ Count(Post) \in Nat /\ Count(d[2]) \in Nat
        /\ Count(Post)' \in Nat /\ Count(d[2])' \in Nat
    BY <1>1, CountShape
  <1>4. ASSUME NEW s \in {"failed", "processed", "deferred"}, Sync!Finish(d, s), ThreadsFit
        PROVE  LinksInv'
    BY <1>1, <1>2, <1>3, <1>4, JobMoves, LinksEnd
  <1>5. ASSUME NEW a \in Stages, NEW g \in Nat, NEW T \in SUBSET Channels, ThreadsFit,
               Sync!Moves(d, Sync!At(a, g, T)),
               \/ g <= Count(Post)'
               \/ /\ a \notin {"waiting", "filling"}
                  /\ g <= Count(Post)' + Count(d[2])'
        PROVE  LinksInv'
    <2>1. PICK j \in JobRows : j = Sync!At(a, g, T) /\ j.at = a /\ j.group = g
      BY AtShape
    <2>2. OnlyMoves(d, j, status[d])
      BY <1>1, <1>5, <2>1, JobMoves
    <2> QED
      BY <1>1, <1>5, <2>1, <2>2, LinksEnd
  <1>6. CASE Sync!CopiesDone(d) \/ Sync!ChangesDone(d) \/ Sync!FetchFails(d) \/ Sync!PublishFails(d)
    BY <1>1, <1>4, <1>6, SameThreads
    DEF Sync!CopiesDone, Sync!ChangesDone, Sync!FetchFails, Sync!PublishFails
  <1>7. CASE Sync!Fetched(d)
    <2>1. ThreadsFit /\ 1 <= Count(Post)'
      <3>1. CASE Sync!Known(Post) /\ UNCHANGED groups
        <4>1. Count(Post)' = Count(Post)
          BY <3>1 DEF Count
        <4> QED
          BY <1>1, <3>1, <4>1, SameThreads, CountShape
      <3>2. CASE /\ groups[Post] = <<>>
                 /\ groups' = [groups EXCEPT ![Post] = <<Sync!Group(0, Sync!Blank)>>]
        <4>1. 0 <= Count(Post)
          BY <1>3
        <4>2. ThreadsFit /\ Count(Post)' = Count(Post) + 1
          BY <1>1, <3>2, <4>1, NewThread, SyncFacts
        <4> QED
          BY <1>3, <4>2
      <3> QED
        BY <1>7, <3>1, <3>2 DEF Sync!Fetched, Sync!Known
    <2>2. PICK T \in SUBSET Channels :
             T = IF Sync!Known(Post) THEN Sync!Accepted \ Sync!Shown(Post, 1) ELSE Sync!Accepted
      BY DEF Sync!Accepted
    <2>3. Sync!Moves(d, Sync!At("filling", 1, T)) /\ "filling" \in Stages
      BY <1>7, <2>2 DEF Sync!Fetched, Stages
    <2> QED
      BY <1>5, <2>1, <2>3
  <1>8. CASE Sync!Ready(d)
    <2>1. jobs[d].group <= Count(Post) /\ jobs[d].todo \in SUBSET Channels
      BY <1>1, <1>8 DEF Sync!Ready, LinksInv, JobRows
    <2>2. ThreadsFit /\ Count(d[2])' = Count(d[2]) + 1
      <3>1. groups' = [groups EXCEPT ![d[2]] =
                          Append(groups[d[2]], Sync!Group(jobs[d].group, Sync!Blank))]
        BY <1>8 DEF Sync!Ready
      <3> QED
        BY <1>1, <2>1, <3>1, NewThread, SyncFacts
    <2>3. PICK T \in SUBSET Channels :
             T = IF d[2] = Post THEN jobs[d].todo ELSE Sync!Shown(Post, jobs[d].group)
      BY <2>1 DEF Sync!Shown
    <2>4. Sync!Moves(d, Sync!At("copying", Count(d[2]) + 1, T)) /\ "copying" \in Stages
      BY <1>8, <2>3 DEF Sync!Ready, Stages, Count
    <2> QED
      BY <1>3, <1>5, <2>2, <2>4
  <1>9. CASE Sync!Published(d)
    <2>1. PICK ch, o : ch = source[d[2]] /\ o = d[2]
      OBVIOUS
    <2>2. PICK mine \in [Channels -> Shows] : mine = [Sync!Blank EXCEPT ![ch] = "create"]
      BY SyncFacts DEF Shows
    <2>3. CASE Sync!Finish(d, "failed") /\ UNCHANGED groups
      BY <1>1, <1>4, <2>3, SameThreads
    <2>4. ASSUME NEW g \in Nat, g <= Count(Post), NEW T \in SUBSET Channels,
                 groups' = [groups EXCEPT ![o] = Append(groups[o], Sync!Group(g, mine))],
                 Sync!Moves(d, Sync!At("mirroring", Count(o) + 1, T))
          PROVE  LinksInv'
      <3>1. ThreadsFit /\ Count(d[2])' = Count(d[2]) + 1
        BY <1>1, <2>1, <2>4, NewThread
      <3>2. "mirroring" \in Stages
        BY DEF Stages
      <3> QED
        BY <1>3, <1>5, <2>1, <2>4, <3>1, <3>2
    <2>5. \/ Sync!Finish(d, "failed") /\ UNCHANGED groups
          \/ \E g \in IF o = Post THEN {0}
                      ELSE {i \in DOMAIN groups[Post] : ch \in Sync!Shown(Post, i)} :
                /\ groups' = [groups EXCEPT ![o] = Append(groups[o], Sync!Group(g, mine))]
                /\ Sync!Moves(d, Sync!At("mirroring", Count(o) + 1,
                      (IF o = Post THEN {c \in Channels : members[c] # "none"}
                                   ELSE Sync!Shown(Post, g)) \ {ch}))
      BY <1>9, <2>1, <2>2 DEF Sync!Published, Count
    <2>6. \A g : g \in DOMAIN groups[Post] \/ g = 0 => g \in Nat /\ g <= Count(Post)
      <3>1. DOMAIN groups[Post] = 1..Count(Post)
        BY <1>1, CountShape
      <3> QED
        BY <1>3, <3>1
    <2>7. \A g : ((IF o = Post THEN {c \in Channels : members[c] # "none"}
                               ELSE Sync!Shown(Post, g)) \ {ch}) \in SUBSET Channels
      BY DEF Sync!Shown
    <2> QED
      BY <1>3, <2>3, <2>4, <2>5, <2>6, <2>7
  <1>10. CASE Sync!RecordMirrors(d)
    <2> DEFINE o == d[2]
               g == jobs[d].group
               Rows(set) == groups' = [groups EXCEPT ![o][g].shown =
                               [ch \in Channels |-> IF ch \in set THEN "create" ELSE @[ch]]]
    <2>1. Rows(jobs[d].sent) \/ \E set \in SUBSET (jobs[d].sent \ Sync!Shown(o, g)) : Rows(set)
      BY <1>10 DEF Sync!RecordMirrors
    <2>2. Sync!Finish(d, "processed") \/ Sync!Finish(d, "failed")
      BY <1>10 DEF Sync!RecordMirrors
    <2>3. PICK set : Rows(set)
      BY <2>1
    <2>4. PICK f : Records(o, g, f)
      BY <2>3 DEF Records
    <2>5. ThreadsFit
      BY <1>1, <2>4, RecordedThreads
    <2> QED
      BY <1>4, <2>2, <2>5
  <1> QED
    BY <1>6, <1>7, <1>8, <1>9, <1>10

LEMMA LinksStep ==
    ASSUME SyncBase, SyncTypes', LinksInv, [Sync!Next]_syncVars
    PROVE  LinksInv'
  <1>1. ASSUME UNCHANGED groups,
               UNCHANGED jobs \/ jobs' = [d \in SyncDeliveries |-> Sync!Idle]
        PROVE  LinksInv'
    <2>1. SyncTypes /\ Post \in Sync!Objects
      BY SyncFacts DEF SyncBase
    <2>2. \A o \in Sync!Objects : Count(o) \in Nat /\ Count(o)' = Count(o)
      BY <1>1, <2>1, CountShape DEF Count
    <2>3. ASSUME NEW d \in SyncDeliveries
          PROVE  /\ jobs'[d].group <= Count(Post)' + Count(d[2])'
                 /\ jobs'[d].at \in {"waiting", "filling"} => jobs'[d].group <= Count(Post)'
      <3>1. d[2] \in Sync!Objects /\ Sync!Idle.group = 0
        BY SyncFacts DEF Sync!Idle
      <3>2. jobs'[d] = jobs[d] \/ jobs'[d].group = 0
        BY <1>1, <3>1
      <3> QED
        BY <2>1, <2>2, <3>1, <3>2 DEF LinksInv
    <2>4. \A o \in Sync!Objects : \A i \in 1..Count(o)' : groups'[o][i].thread <= Count(Post)'
      BY <1>1, <2>1, <2>2 DEF LinksInv
    <2> QED
      BY <2>3, <2>4 DEF LinksInv
  <1>2. CASE Sync!Crash
    BY <1>1, <1>2 DEF Sync!Crash
  <1>3. CASE \/ \E ch \in Channels : Sync!Resubscribe(ch)
             \/ \E d \in SyncDeliveries : Sync!Break(d) \/ Sync!Redeliver(d)
             \/ UNCHANGED syncVars
    BY <1>1, <1>3 DEF Sync!Resubscribe, Sync!Break, Sync!Redeliver, syncVars
  <1>4. ASSUME NEW d \in SyncDeliveries, Sync!Receive(d) \/ Sync!Proceed(d) \/ Sync!Fails(d)
        PROVE  LinksInv' \/ Sync!Break(d) \/ Sync!Redeliver(d)
    BY <1>4, ReceiveLinks, ChannelLinks, ProceedLinks DEF Sync!Proceed, Sync!Fails
  <1> QED
    BY <1>2, <1>3, <1>4 DEF Sync!Next

(* Every trouble is within the bound, and the queue waits for a delivery.  *)
LEMMA TroublesStep ==
    ASSUME SyncTypes, SyncTypes', TroublesInv, [Sync!Next]_syncVars
    PROVE  TroublesInv'
  <1>1. MaxSyncTroubles \in Nat
    BY BridgingAssumption DEF Sync!CommunitySyncAssumption
  <1>2. ASSUME NEW d \in SyncDeliveries, Sync!Receive(d) \/ Sync!Proceed(d) \/ Sync!Fails(d)
        PROVE  open' \in {open, d, Nothing}
    BY <1>2 DEF Sync!Receive, Sync!SkipCreate, Sync!InboundPost, Sync!InboundComment,
       Sync!MemberPosts, Sync!Change, Sync!Proceed, Sync!Fetched, Sync!Ready, Sync!CopiesDone,
       Sync!Published, Sync!RecordMirrors, Sync!ChangesDone, Sync!Copied, Sync!Mirrored,
       Sync!Changed, Sync!Fails, Sync!Break, Sync!Redeliver, Sync!FetchFails,
       Sync!PublishFails, Sync!CopyFails, Sync!MirrorFails, Sync!ChangeFails, Sync!Raises,
       Sync!Start, Sync!Moves, Sync!Finish
  <1>3. open' \in SyncDeliveries \cup {Nothing}
    BY <1>2 DEF TroublesInv, Sync!Next, Sync!Resubscribe, Sync!Crash, syncVars
  <1>4. ASSUME NEW d \in SyncDeliveries, Sync!Receive(d) \/ Sync!Proceed(d) \/ Sync!Fails(d)
        PROVE  /\ UNCHANGED <<syncChurn, syncCrashes>>
               /\ \/ UNCHANGED <<syncFaults, syncBroken>>
                  \/ Sync!Fault /\ UNCHANGED syncBroken
                  \/ Sync!Trouble /\ syncBroken' = syncBroken + 1 /\ UNCHANGED syncFaults
    BY <1>4 DEF Sync!Receive, Sync!SkipCreate, Sync!InboundPost, Sync!InboundComment,
       Sync!MemberPosts, Sync!Change, Sync!Proceed, Sync!Fetched, Sync!Ready, Sync!CopiesDone,
       Sync!Published, Sync!RecordMirrors, Sync!ChangesDone, Sync!Copied, Sync!Mirrored,
       Sync!Changed, Sync!Fails, Sync!Break, Sync!Redeliver, Sync!FetchFails,
       Sync!PublishFails, Sync!CopyFails, Sync!MirrorFails, Sync!ChangeFails
  <1>5. \/ UNCHANGED <<syncChurn, syncFaults, syncBroken, syncCrashes>>
        \/ /\ Sync!Trouble
           /\ \/ /\ syncChurn' = syncChurn + 1
                 /\ UNCHANGED <<syncFaults, syncBroken, syncCrashes>>
              \/ /\ syncFaults' = syncFaults + 1
                 /\ UNCHANGED <<syncChurn, syncBroken, syncCrashes>>
              \/ /\ syncBroken' = syncBroken + 1
                 /\ UNCHANGED <<syncChurn, syncFaults, syncCrashes>>
              \/ /\ syncCrashes' = syncCrashes + 1
                 /\ UNCHANGED <<syncChurn, syncFaults, syncBroken>>
    BY <1>4 DEF Sync!Next, Sync!Fault, Sync!Resubscribe, Sync!Crash, syncVars
  <1>6. syncChurn' + syncFaults' + syncBroken' + syncCrashes' <= MaxSyncTroubles
    <2>1. syncChurn \in Nat /\ syncFaults \in Nat /\ syncBroken \in Nat /\ syncCrashes \in Nat
      BY DEF SyncTypes
    <2> QED
      BY <1>1, <1>5, <2>1 DEF TroublesInv, Sync!Trouble
  <1> QED
    BY <1>3, <1>6 DEF TroublesInv

LEMMA SyncTypesHold == SyncTypes /\ LinksInv /\ TroublesInv => Sync!TypeOK
  <1> SUFFICES ASSUME SyncTypes, LinksInv, TroublesInv PROVE Sync!TypeOK
    OBVIOUS
  <1>1. ASSUME NEW o \in Sync!Objects, NEW i \in DOMAIN groups[o]
        PROVE  /\ groups[o][i].thread \in 0 .. Len(groups[Post])
               /\ groups[o][i].shown \in [Channels -> Sync!Ops \cup {"none"}]
    <2>1. groups[o] \in Seq(GroupRows) /\ i \in 1..Count(o) /\ Count(Post) \in Nat
      BY CountShape, SyncFacts
    <2>2. groups[o][i] \in GroupRows
      BY <2>1
    <2>3. groups[o][i].thread \in 0 .. Count(Post)
      BY <2>1, <2>2 DEF GroupRows, LinksInv
    <2> QED
      BY <2>2, <2>3 DEF GroupRows, Shows, Count
  <1>2. ASSUME NEW d \in SyncDeliveries
        PROVE  /\ jobs[d].at \in {"idle", "waiting", "fetching", "filling", "copying",
                                  "publishing", "mirroring", "changing"}
               /\ jobs[d].group \in 0 .. Len(groups[Post]) + Len(groups[d[2]])
               /\ {jobs[d].todo, jobs[d].sent} \subseteq SUBSET Channels
    <2>1. Count(Post) \in Nat /\ Count(d[2]) \in Nat /\ jobs[d] \in JobRows
      BY CountShape, SyncFacts DEF SyncTypes
    <2>2. jobs[d].group \in 0 .. Count(Post) + Count(d[2])
      BY <2>1 DEF JobRows, LinksInv
    <2> QED
      BY <2>1, <2>2 DEF JobRows, Stages, Count
  <1>3. {syncChurn, syncFaults, syncBroken, syncCrashes} \subseteq Nat
    BY DEF SyncTypes
  <1>4. /\ source \in [Sync!Objects -> {Remote} \cup Channels]
        /\ members \in [Channels -> {"none", "pending", "stale", "accepted"}]
        /\ made \in [Sync!Objects -> [Channels -> Nat]]
        /\ status \in [SyncDeliveries -> {"none", "in_progress", "processed", "skipped",
                                          "deferred", "failed"}]
    BY DEF SyncTypes, Outcomes
  <1>5. /\ open \in SyncDeliveries \cup {Nothing}
        /\ syncChurn + syncFaults + syncBroken + syncCrashes <= MaxSyncTroubles
    BY DEF TroublesInv
  <1> QED
    BY <1>1, <1>2, <1>3, <1>4, <1>5 DEF Sync!TypeOK

LEMMA SyncInit ==
    Sync!Init => SyncBase /\ CopiesInv /\ ReachInv /\ LinksInv /\ TroublesInv
  <1> SUFFICES ASSUME Sync!Init
               PROVE  SyncBase /\ CopiesInv /\ ReachInv /\ LinksInv /\ TroublesInv
    OBVIOUS
  <1>1. /\ \A d \in SyncDeliveries : jobs[d] = Sync!Idle /\ status[d] = "none"
        /\ jobs = [d \in SyncDeliveries |-> Sync!Idle]
        /\ status = [d \in SyncDeliveries |-> "none"]
        /\ groups = [o \in Sync!Objects |-> <<>>]
        /\ made = [o \in Sync!Objects |-> [ch \in Channels |-> 0]]
        /\ members = [ch \in Channels |-> "accepted"]
        /\ source \in [Sync!Objects -> {Remote} \cup Channels]
        /\ syncChurn = 0 /\ syncFaults = 0 /\ syncBroken = 0 /\ syncCrashes = 0
    BY DEF Sync!Init
  <1>2. SyncTypes
    BY <1>1, SyncFacts DEF SyncTypes, Outcomes
  <1>3. SyncBase
    BY <1>1, <1>2, SyncFacts DEF SyncBase, Fit
  <1>4. CopiesInv
    <2>1. ASSUME NEW o \in Comments, NEW ch \in Channels
          PROVE  made[o][ch] + Cardinality({d \in Creates(o) : Can(d, ch)}) <= 1 + syncBroken
      <3>1. {d \in Creates(o) : Can(d, ch)} \subseteq {<<"create", o, 1>>}
        <4>1. \A d \in SyncDeliveries : d = <<d[1], d[2], d[3]>>
          BY BridgingAssumption DEF Sync!CommunitySyncAssumption
        <4> QED
          BY <1>1, <4>1, SyncFacts DEF Creates, Can
      <3>2. /\ IsFiniteSet({<<"create", o, 1>>}) /\ Cardinality({<<"create", o, 1>>}) = 1
        BY FS_Singleton
      <3>3. /\ Cardinality({d \in Creates(o) : Can(d, ch)}) <= 1
            /\ Cardinality({d \in Creates(o) : Can(d, ch)}) \in Nat
        BY <3>1, <3>2, FS_Subset, FS_CardinalityType
      <3>4. made[o][ch] = 0 /\ syncBroken = 0
        BY <1>1, SyncFacts
      <3> QED
        BY <3>3, <3>4
    <2>2. \A o \in Comments, ch \in Channels : made[o][ch] = 0
      BY <1>1, SyncFacts
    <2>3. {d \in SyncDeliveries : Loose(d)} = {}
      BY <1>1, SyncFacts DEF Loose
    <2>4. Few({d \in SyncDeliveries : Loose(d)}, syncBroken)
      BY <1>1, <2>3, FewNone
    <2> QED
      BY <2>1, <2>2, <2>4 DEF CopiesInv
  <1>5. ReachInv
    BY <1>1, SyncFacts DEF ReachInv, MembersInv, Reached
  <1>6. LinksInv
    <2>1. \A o \in Sync!Objects : Count(o) = 0
      BY <1>1 DEF Count
    <2>2. ASSUME NEW d \in SyncDeliveries
          PROVE  jobs[d].group = 0 /\ d[2] \in Sync!Objects
      BY <1>1, SyncFacts DEF Sync!Idle
    <2>3. Post \in Sync!Objects
      BY SyncFacts
    <2> QED
      BY <2>1, <2>2, <2>3 DEF LinksInv
  <1>7. TroublesInv
    BY <1>1, BridgingAssumption
    DEF Sync!Init, TroublesInv, Sync!CommunitySyncAssumption
  <1> QED
    BY <1>3, <1>4, <1>5, <1>6, <1>7

-----------------------------------------------------------------------------
(* The theorems *)

BridgingInv ==
    /\ FollowInv /\ SubscriptionInv
    /\ SyncBase /\ LinksInv /\ TroublesInv /\ CopiesInv /\ ReachInv

LEMMA PartSteps ==
    [AllNext]_allVars => /\ [Follow!Next]_followVars
                         /\ [Subscription!Next]_subVars
                         /\ [Sync!Next]_syncVars
  <1>1. InMedia => UNCHANGED <<followVars, subVars, syncVars>>
    BY DEF InMedia
  <1>2. InFollow => UNCHANGED <<subVars, syncVars>>
    BY DEF InFollow
  <1>3. InSubscription => UNCHANGED <<followVars, syncVars>>
    BY DEF InSubscription
  <1>4. InSync => UNCHANGED <<followVars, subVars>>
    BY DEF InSync
  <1>5. InKeeping => UNCHANGED <<followVars, subVars, syncVars>>
    BY DEF InKeeping
  <1>6. UNCHANGED allVars => UNCHANGED <<followVars, subVars, syncVars>>
    BY DEF allVars
  <1> QED
    BY <1>1, <1>2, <1>3, <1>4, <1>5, <1>6 DEF AllNext

LEMMA BridgingInvHolds == AllSpec => []BridgingInv
  <1>1. AllInit => BridgingInv
    BY FollowInit, SubscriptionInit, SyncInit DEF AllInit, BridgingInv
  <1>2. BridgingInv /\ [AllNext]_allVars => BridgingInv'
    <2> SUFFICES ASSUME BridgingInv, [AllNext]_allVars PROVE BridgingInv'
      OBVIOUS
    <2>1. FollowInv'
      BY PartSteps, FollowStep DEF BridgingInv
    <2>2. SubscriptionInv'
      BY PartSteps, SubscriptionStep DEF BridgingInv
    <2>3. SyncBase' /\ CopiesInv' /\ ReachInv'
      BY PartSteps, SyncBaseStep, CopiesStep, ReachStep DEF BridgingInv
    <2>4. SyncTypes /\ SyncTypes'
      BY <2>3 DEF BridgingInv, SyncBase
    <2>5. LinksInv' /\ TroublesInv'
      BY <2>4, PartSteps, LinksStep, TroublesStep DEF BridgingInv
    <2> QED
      BY <2>1, <2>2, <2>3, <2>5 DEF BridgingInv
  <1> QED
    BY <1>1, <1>2, PTL DEF AllSpec

LEMMA BridgingTypes == BridgingInv => Follow!TypeOK /\ Subscription!TypeOK /\ Sync!TypeOK
  <1>1. FollowInv => Follow!TypeOK
    BY DEF FollowInv, QueueInv, HeardInv, Follow!TypeOK
  <1>2. SubscriptionInv => Subscription!TypeOK
    <2>1. ASSUME NEW r \in Awaiting \cup Resting
          PROVE  /\ r.at \in {"ready", "follow", "followed", "undo", "undid", "done"}
                 /\ r.at \notin {"ready", "done"} =>
                       r.channel \in Channels /\ r.community \in Communities
      BY DEF Awaiting, Resting
    <2> QED
      BY <2>1 DEF SubscriptionInv, RowsInv, CallsInv, Subscription!TypeOK
  <1>3. SyncBase /\ LinksInv /\ TroublesInv => Sync!TypeOK
    BY SyncTypesHold DEF SyncBase
  <1> QED
    BY <1>1, <1>2, <1>3 DEF BridgingInv

(* However often a Follow is delivered, retried or refreshed and whatever  *)
(* crashes, its owner hears of one relationship at most once               *)
(* (user_actor_followers.py:100-107): a row is told of by the handler that *)
(* claimed it, and its claim outlives the handler.                         *)
THEOREM OwnersHearOnce == AllSpec => []ToldOnce
  <1>1. FollowInv => ToldOnce
    BY DEF FollowInv, HeardInv, ToldOnce, Follow!ToldOnce, Follow!IsInjective
  <1> QED
    BY <1>1, BridgingInvHolds, PTL DEF BridgingInv

(* A channel row that waits or routes is backed by the follow row of its   *)
(* community, however commands, Accepts and crashes come between a         *)
(* command's reads and its writes (subscribe.py:233-305).                  *)
THEOREM RoutesAreFollowed == AllSpec => []RoutedIsFollowed
  <1>1. SubscriptionInv => RoutedIsFollowed
    BY DEF SubscriptionInv, RowsInv, RoutedIsFollowed
  <1> QED
    BY <1>1, BridgingInvHolds, PTL DEF BridgingInv

(* No failed attempt, redelivery, Announce or crash posts a comment once   *)
(* more in a channel, only a request that broke can (runtime.py:408-429,   *)
(* 505): a handler begins beside others of the same comment only when all  *)
(* their requests broke, and before any of them has made a copy.           *)
THEOREM CommentsAreNotRepeated == AllSpec => []RetriesAddNoCopy
  BY CopiesBound, BridgingInvHolds, PTL DEF BridgingInv

(* A remote comment that was handled is in every accepted channel but as   *)
(* many as calls failed (runtime.py:435-450, 505-532): what a handler knew *)
(* of the threads there are when it awaited is still true afterwards.      *)
THEOREM CommentsArrive == AllSpec => []CommentsReachAll
  BY ReachBound, BridgingInvHolds, PTL DEF BridgingInv
=============================================================================
