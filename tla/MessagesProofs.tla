--------------------------- MODULE MessagesProofs ---------------------------
(***************************************************************************)
(* Theorems about MCMessages: remote comments on their way into a channel  *)
(* (Feed, any comments, revisions and faults) and the ids of messages      *)
(* through restarts (Identity, any items, servers and starts).  Those of   *)
(* the third part, content mutations, are in ContentMutationProofs.        *)
(***************************************************************************)
EXTENDS MCMessages, ContentMutationProofs

Claims == [comment : Comments, body : Feed!Revisions, deleted : BOOLEAN, message : Nat]

InBatch(c) == \E k \in 1..Len(batch) : batch[k].comment = c

(* Discord has acted on the claim of c, the row does not say so yet.       *)
Acted(c) == phase = "acted" /\ batch[1].comment = c

(* A comment has one row, and nothing is known of one that has none.       *)
AdmittedOnce ==
    /\ \A i, j \in 1..Len(rows) : rows[i] = rows[j] => i = j
    /\ \A c \in Comments :
          IF Feed!Known(c) THEN state[c] # "none"
          ELSE /\ parent[c] = Root /\ state[c] = "none" /\ message[c] = 0
               /\ shown[c] = <<>> /\ c \notin removed

(* The worker holds one claim of a comment, made for the message there is. *)
ClaimsHold ==
    /\ phase # "idle" => batch # <<>>
    /\ phase = "acted" => Len(shown[batch[1].comment]) > 0
    /\ \A k, l \in 1..Len(batch) : batch[k].comment = batch[l].comment => k = l
    /\ \A k \in 1..Len(batch) :
          /\ state[batch[k].comment] \in {"dispatching", "ready", "suppressed"}
          /\ batch[k].message = message[batch[k].comment]

(* What has not ended has an attempt left.                                 *)
AttemptsLeft == \A c \in Comments : state[c] \in Feed!Ended \/ attempts[c] < MaxAttempts

(* A message nobody recorded is a fault each, or the answer is under way,  *)
(* or the delivery was suppressed while it was.                            *)
MessagesCounted ==
    \A c \in Comments :
        /\ message[c] <= Len(shown[c])
        /\ state[c] = "delivered" => message[c] # 0
        /\ message[c] = 0 => \/ Len(shown[c]) <= faults
                             \/ Acted(c)
                             \/ state[c] = "suppressed" /\ ~InBatch(c)

(* A delivery that was ever due has a known parent.                        *)
ParentsKnown ==
    \A c \in Comments :
        \/ state[c] \in {"ready", "dispatching", "failed", "delivered"}
        \/ InBatch(c)
        => Feed!Known(parent[c])

(* No message shows more than the row has, none more than the claim of its *)
(* comment, until that claim has been acted on.                            *)
TextsGrow ==
    /\ \A c \in Comments : \A i \in 1..Len(shown[c]) :
          shown[c][i] = Gone \/ shown[c][i] <= content[c]
    /\ \A k \in 1..Len(batch) :
          /\ batch[k].body <= content[batch[k].comment]
          /\ \/ k = 1 /\ phase = "acted"
             \/ \A i \in 1..Len(shown[batch[k].comment]) :
                   \/ shown[batch[k].comment][i] = Gone
                   \/ shown[batch[k].comment][i] <= batch[k].body

FeedInv == /\ Feed!TypeOK /\ AdmittedOnce /\ ClaimsHold /\ AttemptsLeft
           /\ MessagesCounted /\ Feed!OneMessage /\ Feed!DeletedUnseenStaysSuppressed
           /\ ParentsKnown /\ Feed!WaitsForParent /\ TextsGrow

LEMMA FeedFacts ==
    /\ Root \notin Comments /\ MaxRevision \in Nat /\ MaxFaults \in Nat
    /\ ClaimLimit \in Nat \ {0} /\ MaxAttempts \in Nat \ {0}
    /\ Gone \notin Feed!Revisions
  BY MessagesAssumption
  DEF Feed!PersonalFeedAssumption, Feed!Revisions

LEMMA FeedInit == Feed!Init => FeedInv
  <1> SUFFICES ASSUME Feed!Init PROVE FeedInv
    OBVIOUS
  <1>1. Len(rows) = 0 /\ Len(batch) = 0 /\ faults = 0 /\ \A c \in Comments : Len(shown[c]) = 0
    BY DEF Feed!Init
  <1>2. Feed!TypeOK
    <2>1. /\ rows \in Seq(Comments) /\ shown \in [Comments -> Seq(Feed!Revisions \cup {Gone})]
          /\ batch \in Seq(Claims)
      BY DEF Feed!Init
    <2>2. 0 \in Feed!Revisions /\ 0 \in 0..MaxAttempts /\ 0 \in 0..MaxFaults
      BY FeedFacts DEF Feed!Revisions
    <2> QED
      BY <2>1, <2>2 DEF Feed!Init, Feed!TypeOK, Feed!States, Feed!Ended, Feed!Phases, Claims
  <1> QED
    BY <1>1, <1>2, FeedFacts
    DEF Feed!Init, FeedInv, AdmittedOnce, ClaimsHold, AttemptsLeft, MessagesCounted,
        ParentsKnown, TextsGrow, Feed!OneMessage, Feed!DeletedUnseenStaysSuppressed,
        Feed!WaitsForParent, Feed!Known, InBatch

LEMMA ClaimFacts ==
    ASSUME Feed!TypeOK
    PROVE  /\ batch \in Seq(Claims) /\ Len(batch) \in Nat
           /\ \A k \in 1..Len(batch) :
                 /\ batch[k] \in Claims
                 /\ batch[k].comment \in Comments /\ batch[k].body \in Nat
                 /\ batch[k].body \in Feed!Revisions
                 /\ batch[k].deleted \in BOOLEAN /\ batch[k].message \in Nat
           /\ \A c \in Comments : /\ content[c] \in Nat /\ attempts[c] \in 0..MaxAttempts
                                  /\ message[c] \in Nat /\ Len(shown[c]) \in Nat
                                  /\ shown[c] \in Seq(Feed!Revisions \cup {Gone})
                                  /\ state[c] \in Feed!States
           /\ faults \in Nat /\ 0 \in 0..MaxAttempts
  <1>1. batch \in Seq(Claims)
    BY DEF Feed!TypeOK, Claims
  <1>2. \A b \in Claims : /\ b.comment \in Comments /\ b.body \in Nat
                          /\ b.body \in Feed!Revisions
                          /\ b.deleted \in BOOLEAN /\ b.message \in Nat
    BY FeedFacts DEF Claims, Feed!Revisions
  <1>3. \A k \in 1..Len(batch) : batch[k] \in Claims
    BY <1>1
  <1>4. \A c \in Comments : content[c] \in Nat /\ shown[c] \in Seq(Feed!Revisions \cup {Gone})
    BY FeedFacts DEF Feed!TypeOK, Feed!Revisions
  <1>5. \A c \in Comments : /\ attempts[c] \in 0..MaxAttempts
                            /\ message[c] \in Nat /\ state[c] \in Feed!States
    BY DEF Feed!TypeOK
  <1>6. faults \in Nat /\ 0 \in 0..MaxAttempts /\ Len(batch) \in Nat
    BY <1>1, FeedFacts DEF Feed!TypeOK
  <1> QED
    BY <1>1, <1>2, <1>3, <1>4, <1>5, <1>6

(* What an event leaves alone and what it may do to the row of a comment.  *)
LEMMA UpdateStep ==
    ASSUME FeedInv, NEW c \in Comments, NEW v \in Feed!Revisions, Feed!HandleUpdate(c, v)
    PROVE  FeedInv'
  <1>1. /\ Feed!Known(c) /\ c \notin removed /\ v > content[c]
        /\ content' = [content EXCEPT ![c] = v]
        /\ UNCHANGED <<rows, parent, removed, message, shown, bound, batch, phase, unwoken,
                       faults>>
    BY DEF Feed!HandleUpdate, Feed!Newer, Feed!workerVars
  <1>2. \/ UNCHANGED <<state, attempts>>
        \/ /\ message[c] # 0 \/ state[c] = "failed"
           /\ state' = [state EXCEPT ![c] = "ready"]
           /\ attempts' = [attempts EXCEPT ![c] = 0]
    BY DEF Feed!HandleUpdate, Feed!Reopen
  <1>3. 0 \in 0..MaxAttempts /\ 0 < MaxAttempts
    BY FeedFacts
  <1>12. Feed!TypeOK'
    <2>1. content' \in [Comments -> Feed!Revisions]
      BY <1>1 DEF FeedInv, Feed!TypeOK
    <2>2. state' \in [Comments -> Feed!States]
      BY <1>2 DEF FeedInv, Feed!TypeOK, Feed!States
    <2>3. attempts' \in [Comments -> 0..MaxAttempts]
      BY <1>2, <1>3 DEF FeedInv, Feed!TypeOK
    <2> QED
      BY <1>1, <2>1, <2>2, <2>3 DEF FeedInv, Feed!TypeOK
  <1>4. AdmittedOnce'
    BY <1>1, <1>2 DEF FeedInv, AdmittedOnce, Feed!TypeOK, Feed!Known
  <1>5. ClaimsHold'
    BY <1>1, <1>2, ClaimFacts DEF FeedInv, ClaimsHold, Feed!TypeOK
  <1>6. AttemptsLeft'
    BY <1>1, <1>2, <1>3 DEF FeedInv, AttemptsLeft, Feed!TypeOK
  <1>7. MessagesCounted'
    BY <1>1, <1>2 DEF FeedInv, MessagesCounted, Feed!TypeOK, Acted, InBatch
  <1>8. Feed!OneMessage' /\ Feed!DeletedUnseenStaysSuppressed'
    BY <1>1, <1>2
    DEF FeedInv, Feed!OneMessage, Feed!DeletedUnseenStaysSuppressed, Feed!TypeOK
  <1>9. ParentsKnown'
    BY <1>1, <1>2
    DEF FeedInv, ParentsKnown, Feed!TypeOK, MessagesCounted, Feed!WaitsForParent, InBatch,
        Feed!Known
  <1>10. Feed!WaitsForParent'
    BY <1>1, <1>2 DEF FeedInv, Feed!WaitsForParent, Feed!TypeOK, Feed!Known
  <1>11. TextsGrow'
    <2>1. \A e \in Comments : content'[e] >= content[e] /\ content'[e] \in Nat
      BY <1>1, <1>12, ClaimFacts, FeedFacts DEF FeedInv, Feed!TypeOK, Feed!Revisions
    <2>2. \A e \in Comments : \A i \in 1..Len(shown[e]) :
             shown[e][i] = Gone \/ shown[e][i] \in Nat
      BY ClaimFacts, FeedFacts DEF FeedInv, Feed!Revisions
    <2>3. \A e \in Comments : \A i \in 1..Len(shown[e]) :
             shown[e][i] = Gone \/ shown[e][i] <= content'[e]
      BY <2>1, <2>2, ClaimFacts DEF FeedInv, TextsGrow
    <2>4. \A k \in 1..Len(batch) : batch[k].body <= content'[batch[k].comment]
      BY <2>1, ClaimFacts DEF FeedInv, TextsGrow
    <2> QED
      BY <1>1, <2>3, <2>4 DEF FeedInv, TextsGrow
  <1> QED
    BY <1>12, <1>4, <1>5, <1>6, <1>7, <1>8, <1>9, <1>10, <1>11 DEF FeedInv

LEMMA DeleteStep ==
    ASSUME FeedInv, NEW c \in Comments, Feed!HandleDelete(c) PROVE FeedInv'
  <1>1. /\ Feed!Known(c) /\ c \notin removed /\ removed' = removed \cup {c}
        /\ UNCHANGED <<rows, parent, content, message, shown, bound, batch, phase, unwoken,
                       faults>>
    BY DEF Feed!HandleDelete, Feed!workerVars
  <1>2. \/ /\ message[c] = 0 /\ state' = [state EXCEPT ![c] = "suppressed"]
           /\ UNCHANGED attempts
        \/ /\ message[c] # 0 /\ state' = [state EXCEPT ![c] = "ready"]
           /\ attempts' = [attempts EXCEPT ![c] = 0]
    BY DEF Feed!HandleDelete, Feed!Reopen
  <1>3. 0 \in 0..MaxAttempts /\ 0 < MaxAttempts
    BY FeedFacts
  <1>4. Feed!TypeOK'
    <2>1. state' \in [Comments -> Feed!States]
      BY <1>2 DEF FeedInv, Feed!TypeOK, Feed!States, Feed!Ended
    <2>2. attempts' \in [Comments -> 0..MaxAttempts]
      BY <1>2, <1>3 DEF FeedInv, Feed!TypeOK
    <2> QED
      BY <1>1, <2>1, <2>2 DEF FeedInv, Feed!TypeOK
  <1>5. AdmittedOnce'
    BY <1>1, <1>2, SMTT(30) DEF FeedInv, AdmittedOnce, Feed!TypeOK, Feed!Known
  <1>6. ClaimsHold'
    BY <1>1, <1>2, ClaimFacts DEF FeedInv, ClaimsHold, Feed!TypeOK
  <1>7. AttemptsLeft'
    BY <1>1, <1>2, <1>3 DEF FeedInv, AttemptsLeft, Feed!TypeOK, Feed!Ended
  <1>8. MessagesCounted'
    BY <1>1, <1>2 DEF FeedInv, MessagesCounted, Feed!TypeOK, Acted, InBatch
  <1>9. Feed!OneMessage' /\ Feed!DeletedUnseenStaysSuppressed'
    BY <1>1, <1>2
    DEF FeedInv, Feed!OneMessage, Feed!DeletedUnseenStaysSuppressed, Feed!TypeOK
  <1>10. ParentsKnown'
    <2>1. message[c] # 0 => shown[c] # <<>>
      BY ClaimFacts DEF FeedInv, MessagesCounted
    <2>2. message[c] # 0 => Feed!Known(parent[c])
      BY <2>1 DEF FeedInv, Feed!WaitsForParent
    <2> QED
      BY <1>1, <1>2, <2>2 DEF FeedInv, ParentsKnown, Feed!TypeOK, InBatch, Feed!Known
  <1>11. Feed!WaitsForParent'
    BY <1>1, <1>2 DEF FeedInv, Feed!WaitsForParent, Feed!TypeOK, Feed!Known
  <1>12. TextsGrow'
    BY <1>1 DEF FeedInv, TextsGrow
  <1> QED
    BY <1>4, <1>5, <1>6, <1>7, <1>8, <1>9, <1>10, <1>11, <1>12 DEF FeedInv

LEMMA BindingStep == ASSUME FeedInv, Feed!ChangeBinding PROVE FeedInv'
  <1>1. /\ UNCHANGED <<rows, parent, content, removed, state, attempts, message, shown,
                       batch, phase, unwoken, faults>>
        /\ bound' = ~bound
    BY DEF Feed!ChangeBinding, Feed!objectVars, Feed!deliveryVars, Feed!workerVars
  <1>2. bound' \in BOOLEAN
    BY <1>1
  <1>3. Feed!TypeOK'
    BY <1>1, <1>2 DEF FeedInv, Feed!TypeOK
  <1>4. AdmittedOnce' /\ ClaimsHold' /\ AttemptsLeft' /\ MessagesCounted' /\ ParentsKnown'
    BY <1>1
    DEF FeedInv, AdmittedOnce, ClaimsHold, AttemptsLeft, MessagesCounted, ParentsKnown,
        Feed!Known, Acted, InBatch
  <1>5. /\ Feed!OneMessage' /\ Feed!DeletedUnseenStaysSuppressed' /\ Feed!WaitsForParent'
        /\ TextsGrow'
    BY <1>1
    DEF FeedInv, Feed!OneMessage, Feed!DeletedUnseenStaysSuppressed, Feed!WaitsForParent,
        Feed!Known, TextsGrow
  <1> QED
    BY <1>3, <1>4, <1>5 DEF FeedInv
-----------------------------------------------------------------------------
(* The first admission of a comment: one more is known, nothing else.      *)
LEMMA AdmitFacts ==
    ASSUME FeedInv, NEW c \in Comments, NEW p \in (Comments \ {c}) \cup {Root},
           Feed!AdmitCreate(c, p)
    PROVE  /\ rows' \in Seq(Comments) /\ parent' \in [Comments -> Comments \cup {Root}]
           /\ \A i, j \in 1..Len(rows') : rows'[i] = rows'[j] => i = j
           /\ \A e : Feed!Known(e)' <=> Feed!Known(e) \/ e = c
           /\ \A e \in Comments : Feed!Known(e) => parent'[e] = parent[e]
           /\ \A e \in Comments \ {c} : parent'[e] = parent[e]
           /\ ~Feed!Known(c) => parent'[c] = p
  <1>1. rows \in Seq(Comments) /\ parent \in [Comments -> Comments \cup {Root}]
    BY DEF FeedInv, Feed!TypeOK
  <1>2. CASE Feed!Known(c)
    <2>1. rows' = rows /\ parent' = parent
      BY <1>2 DEF Feed!AdmitCreate
    <2> QED
      BY <1>1, <1>2, <2>1 DEF FeedInv, AdmittedOnce, Feed!Known
  <1>3. CASE ~Feed!Known(c)
    <2>1. rows' = Append(rows, c) /\ parent' = [parent EXCEPT ![c] = p]
      BY <1>3 DEF Feed!AdmitCreate
    <2>2. /\ rows' \in Seq(Comments) /\ Len(rows') = Len(rows) + 1 /\ Len(rows) \in Nat
          /\ \A i \in 1..Len(rows) : rows'[i] = rows[i]
          /\ rows'[Len(rows) + 1] = c
      BY <1>1, <2>1
    <2>3. \A i \in 1..Len(rows) : rows[i] # c
      BY <1>3 DEF Feed!Known
    <2>4. \A i, j \in 1..Len(rows') : rows'[i] = rows'[j] => i = j
      BY <2>2, <2>3 DEF FeedInv, AdmittedOnce
    <2>5. \A e : Feed!Known(e)' <=> Feed!Known(e) \/ e = c
      <3>1. ASSUME NEW e, Feed!Known(e)' PROVE Feed!Known(e) \/ e = c
        BY <2>2, <3>1 DEF Feed!Known
      <3>2. ASSUME NEW e, Feed!Known(e) \/ e = c PROVE Feed!Known(e)'
        <4>1. Len(rows) + 1 \in 1..Len(rows')
          BY <2>2
        <4>2. \A i \in 1..Len(rows) : i \in 1..Len(rows')
          BY <2>2
        <4> QED
          BY <2>2, <3>2, <4>1, <4>2 DEF Feed!Known
      <3> QED
        BY <3>1, <3>2
    <2> QED
      BY <1>1, <1>3, <2>1, <2>2, <2>4, <2>5
  <1> QED
    BY <1>2, <1>3

LEMMA CreateStep ==
    ASSUME FeedInv, NEW c \in Comments, NEW p \in (Comments \ {c}) \cup {Root},
           Feed!HandleCreate(c, p)
    PROVE  FeedInv'
  <1>1. /\ Feed!AdmitCreate(c, p) /\ unwoken' = unwoken \ {c}
        /\ UNCHANGED <<content, removed, attempts, message, shown, bound, batch, phase, faults>>
    BY DEF Feed!HandleCreate, Feed!workerVars
  <1>2. /\ rows' \in Seq(Comments) /\ parent' \in [Comments -> Comments \cup {Root}]
        /\ \A i, j \in 1..Len(rows') : rows'[i] = rows'[j] => i = j
        /\ \A e : Feed!Known(e)' <=> Feed!Known(e) \/ e = c
        /\ \A e \in Comments : Feed!Known(e) => parent'[e] = parent[e]
        /\ \A e \in Comments \ {c} : parent'[e] = parent[e]
        /\ ~Feed!Known(c) => parent'[c] = p
    BY <1>1, AdmitFacts
  <1>3. \A e \in Comments : Feed!Known(e) \/ e # c =>
           state'[e] = IF state[e] = "pending_parent" /\ parent[e] = c THEN "ready" ELSE state[e]
    BY DEF Feed!HandleCreate, Feed!Woken, Feed!Admitted, FeedInv, Feed!TypeOK
  <1>4. ~Feed!Known(c) => state'[c] = IF Feed!Known(p) THEN "ready" ELSE "pending_parent"
    <2>1. ~Feed!Known(c) => parent[c] = Root /\ Root # c
      BY FeedFacts DEF FeedInv, AdmittedOnce
    <2> QED
      BY <2>1 DEF Feed!HandleCreate, Feed!Woken, Feed!Admitted, FeedInv, Feed!TypeOK
  <1>5. Feed!TypeOK'
    <2>1. state' \in [Comments -> Feed!States]
      <3>1. DOMAIN state' = Comments /\ state' = [e \in Comments |-> state'[e]]
        BY DEF Feed!HandleCreate, Feed!Woken
      <3> QED
        BY <1>3, <1>4, <3>1 DEF FeedInv, Feed!TypeOK, Feed!States
    <2> QED
      BY <1>1, <1>2, <2>1 DEF FeedInv, Feed!TypeOK
  <1>6. AdmittedOnce'
    <2>1. ASSUME NEW e \in Comments
          PROVE  IF Feed!Known(e)' THEN state'[e] # "none"
                 ELSE /\ parent'[e] = Root /\ state'[e] = "none" /\ message'[e] = 0
                      /\ shown'[e] = <<>> /\ e \notin removed'
      BY <1>1, <1>2, <1>3, <1>4 DEF FeedInv, AdmittedOnce
    <2> QED
      BY <1>2, <2>1 DEF AdmittedOnce
  <1>7. \A k \in 1..Len(batch) : state[batch[k].comment] # "none" /\ batch[k].comment \in Comments
    BY ClaimFacts DEF FeedInv, ClaimsHold
  <1>8. \A k \in 1..Len(batch) : state'[batch[k].comment] = state[batch[k].comment]
    BY <1>3, <1>7 DEF FeedInv, ClaimsHold, AdmittedOnce
  <1>9. ClaimsHold'
    BY <1>1, <1>8 DEF FeedInv, ClaimsHold
  <1>10. AttemptsLeft'
    BY <1>1, <1>3, <1>4 DEF FeedInv, AttemptsLeft, AdmittedOnce, Feed!Ended
  <1>11. MessagesCounted' /\ Feed!OneMessage' /\ Feed!DeletedUnseenStaysSuppressed'
    <2>1. ASSUME NEW e \in Comments, state[e] = "suppressed" \/ state'[e] = "delivered"
          PROVE  state'[e] = state[e]
      BY <1>3, <1>4, <2>1 DEF FeedInv, AdmittedOnce
    <2>2. \A e : (Acted(e)' <=> Acted(e)) /\ (InBatch(e)' <=> InBatch(e))
      BY <1>1 DEF Acted, InBatch
    <2>3. MessagesCounted'
      BY <1>1, <2>1, <2>2 DEF FeedInv, MessagesCounted
    <2>4. Feed!OneMessage' /\ Feed!DeletedUnseenStaysSuppressed'
      BY <1>1, <2>1
      DEF FeedInv, Feed!TypeOK, Feed!OneMessage, Feed!DeletedUnseenStaysSuppressed
    <2> QED
      BY <2>3, <2>4
  <1>12. ParentsKnown'
    <2>1. ASSUME NEW e \in Comments, NEW q, q = parent'[e],
                 \/ state'[e] \in {"ready", "dispatching", "failed", "delivered"}
                 \/ InBatch(e)
          PROVE  Feed!Known(q)'
      <3>1. CASE Feed!Known(e)
        <4>1. q = parent[e]
          BY <1>2, <2>1, <3>1
        <4>2. state[e] = "pending_parent" => state'[e] = "pending_parent" \/ q = c
          BY <1>3, <3>1, <4>1
        <4> QED
          BY <1>2, <1>3, <2>1, <3>1, <4>1, <4>2 DEF FeedInv, ParentsKnown
      <3>2. CASE ~Feed!Known(e)
        <4>1. e = c /\ q = p /\ Feed!Known(p)
          BY <1>2, <1>3, <1>4, <1>7, <2>1, <3>2 DEF FeedInv, AdmittedOnce, InBatch
        <4> QED
          BY <1>2, <4>1
      <3> QED
        BY <3>1, <3>2
    <2> QED
      BY <1>1, <2>1 DEF ParentsKnown, InBatch, Feed!Known
  <1>13. Feed!WaitsForParent'
    <2>1. ASSUME NEW e \in Comments, NEW q, q = parent'[e], shown[e] # <<>>
          PROVE  Feed!Known(q)'
      <3>1. Feed!Known(e) /\ Feed!Known(parent[e])
        BY <2>1 DEF FeedInv, Feed!WaitsForParent, AdmittedOnce
      <3> QED
        BY <1>2, <2>1, <3>1
    <2>2. ASSUME NEW e \in Comments, NEW q, q = parent'[e], state'[e] = "pending_parent"
          PROVE  ~Feed!Known(q)' \/ q \in unwoken'
      <3>1. CASE Feed!Known(e)
        <4>1. q = parent[e] /\ state[e] = "pending_parent" /\ q # c
          BY <1>2, <1>3, <2>2, <3>1
        <4> QED
          BY <1>1, <1>2, <4>1 DEF FeedInv, Feed!WaitsForParent
      <3>2. CASE ~Feed!Known(e)
        <4>1. e = c /\ q = p /\ ~Feed!Known(p) /\ p # c
          BY <1>2, <1>3, <1>4, <2>2, <3>2, FeedFacts DEF FeedInv, AdmittedOnce
        <4> QED
          BY <1>2, <4>1
      <3> QED
        BY <3>1, <3>2
    <2> QED
      BY <1>1, <2>1, <2>2 DEF Feed!WaitsForParent, Feed!Known
  <1>14. TextsGrow'
    BY <1>1 DEF FeedInv, TextsGrow
  <1> QED
    BY <1>5, <1>6, <1>9, <1>10, <1>11, <1>12, <1>13, <1>14 DEF FeedInv
-----------------------------------------------------------------------------
(* The worker.  The first claim goes, the others move up.                  *)
LEMMA TailFacts ==
    ASSUME FeedInv, batch # <<>>, batch' = Tail(batch)
    PROVE  /\ batch' \in Seq(Claims) /\ Len(batch') = Len(batch) - 1
           /\ 1 \in 1..Len(batch) /\ InBatch(batch[1].comment)
           /\ Feed!Current = batch[1] /\ batch[1].comment \in Comments
           /\ \A k \in 1..Len(batch') : /\ batch'[k] = batch[k + 1]
                                        /\ k + 1 \in 1..Len(batch) /\ k + 1 # 1
                                        /\ batch'[k].comment # batch[1].comment
           /\ \A k, l \in 1..Len(batch') : batch'[k].comment = batch'[l].comment => k = l
           /\ \A e : InBatch(e)' <=> InBatch(e) /\ e # batch[1].comment
  <1>1. batch \in Seq(Claims) /\ Len(batch) \in Nat \ {0}
    BY ClaimFacts DEF FeedInv
  <1>2. /\ batch' \in Seq(Claims) /\ Len(batch') = Len(batch) - 1
        /\ \A k \in 1..Len(batch') : batch'[k] = batch[k + 1]
    BY <1>1
  <1>3. /\ 1 \in 1..Len(batch) /\ Feed!Current = batch[1]
        /\ batch[1].comment \in Comments /\ InBatch(batch[1].comment)
    BY <1>1, ClaimFacts DEF Feed!Current, FeedInv, InBatch
  <1>4. \A k \in 1..Len(batch') : /\ k + 1 \in 1..Len(batch) /\ k + 1 # 1
                                  /\ batch'[k].comment # batch[1].comment
    BY <1>1, <1>2, <1>3 DEF FeedInv, ClaimsHold
  <1>5. \A k, l \in 1..Len(batch') : batch'[k].comment = batch'[l].comment => k = l
    <2>1. ASSUME NEW k \in 1..Len(batch'), NEW l \in 1..Len(batch'),
                 batch'[k].comment = batch'[l].comment
          PROVE  k = l
      <3>1. k + 1 = l + 1
        BY <1>2, <1>4, <2>1 DEF FeedInv, ClaimsHold
      <3> QED
        BY <1>1, <1>2, <3>1
    <2> QED
      BY <2>1
  <1>6. ASSUME NEW e PROVE InBatch(e)' <=> InBatch(e) /\ e # batch[1].comment
    <2>1. InBatch(e)' => InBatch(e) /\ e # batch[1].comment
      BY <1>2, <1>4 DEF InBatch
    <2>2. ASSUME NEW k \in 1..Len(batch), batch[k].comment = e, e # batch[1].comment
          PROVE  InBatch(e)'
      <3>1. k - 1 \in 1..Len(batch') /\ (k - 1) + 1 = k
        BY <1>1, <1>2, <2>2
      <3> QED
        BY <1>2, <2>2, <3>1 DEF InBatch
    <2> QED
      BY <2>1, <2>2 DEF InBatch
  <1> QED
    BY <1>2, <1>3, <1>4, <1>5, <1>6

(* A claim comes to an end: what its row may become.                       *)
LEMMA ClaimEnds ==
    ASSUME FeedInv, batch # <<>>, Feed!NextClaim, NEW c, c = batch[1].comment,
           UNCHANGED <<rows, parent, content, removed, shown, unwoken>>,
           NEW s \in Feed!Ended \cup {"ready"}, state' = [state EXCEPT ![c] = s],
           attempts' \in [Comments -> 0..MaxAttempts],
           \A e \in Comments \ {c} : attempts'[e] = attempts[e],
           s \in Feed!Ended \/ attempts'[c] < MaxAttempts,
           message' \in [Comments -> Nat],
           \A e \in Comments \ {c} : message'[e] = message[e],
           message'[c] \in {message[c], Len(shown[c])},
           message'[c] = 0 => message[c] = 0,
           s = "delivered" => message'[c] # 0,
           s = "suppressed" \/ message'[c] # 0 \/ Len(shown[c]) <= faults',
           c \in removed /\ message'[c] = 0 => s = "suppressed",
           faults' \in 0..MaxFaults, faults' >= faults, bound' \in BOOLEAN
    PROVE  FeedInv'
  <1>1. /\ batch' = Tail(batch) /\ phase' = "idle" /\ c \in Comments
        /\ state \in [Comments -> Feed!States] /\ state'[c] = s
        /\ \A e \in Comments \ {c} : state'[e] = state[e]
    BY TailFacts DEF Feed!NextClaim, FeedInv, Feed!TypeOK
  <1>2. /\ batch' \in Seq(Claims) /\ InBatch(c) /\ 1 \in 1..Len(batch)
        /\ \A k \in 1..Len(batch') : /\ batch'[k] = batch[k + 1]
                                     /\ k + 1 \in 1..Len(batch) /\ k + 1 # 1
                                     /\ batch'[k].comment # c
        /\ \A k, l \in 1..Len(batch') : batch'[k].comment = batch'[l].comment => k = l
        /\ \A e : InBatch(e)' <=> InBatch(e) /\ e # c
    BY <1>1, TailFacts
  <1>3. \A k \in 1..Len(batch') : batch'[k].comment \in Comments \ {c}
    BY <1>2, ClaimFacts DEF FeedInv
  <1>4. Feed!TypeOK'
    <2>1. state' \in [Comments -> Feed!States]
      BY <1>1 DEF Feed!States
    <2>2. phase' \in Feed!Phases
      BY <1>1 DEF Feed!Phases
    <2> QED
      BY <1>2, <2>1, <2>2 DEF FeedInv, Feed!TypeOK, Claims
  <1>5. AdmittedOnce'
    <2>1. Feed!Known(c)
      BY <1>1, <1>2, TailFacts DEF FeedInv, AdmittedOnce, ClaimsHold
    <2>2. ASSUME NEW e \in Comments
          PROVE  IF Feed!Known(e) THEN state'[e] # "none"
                 ELSE /\ parent'[e] = Root /\ state'[e] = "none" /\ message'[e] = 0
                      /\ shown'[e] = <<>> /\ e \notin removed'
      BY <1>1, <2>1 DEF FeedInv, AdmittedOnce, Feed!Ended
    <2>3. \A e : Feed!Known(e)' <=> Feed!Known(e)
      BY DEF Feed!Known
    <2> QED
      BY <2>2, <2>3 DEF FeedInv, AdmittedOnce
  <1>6. ClaimsHold'
    <2>1. ASSUME NEW k \in 1..Len(batch')
          PROVE  /\ state'[batch'[k].comment] \in {"dispatching", "ready", "suppressed"}
                 /\ batch'[k].message = message'[batch'[k].comment]
      <3>1. batch'[k] = batch[k + 1] /\ k + 1 \in 1..Len(batch)
            /\ batch'[k].comment \in Comments \ {c}
        BY <1>2, <1>3
      <3>2. /\ state[batch[k + 1].comment] \in {"dispatching", "ready", "suppressed"}
            /\ batch[k + 1].message = message[batch[k + 1].comment]
        BY <3>1 DEF FeedInv, ClaimsHold
      <3> QED
        BY <1>1, <3>1, <3>2
    <2>2. \A k, l \in 1..Len(batch') : batch'[k].comment = batch'[l].comment => k = l
      BY <1>2
    <2> QED
      BY <1>1, <2>1, <2>2 DEF ClaimsHold
  <1>7. AttemptsLeft'
    BY <1>1 DEF FeedInv, AttemptsLeft
  <1>8. MessagesCounted'
    <2>1. \A e \in Comments : /\ message'[e] <= Len(shown'[e])
                              /\ state'[e] = "delivered" => message'[e] # 0
      <3>1. \A e \in Comments \ {c} : /\ message'[e] <= Len(shown[e])
                                      /\ state'[e] = "delivered" => message'[e] # 0
        BY <1>1, ZenonT(30) DEF FeedInv, MessagesCounted
      <3>2. /\ message'[c] <= Len(shown[c])
            /\ state'[c] = "delivered" => message'[c] # 0
        BY <1>1, ClaimFacts DEF FeedInv, MessagesCounted
      <3> QED
        BY <3>1, <3>2
    <2>2. ASSUME NEW e \in Comments, message'[e] = 0
          PROVE  \/ Len(shown'[e]) <= faults'
                 \/ state'[e] = "suppressed" /\ ~InBatch(e)'
      <3>1. CASE e = c
        BY <1>1, <1>2, <2>2, <3>1
      <3>2. CASE e # c
        <4>1. \/ Len(shown[e]) <= faults
              \/ state[e] = "suppressed" /\ ~InBatch(e)
          BY <2>2, <3>2 DEF FeedInv, MessagesCounted, Acted
        <4>2. Len(shown[e]) \in Nat /\ faults \in Nat /\ faults' \in Nat
          BY ClaimFacts, FeedFacts DEF FeedInv
        <4> QED
          BY <1>1, <1>2, <3>2, <4>1, <4>2
      <3> QED
        BY <3>1, <3>2
    <2>3. \A e \in Comments :
             message'[e] = 0 => \/ Len(shown'[e]) <= faults'
                                \/ Acted(e)'
                                \/ state'[e] = "suppressed" /\ ~InBatch(e)'
      BY <2>2
    <2> QED
      BY <2>1, <2>3 DEF MessagesCounted
  <1>9. Feed!OneMessage' /\ Feed!DeletedUnseenStaysSuppressed'
    <2>1. faults' \in Nat /\ faults \in Nat
      BY FeedFacts, ClaimFacts DEF FeedInv
    <2>2. \A e \in Comments : Len(shown[e]) <= 1 + faults'
      BY <2>1, ClaimFacts DEF FeedInv, Feed!OneMessage
    <2>3. ASSUME NEW e \in removed, message'[e] = 0 PROVE state'[e] = "suppressed"
      BY <1>1, <2>3 DEF FeedInv, Feed!DeletedUnseenStaysSuppressed, Feed!TypeOK
    <2> QED
      BY <2>2, <2>3 DEF Feed!OneMessage, Feed!DeletedUnseenStaysSuppressed
  <1>10. ParentsKnown' /\ Feed!WaitsForParent'
    BY <1>1, <1>2
    DEF FeedInv, ParentsKnown, Feed!WaitsForParent, Feed!Known, Feed!Ended
  <1>11. TextsGrow'
    BY <1>1, <1>2, SMTT(30) DEF FeedInv, TextsGrow
  <1> QED
    BY <1>4, <1>5, <1>6, <1>7, <1>8, <1>9, <1>10, <1>11 DEF FeedInv

(* Nothing is rendered: the delivery is suppressed with its claim.         *)
LEMMA SuppressStep ==
    ASSUME FeedInv, batch # <<>>, Feed!SuppressDelivery,
           UNCHANGED <<rows, parent, content, removed, attempts, message, shown, bound,
                       unwoken, faults>>
    PROVE  FeedInv'
  <1>1. PICK c : c = batch[1].comment
    OBVIOUS
  <1>2. /\ Feed!NextClaim /\ c \in Comments
        /\ state' = [state EXCEPT ![c] = "suppressed"] /\ "suppressed" \in Feed!Ended
    BY <1>1, TailFacts DEF Feed!SuppressDelivery, Feed!NextClaim, Feed!Ended
  <1>3. /\ attempts' \in [Comments -> 0..MaxAttempts] /\ message' \in [Comments -> Nat]
        /\ faults' \in 0..MaxFaults /\ bound' \in BOOLEAN /\ faults' >= faults
    BY FeedFacts DEF FeedInv, Feed!TypeOK
  <1> QED
    BY <1>1, <1>2, <1>3, ClaimEnds

(* The row of an answer: what record_discord_attempt makes of it.          *)
LEMMA RecordStep ==
    ASSUME FeedInv, batch # <<>>, NEW ok \in BOOLEAN, Feed!RecordAttempt(ok),
           Feed!NextClaim, UNCHANGED <<rows, parent, content, removed, shown, bound, unwoken>>,
           faults' \in 0..MaxFaults, faults' >= faults,
           ok => phase = "acted", ~ok /\ phase = "acted" => faults' = faults + 1
    PROVE  FeedInv'
  <1>1. PICK c : c = batch[1].comment
    OBVIOUS
  <1>2. /\ Feed!Current = batch[1] /\ c \in Comments /\ InBatch(c) /\ 1 \in 1..Len(batch)
        /\ state[c] \in {"dispatching", "ready", "suppressed"}
        /\ batch[1].message = message[c]
    BY <1>1, TailFacts DEF Feed!NextClaim, FeedInv, ClaimsHold
  <1>3. /\ state \in [Comments -> Feed!States] /\ attempts \in [Comments -> 0..MaxAttempts]
        /\ message \in [Comments -> Nat] /\ bound' \in BOOLEAN
        /\ Len(shown[c]) \in Nat /\ faults \in Nat /\ faults' \in Nat
    <2>1. Len(shown[c]) \in Nat /\ faults \in Nat
      BY <1>2, ClaimFacts DEF FeedInv
    <2>2. faults' \in Nat
      BY FeedFacts
    <2> QED
      BY <2>1, <2>2 DEF FeedInv, Feed!TypeOK
  <1>4. /\ message[c] <= Len(shown[c])
        /\ message[c] = 0 => Len(shown[c]) <= faults \/ phase = "acted"
        /\ Len(shown[c]) <= 1 + faults
        /\ c \in removed /\ message[c] = 0 => state[c] = "suppressed"
    BY <1>2 DEF FeedInv, MessagesCounted, Acted, Feed!OneMessage,
                Feed!DeletedUnseenStaysSuppressed
  <1>5. CASE state[c] = "suppressed"
    <2>1. UNCHANGED <<state, attempts, message>>
      BY <1>1, <1>2, <1>5 DEF Feed!RecordAttempt, Feed!Ignored, Feed!Ended, Feed!deliveryVars
    <2>2. state' = [state EXCEPT ![c] = "suppressed"] /\ "suppressed" \in Feed!Ended
      BY <1>2, <1>3, <1>5, <2>1 DEF Feed!Ended
    <2> QED
      BY <1>1, <1>3, <2>1, <2>2, ClaimEnds
  <1>6. CASE state[c] # "suppressed"
    <2> DEFINE n == attempts[c] + 1
               s == IF ok THEN "delivered" ELSE IF n >= MaxAttempts THEN "failed" ELSE "ready"
    <2>1. ~Feed!Ignored(state[c])
      BY <1>2, <1>6 DEF Feed!Ignored, Feed!Ended
    <2>2. /\ attempts' = [attempts EXCEPT ![c] = n] /\ state' = [state EXCEPT ![c] = s]
          /\ message' = IF ok /\ message[c] = 0 THEN [message EXCEPT ![c] = Len(shown[c])]
                        ELSE message
      BY <1>1, <1>2, <2>1 DEF Feed!RecordAttempt, Feed!GivesUp
    <2>3. n \in 1..MaxAttempts /\ attempts' \in [Comments -> 0..MaxAttempts]
      BY <1>2, <1>3, <1>6, <2>2, FeedFacts, SMTT(30) DEF FeedInv, AttemptsLeft, Feed!Ended
    <2>4. s \in Feed!Ended \cup {"ready"} /\ (s \in Feed!Ended \/ attempts'[c] < MaxAttempts)
      BY <1>2, <1>3, <2>2, <2>3, FeedFacts DEF Feed!Ended
    <2>5. /\ message' \in [Comments -> Nat]
          /\ \A e \in Comments \ {c} : message'[e] = message[e]
          /\ message'[c] \in {message[c], Len(shown[c])}
          /\ message'[c] = 0 => message[c] = 0
      BY <1>2, <1>3, <2>2
    <2>6. s = "delivered" => message'[c] # 0
      <3>1. ok => Len(shown[c]) > 0
        BY <1>1 DEF FeedInv, ClaimsHold
      <3> QED
        BY <1>2, <1>3, <2>2, <3>1
    <2>7. message'[c] # 0 \/ Len(shown[c]) <= faults'
      BY <1>2, <1>3, <1>4, <2>2
    <2>8. \A e \in Comments \ {c} : attempts'[e] = attempts[e]
      BY <1>3, <2>2
    <2>9. c \in removed /\ message'[c] = 0 => s = "suppressed"
      BY <1>4, <1>6, <2>5
    <2> HIDE DEF s, n
    <2> QED
      BY <1>1, <1>3, <2>2, <2>3, <2>4, <2>5, <2>6, <2>7, <2>8, <2>9, ClaimEnds
  <1> QED
    BY <1>5, <1>6

(* A call raised or answered: the worker goes on with the claim or ends it. *)
LEMMA PhaseStep ==
    ASSUME FeedInv, NEW q \in {"opening", "calling"}, phase \in {"idle", "opening"}, phase' = q,
           batch # <<>>,
           UNCHANGED <<rows, parent, content, removed, state, attempts, message, shown, bound,
                       batch, unwoken, faults>>
    PROVE  FeedInv'
  <1>1. Feed!TypeOK'
    BY DEF FeedInv, Feed!TypeOK, Feed!Phases
  <1>2. \A e : ~Acted(e) /\ (InBatch(e)' <=> InBatch(e))
    BY DEF Acted, InBatch
  <1>3. AdmittedOnce' /\ ClaimsHold' /\ AttemptsLeft' /\ ParentsKnown' /\ TextsGrow'
    BY <1>2
    DEF FeedInv, AdmittedOnce, ClaimsHold, AttemptsLeft, ParentsKnown, Feed!Known, TextsGrow
  <1>4. MessagesCounted'
    BY <1>2 DEF FeedInv, MessagesCounted
  <1>5. /\ Feed!OneMessage' /\ Feed!DeletedUnseenStaysSuppressed' /\ Feed!WaitsForParent'
    BY DEF FeedInv, Feed!OneMessage, Feed!DeletedUnseenStaysSuppressed,
           Feed!WaitsForParent, Feed!Known
  <1> QED
    BY <1>1, <1>3, <1>4, <1>5 DEF FeedInv

LEMMA StartStep == FeedInv /\ (Feed!StartDelivery \/ Feed!OpenThread) => FeedInv'
  <1> SUFFICES ASSUME FeedInv, Feed!StartDelivery \/ Feed!OpenThread PROVE FeedInv'
    OBVIOUS
  <1>1. batch # <<>> /\ phase \in {"idle", "opening"}
    BY DEF Feed!StartDelivery, Feed!OpenThread, FeedInv, ClaimsHold
  <1>2. UNCHANGED <<rows, parent, content, removed, attempts, message, shown, bound, unwoken,
                    faults>>
    BY DEF Feed!StartDelivery, Feed!OpenThread, Feed!objectVars
  <1>3. \/ Feed!SuppressDelivery
        \/ phase' \in {"opening", "calling"} /\ UNCHANGED <<state, batch>>
    BY DEF Feed!StartDelivery, Feed!OpenThread
  <1> QED
    BY <1>1, <1>2, <1>3, SuppressStep, PhaseStep

LEMMA SucceedStep == FeedInv /\ Feed!Succeed => FeedInv'
  <1> SUFFICES ASSUME FeedInv, Feed!Succeed PROVE FeedInv'
    OBVIOUS
  <1>1. /\ batch # <<>> /\ Feed!RecordAttempt(TRUE) /\ Feed!NextClaim /\ phase = "acted"
        /\ UNCHANGED <<rows, parent, content, removed, shown, bound, unwoken, faults>>
    BY DEF Feed!Succeed, Feed!objectVars, FeedInv, ClaimsHold
  <1>2. faults' \in 0..MaxFaults /\ faults' >= faults
    BY <1>1, FeedFacts DEF FeedInv, Feed!TypeOK
  <1> QED
    BY <1>1, <1>2, RecordStep

LEMMA FailStep == FeedInv /\ Feed!Fail => FeedInv'
  <1> SUFFICES ASSUME FeedInv, Feed!Fail PROVE FeedInv'
    OBVIOUS
  <1>1. /\ batch # <<>> /\ Feed!RecordAttempt(FALSE) /\ Feed!NextClaim
        /\ UNCHANGED <<rows, parent, content, removed, shown, bound, unwoken>>
    BY DEF Feed!Fail, Feed!objectVars, FeedInv, ClaimsHold
  <1>2. IF phase = "acted" THEN faults < MaxFaults /\ faults' = faults + 1 ELSE faults' = faults
    BY DEF Feed!Fail
  <1>3. faults' \in 0..MaxFaults /\ faults' >= faults
    BY <1>2, FeedFacts DEF FeedInv, Feed!TypeOK
  <1> QED
    BY <1>1, <1>2, <1>3, RecordStep
-----------------------------------------------------------------------------
(* What a call does to the messages of its comment.                        *)
LEMMA EffectFacts ==
    ASSUME FeedInv, phase = "calling", NEW b, b = batch[1], NEW c, c = b.comment,
           NEW x, x = Feed!Effect(b)
    PROVE  /\ x \in [Comments -> Seq(Feed!Revisions \cup {Gone})] /\ c \in Comments
           /\ \A e \in Comments \ {c} : x[e] = shown[e]
           /\ Len(shown[c]) \in Nat /\ Len(x[c]) \in Nat \ {0}
           /\ Len(x[c]) = IF message[c] = 0 THEN Len(shown[c]) + 1 ELSE Len(shown[c])
           /\ message[c] = 0 => Len(shown[c]) <= faults
           /\ \A i \in 1..Len(x[c]) : x[c][i] = Gone \/ x[c][i] <= content[c]
           /\ \A i \in 1..Len(shown[c]) :
                 \/ x[c][i] = shown[c][i]
                 \/ i = b.message /\ (x[c][i] = Gone \/ x[c][i] = b.body)
  <1>1. /\ 1 \in 1..Len(batch) /\ c \in Comments /\ InBatch(c) /\ ~Acted(c)
        /\ b.message = message[c] /\ b.body \in Feed!Revisions /\ b.body \in Nat
        /\ b.body <= content[c]
        /\ \A i \in 1..Len(shown[c]) : shown[c][i] = Gone \/ shown[c][i] <= b.body
    <2>1. 1 \in 1..Len(batch)
      BY ClaimFacts DEF FeedInv, ClaimsHold
    <2> QED
      BY <2>1, ClaimFacts DEF FeedInv, ClaimsHold, TextsGrow, InBatch, Acted
  <1>2. /\ shown \in [Comments -> Seq(Feed!Revisions \cup {Gone})]
        /\ shown[c] \in Seq(Feed!Revisions \cup {Gone})
        /\ Len(shown[c]) \in Nat /\ message[c] \in Nat /\ message[c] <= Len(shown[c])
        /\ content[c] \in Nat
        /\ \A i \in 1..Len(shown[c]) : shown[c][i] = Gone \/ shown[c][i] <= content[c]
    BY <1>1, ClaimFacts DEF FeedInv, Feed!TypeOK, MessagesCounted, TextsGrow
  <1>3. CASE message[c] = 0
    <2>1. x = [shown EXCEPT ![c] = Append(shown[c], b.body)]
      BY <1>1, <1>3 DEF Feed!Effect
    <2>2. /\ Append(shown[c], b.body) \in Seq(Feed!Revisions \cup {Gone})
          /\ Len(Append(shown[c], b.body)) = Len(shown[c]) + 1
          /\ \A i \in 1..Len(shown[c]) : Append(shown[c], b.body)[i] = shown[c][i]
          /\ Append(shown[c], b.body)[Len(shown[c]) + 1] = b.body
      BY <1>1, <1>2
    <2>3. /\ x \in [Comments -> Seq(Feed!Revisions \cup {Gone})]
          /\ x[c] = Append(shown[c], b.body)
          /\ \A e \in Comments \ {c} : x[e] = shown[e]
      BY <1>1, <1>2, <2>1, <2>2
    <2>4. message[c] = 0 => Len(shown[c]) <= faults
      BY <1>1 DEF FeedInv, MessagesCounted
    <2>5. \A i \in 1..Len(x[c]) : x[c][i] = Gone \/ x[c][i] <= content[c]
      BY <1>1, <1>2, <2>2, <2>3
    <2>6. \A i \in 1..Len(shown[c]) : x[c][i] = shown[c][i]
      BY <2>2, <2>3
    <2>7. Len(x[c]) = Len(shown[c]) + 1 /\ Len(shown[c]) + 1 \in Nat \ {0}
      BY <1>2, <2>2, <2>3
    <2> QED
      BY <1>1, <1>2, <1>3, <2>3, <2>4, <2>5, <2>6, <2>7
  <1>4. CASE message[c] # 0
    <2>1. PICK t : t = IF b.deleted THEN Gone ELSE b.body
      OBVIOUS
    <2>2. x = [shown EXCEPT ![c] = [shown[c] EXCEPT ![message[c]] = t]]
      BY <1>1, <1>4, <2>1 DEF Feed!Effect
    <2>3. PICK y : y = [shown[c] EXCEPT ![message[c]] = t]
      OBVIOUS
    <2>4. /\ y \in Seq(Feed!Revisions \cup {Gone}) /\ Len(y) = Len(shown[c])
          /\ y[message[c]] = t
          /\ \A i \in 1..Len(shown[c]) : i # message[c] => y[i] = shown[c][i]
      BY <1>1, <1>2, <1>4, <2>1, <2>3
    <2>5. /\ x \in [Comments -> Seq(Feed!Revisions \cup {Gone})] /\ x[c] = y
          /\ \A e \in Comments \ {c} : x[e] = shown[e]
      BY <1>1, <1>2, <2>2, <2>3, <2>4, ZenonT(30)
    <2>6. \A i \in 1..Len(x[c]) : x[c][i] = Gone \/ x[c][i] <= content[c]
      <3>1. t = Gone \/ t <= content[c]
        BY <1>1, <2>1
      <3>2. \A i \in 1..Len(shown[c]) : y[i] = Gone \/ y[i] <= content[c]
        BY <1>2, <2>4, <3>1
      <3> QED
        BY <2>4, <2>5, <3>2
    <2> QED
      BY <1>1, <1>2, <1>4, <2>1, <2>4, <2>5, <2>6
  <1> QED
    BY <1>3, <1>4

LEMMA ActStep == FeedInv /\ Feed!DiscordActs => FeedInv'
  <1> SUFFICES ASSUME FeedInv, Feed!DiscordActs PROVE FeedInv'
    OBVIOUS
  <1>1. PICK b, c : b = batch[1] /\ c = b.comment
    OBVIOUS
  <1>2. /\ phase = "calling" /\ phase' = "acted" /\ batch # <<>>
        /\ shown' = Feed!Effect(Feed!Current)
        /\ UNCHANGED <<rows, parent, content, removed, state, attempts, message, bound, batch,
                       unwoken, faults>>
    BY DEF Feed!DiscordActs, Feed!objectVars, Feed!deliveryVars, FeedInv, ClaimsHold
  <1>3. Feed!Current = b /\ 1 \in 1..Len(batch)
    BY <1>1, <1>2, ClaimFacts DEF Feed!Current, FeedInv
  <1>4. /\ shown' \in [Comments -> Seq(Feed!Revisions \cup {Gone})] /\ c \in Comments
        /\ \A e \in Comments \ {c} : shown'[e] = shown[e]
        /\ Len(shown[c]) \in Nat /\ Len(shown'[c]) \in Nat \ {0}
        /\ Len(shown'[c]) = IF message[c] = 0 THEN Len(shown[c]) + 1 ELSE Len(shown[c])
        /\ message[c] = 0 => Len(shown[c]) <= faults
        /\ \A i \in 1..Len(shown'[c]) : shown'[c][i] = Gone \/ shown'[c][i] <= content[c]
    BY <1>1, <1>2, <1>3, EffectFacts
  <1>5. /\ InBatch(c) /\ state[c] \in {"dispatching", "ready", "suppressed"}
        /\ \A k \in 1..Len(batch) : k # 1 => batch[k].comment \in Comments \ {c}
        /\ faults \in Nat
    BY <1>1, <1>3, ClaimFacts DEF FeedInv, ClaimsHold, InBatch
  <1>6. \A e : (InBatch(e)' <=> InBatch(e)) /\ ~Acted(e)
    BY <1>2 DEF InBatch, Acted
  <1>7. Feed!TypeOK'
    BY <1>2, <1>4 DEF FeedInv, Feed!TypeOK, Feed!Phases
  <1>8. AdmittedOnce' /\ ParentsKnown' /\ AttemptsLeft'
    <2>1. Feed!Known(c)
      BY <1>4, <1>5 DEF FeedInv, AdmittedOnce
    <2>2. \A e : Feed!Known(e)' <=> Feed!Known(e)
      BY <1>2 DEF Feed!Known
    <2>3. AdmittedOnce'
      BY <1>2, <1>4, <2>1, <2>2 DEF FeedInv, AdmittedOnce
    <2> QED
      BY <1>2, <1>6, <2>3 DEF FeedInv, ParentsKnown, AttemptsLeft, Feed!Known
  <1>9. ClaimsHold'
    BY <1>1, <1>2, <1>4 DEF FeedInv, ClaimsHold
  <1>10. MessagesCounted'
    <2>1. Acted(c)'
      BY <1>1, <1>2 DEF Acted
    <2>2. \A e \in Comments : message[e] <= Len(shown'[e])
      BY <1>4, ClaimFacts DEF FeedInv, MessagesCounted
    <2> QED
      BY <1>2, <1>4, <1>6, <2>1, <2>2 DEF FeedInv, MessagesCounted
  <1>11. Feed!OneMessage' /\ Feed!DeletedUnseenStaysSuppressed'
    <2>1. \A e \in Comments : Len(shown'[e]) <= 1 + faults
      BY <1>4, <1>5 DEF FeedInv, Feed!OneMessage
    <2> QED
      BY <1>2, <2>1 DEF FeedInv, Feed!OneMessage, Feed!DeletedUnseenStaysSuppressed
  <1>12. Feed!WaitsForParent'
    <2>1. Feed!Known(parent[c])
      BY <1>4, <1>5 DEF FeedInv, ParentsKnown
    <2> QED
      BY <1>2, <1>4, <2>1 DEF FeedInv, Feed!WaitsForParent, Feed!Known
  <1>13. TextsGrow'
    <2>1. \A e \in Comments : \A i \in 1..Len(shown'[e]) :
             shown'[e][i] = Gone \/ shown'[e][i] <= content[e]
      BY <1>4 DEF FeedInv, TextsGrow
    <2> QED
      BY <1>2, <1>4, <1>5, <2>1 DEF FeedInv, TextsGrow
  <1> QED
    BY <1>7, <1>8, <1>9, <1>10, <1>11, <1>12, <1>13 DEF FeedInv
-----------------------------------------------------------------------------
(* A claim of what is due: rows no other claim holds.                      *)
LEMMA ClaimDueStep ==
    ASSUME FeedInv, NEW due \in SUBSET Feed!Ready, Feed!ClaimDue(due) PROVE FeedInv'
  <1>1. /\ batch = <<>> /\ phase = "idle"
        /\ UNCHANGED <<rows, parent, content, removed, attempts, message, shown, bound, phase,
                       unwoken, faults>>
    BY DEF Feed!ClaimDue, Feed!objectVars, FeedInv, ClaimsHold
  <1>2. PICK n \in 1..ClaimLimit : \E taken \in [1..n -> due] :
           /\ Feed!FirstOf(due, taken)
           /\ batch' = [i \in 1..n |-> Feed!Claim(taken[i])]
           /\ state' = [c \in Comments |-> IF Feed!Contains(taken, c) THEN "dispatching"
                                           ELSE state[c]]
    BY DEF Feed!ClaimDue
  <1>3. PICK taken \in [1..n -> due] :
           /\ Feed!FirstOf(due, taken)
           /\ batch' = [i \in 1..n |-> Feed!Claim(taken[i])]
           /\ state' = [c \in Comments |-> IF Feed!Contains(taken, c) THEN "dispatching"
                                           ELSE state[c]]
    BY <1>2
  <1>4. n \in Nat /\ due \subseteq Comments /\ \A c \in due : state[c] = "ready"
    BY FeedFacts DEF Feed!Ready
  <1>5. taken \in Seq(Comments) /\ Len(taken) = n
    BY <1>3, <1>4
  <1>6. \A i \in 1..n : /\ taken[i] \in Comments /\ state[taken[i]] = "ready"
                        /\ Feed!Contains(taken, taken[i])
    BY <1>3, <1>4, <1>5 DEF Feed!Contains
  <1>7. \A i, j \in 1..n : taken[i] = taken[j] => i = j
    <2>1. \A i, j \in 1..n : i < j => Feed!Position(taken[i]) < Feed!Position(taken[j])
      BY <1>3, <1>5 DEF Feed!FirstOf
    <2>2. \A c \in due : Feed!Position(c) \in Nat
      <3>1. ASSUME NEW c \in due PROVE Feed!Position(c) \in DOMAIN rows
        <4>1. Feed!Known(c) /\ c # Root
          BY <1>4, FeedFacts DEF FeedInv, AdmittedOnce
        <4>2. \E i \in DOMAIN rows : rows[i] = c
          BY <4>1 DEF Feed!Known, FeedInv, Feed!TypeOK
        <4> QED
          BY <4>2 DEF Feed!Position
      <3>2. DOMAIN rows = 1..Len(rows)
        BY DEF FeedInv, Feed!TypeOK
      <3> QED
        BY <3>1, <3>2
    <2>3. \A i, j \in 1..n : ~(i < j /\ taken[i] = taken[j])
      BY <1>3, <2>1, <2>2
    <2> QED
      BY <1>4, <2>3
  <1>8. \A c \in Comments : \/ state'[c] = state[c] /\ ~Feed!Contains(taken, c)
                            \/ state'[c] = "dispatching" /\ state[c] = "ready"
    <2>1. \A c : Feed!Contains(taken, c) => c \in due
      BY <1>3, <1>5 DEF Feed!Contains
    <2> QED
      BY <1>3, <1>4, <2>1
  <1>9. /\ batch' \in Seq(Claims) /\ Len(batch') = n
        /\ \A k \in 1..n : /\ batch'[k].comment = taken[k]
                           /\ batch'[k].message = message[taken[k]]
                           /\ batch'[k].body = content[taken[k]]
    <2>1. \A c \in Comments : /\ Feed!Claim(c) \in Claims
                              /\ Feed!Claim(c).comment = c
                              /\ Feed!Claim(c).message = message[c]
                              /\ Feed!Claim(c).body = content[c]
      BY DEF Feed!Claim, Claims, FeedInv, Feed!TypeOK
    <2>2. \A k \in 1..n : Feed!Claim(taken[k]) \in Claims
      BY <1>6, <2>1
    <2>3. batch' \in Seq(Claims) /\ Len(batch') = n
      BY <1>3, <1>4, <2>2
    <2>4. \A k \in 1..n : batch'[k] = Feed!Claim(taken[k])
      BY <1>3
    <2> QED
      BY <1>6, <2>1, <2>3, <2>4
  <1>10. Feed!TypeOK'
    <2>1. state' \in [Comments -> Feed!States]
      BY <1>3 DEF FeedInv, Feed!TypeOK, Feed!States
    <2> QED
      BY <1>1, <1>9, <2>1 DEF FeedInv, Feed!TypeOK, Claims
  <1>11. AdmittedOnce' /\ AttemptsLeft'
    <2>1. \A e : Feed!Known(e)' <=> Feed!Known(e)
      BY <1>1 DEF Feed!Known
    <2>2. AdmittedOnce'
      BY <1>1, <1>8, <2>1 DEF FeedInv, AdmittedOnce
    <2> QED
      BY <1>1, <1>8, <2>2 DEF FeedInv, AttemptsLeft, Feed!Ended
  <1>12. ClaimsHold'
    <2>1. \A k \in 1..n : state'[taken[k]] = "dispatching"
      BY <1>6, <1>8
    <2>2. batch' # <<>>
      BY <1>4, <1>9
    <2> QED
      BY <1>1, <1>7, <1>9, <2>1, <2>2 DEF ClaimsHold
  <1>13. MessagesCounted' /\ Feed!OneMessage' /\ Feed!DeletedUnseenStaysSuppressed'
    <2>1. \A c \in Comments : state[c] = "suppressed" => state'[c] = "suppressed" /\ ~InBatch(c)'
      BY <1>6, <1>8, <1>9 DEF InBatch
    <2>2. \A c \in Comments : ~Acted(c) /\ (state'[c] = "delivered" => state[c] = "delivered")
      BY <1>1, <1>8 DEF Acted
    <2> QED
      BY <1>1, <2>1, <2>2
      DEF FeedInv, Feed!TypeOK, MessagesCounted, Feed!OneMessage,
          Feed!DeletedUnseenStaysSuppressed
  <1>14. ParentsKnown' /\ Feed!WaitsForParent'
    <2>1. \A c \in Comments : InBatch(c)' => state[c] = "ready"
      BY <1>6, <1>9 DEF InBatch
    <2> QED
      BY <1>1, <1>8, <2>1 DEF FeedInv, ParentsKnown, Feed!WaitsForParent, Feed!Known
  <1>15. TextsGrow'
    <2>1. \A k \in 1..n : content[taken[k]] \in Nat
      BY <1>6, ClaimFacts DEF FeedInv
    <2> QED
      BY <1>1, <1>6, <1>9, <2>1 DEF FeedInv, TextsGrow
  <1> QED
    BY <1>10, <1>11, <1>12, <1>13, <1>14, <1>15 DEF FeedInv
-----------------------------------------------------------------------------
(* Stops and crashes: the claims are gone, what was dispatching is ready.  *)
LEMMA RecoverFacts ==
    ASSUME NEW t \in [Comments -> Feed!States]
    PROVE  /\ Feed!Recovered(t) \in [Comments -> Feed!States]
           /\ \A c \in Comments : \/ Feed!Recovered(t)[c] = t[c]
                                  \/ t[c] = "dispatching" /\ Feed!Recovered(t)[c] = "ready"
  BY DEF Feed!Recovered, Feed!States

LEMMA FeedCrashStep ==
    ASSUME FeedInv, NEW acts \in BOOLEAN, Feed!Crash(acts) PROVE FeedInv'
  <1>1. PICK b, c : b = batch[1] /\ c = b.comment
    OBVIOUS
  <1>2. /\ batch' = <<>> /\ phase' = "idle" /\ batch # <<>> /\ Feed!Current = b
        /\ faults < MaxFaults /\ faults' = faults + 1 /\ faults \in Nat
        /\ state' = Feed!Recovered(state) /\ (acts => phase = "calling")
        /\ shown' = IF acts THEN Feed!Effect(b) ELSE shown
        /\ UNCHANGED <<rows, parent, content, removed, attempts, message, bound, unwoken>>
        /\ c \in Comments /\ InBatch(c)
    <2>1. batch # <<>> /\ 1 \in 1..Len(batch)
      BY ClaimFacts DEF Feed!Crash, FeedInv
    <2>2. Feed!Current = b /\ c \in Comments /\ InBatch(c)
      BY <1>1, <2>1, ClaimFacts DEF Feed!Current, FeedInv, InBatch
    <2> QED
      BY <1>1, <2>1, <2>2, ClaimFacts
      DEF Feed!Crash, Feed!Restart, Feed!objectVars, FeedInv
  <1>3. /\ state' \in [Comments -> Feed!States]
        /\ \A e \in Comments : \/ state'[e] = state[e]
                               \/ state[e] = "dispatching" /\ state'[e] = "ready"
    BY <1>2, RecoverFacts DEF FeedInv, Feed!TypeOK
  <1>4. /\ shown' \in [Comments -> Seq(Feed!Revisions \cup {Gone})]
        /\ \A e \in Comments \ {c} : shown'[e] = shown[e]
        /\ Len(shown[c]) \in Nat /\ Len(shown'[c]) \in Nat
        /\ message[c] # 0 => Len(shown'[c]) = Len(shown[c])
        /\ message[c] = 0 => Len(shown[c]) <= Len(shown'[c]) /\ Len(shown'[c]) <= 1 + faults
        /\ \A i \in 1..Len(shown'[c]) : shown'[c][i] = Gone \/ shown'[c][i] <= content[c]
    <2>1. CASE acts
      BY <1>1, <1>2, <2>1, EffectFacts
    <2>2. CASE ~acts
      <3>1. shown' = shown /\ shown \in [Comments -> Seq(Feed!Revisions \cup {Gone})]
        BY <1>2, <2>2 DEF FeedInv, Feed!TypeOK
      <3>2. Len(shown[c]) \in Nat /\ Len(shown[c]) <= 1 + faults
        BY <1>2, ClaimFacts DEF FeedInv, Feed!OneMessage
      <3>3. \A i \in 1..Len(shown[c]) : shown[c][i] = Gone \/ shown[c][i] <= content[c]
        BY <1>2 DEF FeedInv, TextsGrow
      <3> QED
        BY <1>2, <3>1, <3>2, <3>3
    <2> QED
      BY <2>1, <2>2
  <1>5. Len(batch') = 0 /\ \A e : ~InBatch(e)' /\ ~Acted(e)'
    BY <1>2 DEF InBatch, Acted
  <1>6. /\ state[c] \in {"dispatching", "ready", "suppressed"}
        /\ Feed!Known(c) /\ Feed!Known(parent[c])
    <2>1. state[c] \in {"dispatching", "ready", "suppressed"}
      BY <1>2 DEF FeedInv, ClaimsHold, InBatch
    <2> QED
      BY <1>2, <2>1 DEF FeedInv, AdmittedOnce, ParentsKnown
  <1>7. Feed!TypeOK'
    <2>1. batch' \in Seq(Claims) /\ phase' \in Feed!Phases /\ faults' \in 0..MaxFaults
      BY <1>2, FeedFacts DEF Feed!Phases
    <2> QED
      BY <1>2, <1>3, <1>4, <2>1 DEF FeedInv, Feed!TypeOK, Claims
  <1>8. AdmittedOnce'
    <2>1. \A e : Feed!Known(e)' <=> Feed!Known(e)
      BY <1>2 DEF Feed!Known
    <2> QED
      BY <1>2, <1>3, <1>4, <1>6, <2>1 DEF FeedInv, AdmittedOnce
  <1>9. ClaimsHold' /\ AttemptsLeft'
    BY <1>2, <1>3, <1>5 DEF FeedInv, ClaimsHold, AttemptsLeft, Feed!Ended
  <1>10. MessagesCounted' /\ Feed!OneMessage' /\ Feed!DeletedUnseenStaysSuppressed'
    <2>1. \A e \in Comments : Len(shown'[e]) <= faults' /\ message[e] <= Len(shown'[e])
      <3>1. \A e \in Comments : Len(shown[e]) <= 1 + faults /\ message[e] <= Len(shown[e])
        BY DEF FeedInv, Feed!OneMessage, MessagesCounted
      <3>2. faults' = 1 + faults /\ message[c] \in Nat
        BY <1>2, ClaimFacts DEF FeedInv
      <3>3. \A e \in Comments \ {c} : Len(shown'[e]) <= faults' /\ message[e] <= Len(shown'[e])
        BY <1>4, <3>1, <3>2
      <3>4. Len(shown'[c]) <= faults' /\ message[c] <= Len(shown'[c])
        BY <1>2, <1>4, <3>1, <3>2
      <3> QED
        BY <3>3, <3>4
    <2>2. Feed!OneMessage'
      BY <1>2, <2>1, <1>7, ClaimFacts DEF Feed!OneMessage, Feed!TypeOK
    <2>3. Feed!DeletedUnseenStaysSuppressed'
      BY <1>2, <1>3 DEF FeedInv, Feed!TypeOK, Feed!DeletedUnseenStaysSuppressed
    <2>4. MessagesCounted'
      BY <1>2, <1>3, <2>1 DEF FeedInv, MessagesCounted
    <2> QED
      BY <2>2, <2>3, <2>4
  <1>11. ParentsKnown' /\ Feed!WaitsForParent'
    BY <1>2, <1>3, <1>4, <1>5, <1>6, ZenonT(30)
    DEF FeedInv, ParentsKnown, Feed!WaitsForParent, Feed!Known
  <1>12. TextsGrow'
    <2>1. \A e \in Comments : \A i \in 1..Len(shown'[e]) :
             shown'[e][i] = Gone \/ shown'[e][i] <= content[e]
      BY <1>4 DEF FeedInv, TextsGrow
    <2> QED
      BY <1>2, <1>5, <2>1 DEF TextsGrow
  <1> QED
    BY <1>7, <1>8, <1>9, <1>10, <1>11, <1>12 DEF FeedInv

LEMMA CrashInCreateStep ==
    ASSUME FeedInv, NEW c \in Comments, NEW p \in (Comments \ {c}) \cup {Root},
           Feed!CrashInCreate(c, p)
    PROVE  FeedInv'
  <1>1. /\ Feed!AdmitCreate(c, p) /\ unwoken' = unwoken \cup {c}
        /\ batch' = <<>> /\ phase' = "idle"
        /\ faults < MaxFaults /\ faults' = faults + 1 /\ faults \in Nat
        /\ UNCHANGED <<content, removed, attempts, message, shown, bound>>
    BY ClaimFacts DEF Feed!CrashInCreate, Feed!Restart, FeedInv
  <1>2. /\ rows' \in Seq(Comments) /\ parent' \in [Comments -> Comments \cup {Root}]
        /\ \A i, j \in 1..Len(rows') : rows'[i] = rows'[j] => i = j
        /\ \A e : Feed!Known(e)' <=> Feed!Known(e) \/ e = c
        /\ \A e \in Comments : Feed!Known(e) => parent'[e] = parent[e]
        /\ \A e \in Comments \ {c} : parent'[e] = parent[e]
        /\ ~Feed!Known(c) => parent'[c] = p
    BY <1>1, AdmitFacts
  <1>3. /\ state' \in [Comments -> Feed!States]
        /\ \A e \in Comments :
              Feed!Known(e) \/ e # c => \/ state'[e] = state[e]
                                        \/ state[e] = "dispatching" /\ state'[e] = "ready"
        /\ ~Feed!Known(c) => state'[c] = IF Feed!Known(p) THEN "ready" ELSE "pending_parent"
    <2>1. PICK t : t = IF Feed!Known(c) THEN state ELSE Feed!Admitted(c, p)
      OBVIOUS
    <2>2. /\ t \in [Comments -> Feed!States]
          /\ \A e \in Comments : Feed!Known(e) \/ e # c => t[e] = state[e]
          /\ ~Feed!Known(c) => t[c] = IF Feed!Known(p) THEN "ready" ELSE "pending_parent"
      BY <2>1 DEF Feed!Admitted, FeedInv, Feed!TypeOK, Feed!States
    <2>3. state' = Feed!Recovered(t)
      BY <2>1 DEF Feed!CrashInCreate
    <2>4. /\ state' \in [Comments -> Feed!States]
          /\ \A e \in Comments : \/ state'[e] = t[e]
                                 \/ t[e] = "dispatching" /\ state'[e] = "ready"
      BY <2>2, <2>3, RecoverFacts
    <2> QED
      BY <2>2, <2>4
  <1>4. Len(batch') = 0 /\ \A e : ~InBatch(e)' /\ ~Acted(e)'
    BY <1>1 DEF InBatch, Acted
  <1>5. Feed!TypeOK'
    <2>1. batch' \in Seq(Claims) /\ phase' \in Feed!Phases /\ faults' \in 0..MaxFaults
      BY <1>1, FeedFacts DEF Feed!Phases
    <2> QED
      BY <1>1, <1>2, <1>3, <2>1 DEF FeedInv, Feed!TypeOK, Claims
  <1>6. AdmittedOnce'
    <2>1. ASSUME NEW e \in Comments
          PROVE  IF Feed!Known(e)' THEN state'[e] # "none"
                 ELSE /\ parent'[e] = Root /\ state'[e] = "none" /\ message'[e] = 0
                      /\ shown'[e] = <<>> /\ e \notin removed'
      BY <1>1, <1>2, <1>3 DEF FeedInv, AdmittedOnce
    <2> QED
      BY <1>2, <2>1 DEF AdmittedOnce
  <1>7. ClaimsHold' /\ AttemptsLeft'
    <2>1. ClaimsHold'
      BY <1>1, <1>4 DEF ClaimsHold
    <2> QED
      BY <1>1, <1>3, <2>1 DEF FeedInv, AttemptsLeft, AdmittedOnce, Feed!Ended
  <1>8. MessagesCounted' /\ Feed!OneMessage' /\ Feed!DeletedUnseenStaysSuppressed'
    <2>1. ASSUME NEW e \in Comments, state[e] = "suppressed" \/ state'[e] = "delivered"
          PROVE  state'[e] = state[e]
      BY <1>3, <2>1 DEF FeedInv, AdmittedOnce
    <2>2. \A e \in Comments : Len(shown'[e]) <= faults' /\ message'[e] <= Len(shown'[e])
      BY <1>1, ClaimFacts DEF FeedInv, Feed!OneMessage, MessagesCounted
    <2>3. \A e \in Comments : Len(shown'[e]) <= 1 + faults'
      BY <1>1, <2>2, ClaimFacts DEF FeedInv
    <2>4. \A e \in Comments : state'[e] = "delivered" => message'[e] # 0
      BY <1>1, <2>1 DEF FeedInv, MessagesCounted
    <2> QED
      BY <1>1, <2>1, <2>2, <2>3, <2>4
      DEF FeedInv, Feed!TypeOK, MessagesCounted, Feed!OneMessage,
          Feed!DeletedUnseenStaysSuppressed
  <1>9. ParentsKnown'
    <2>1. ASSUME NEW e \in Comments, NEW q, q = parent'[e],
                 state'[e] \in {"ready", "dispatching", "failed", "delivered"}
          PROVE  Feed!Known(q)'
      <3>1. CASE Feed!Known(e)
        BY <1>2, <1>3, <2>1, <3>1 DEF FeedInv, ParentsKnown
      <3>2. CASE ~Feed!Known(e)
        <4>1. e = c /\ q = p /\ Feed!Known(p)
          BY <1>2, <1>3, <2>1, <3>2 DEF FeedInv, AdmittedOnce
        <4> QED
          BY <1>2, <4>1
      <3> QED
        BY <3>1, <3>2
    <2> QED
      BY <1>4, <2>1 DEF ParentsKnown, Feed!Known
  <1>10. Feed!WaitsForParent'
    <2>1. ASSUME NEW e \in Comments, NEW q, q = parent'[e], shown[e] # <<>>
          PROVE  Feed!Known(q)'
      <3>1. Feed!Known(e) /\ Feed!Known(parent[e])
        BY <2>1 DEF FeedInv, Feed!WaitsForParent, AdmittedOnce
      <3> QED
        BY <1>2, <2>1, <3>1
    <2>2. ASSUME NEW e \in Comments, NEW q, q = parent'[e], state'[e] = "pending_parent"
          PROVE  ~Feed!Known(q)' \/ q \in unwoken'
      <3>1. CASE Feed!Known(e)
        <4>1. q = parent[e] /\ state[e] = "pending_parent"
          BY <1>2, <1>3, <2>2, <3>1
        <4> QED
          BY <1>1, <1>2, <3>1, <4>1 DEF FeedInv, Feed!WaitsForParent
      <3>2. CASE ~Feed!Known(e)
        <4>1. e = c /\ q = p /\ ~Feed!Known(p) /\ p # c
          BY <1>2, <1>3, <2>2, <3>2, FeedFacts DEF FeedInv, AdmittedOnce
        <4> QED
          BY <1>2, <4>1
      <3> QED
        BY <3>1, <3>2
    <2> QED
      BY <1>1, <2>1, <2>2 DEF Feed!WaitsForParent, Feed!Known
  <1>11. TextsGrow'
    BY <1>1, <1>4 DEF FeedInv, TextsGrow
  <1> QED
    BY <1>5, <1>6, <1>7, <1>8, <1>9, <1>10, <1>11 DEF FeedInv
-----------------------------------------------------------------------------
LEMMA FeedStep == FeedInv /\ [Feed!Next]_feedVars => FeedInv'
  <1> SUFFICES ASSUME FeedInv, [Feed!Next]_feedVars PROVE FeedInv'
    OBVIOUS
  <1>1. CASE UNCHANGED feedVars
    BY <1>1
    DEF feedVars, FeedInv, Feed!TypeOK, AdmittedOnce, ClaimsHold, AttemptsLeft,
        MessagesCounted, ParentsKnown, TextsGrow, Feed!OneMessage,
        Feed!DeletedUnseenStaysSuppressed, Feed!WaitsForParent, Feed!Known, Acted, InBatch
  <1>2. CASE Feed!Events
    BY <1>2, CreateStep, UpdateStep, DeleteStep, BindingStep DEF Feed!Events
  <1>3. CASE Feed!Worker
    BY <1>3, ClaimDueStep, StartStep, ActStep, SucceedStep, FailStep DEF Feed!Worker
  <1>4. CASE Feed!Dies
    <2>1. \A c \in Comments, p \in Comments \cup {Root} :
             c # p => p \in (Comments \ {c}) \cup {Root}
      OBVIOUS
    <2> QED
      BY <1>4, <2>1, FeedCrashStep, CrashInCreateStep DEF Feed!Dies
  <1> QED
    BY <1>1, <1>2, <1>3, <1>4 DEF Feed!Next

(* What Discord shows of a comment changes only by the call of its claim.  *)
LEMMA FeedGrows ==
    FeedInv /\ [Feed!Next]_feedVars =>
        \A c \in Comments : \A i \in 1..Len(shown[c]) :
           \/ shown'[c][i] = Gone
           \/ shown[c][i] # Gone /\ shown'[c][i] >= shown[c][i]
  <1> SUFFICES ASSUME FeedInv, [Feed!Next]_feedVars, NEW e \in Comments,
                      NEW i \in 1..Len(shown[e]), shown'[e][i] # Gone
               PROVE  shown[e][i] # Gone /\ shown'[e][i] >= shown[e][i]
    OBVIOUS
  <1>1. shown[e][i] \in Nat \cup {Gone}
    BY ClaimFacts, FeedFacts DEF FeedInv, Feed!Revisions
  <1>2. \/ shown' = shown
        \/ phase = "calling" /\ Feed!CanAct(Feed!Current) /\ shown' = Feed!Effect(Feed!Current)
    <2>1. CASE Feed!Events \/ UNCHANGED feedVars
      BY <2>1 DEF Feed!Events, Feed!HandleCreate, Feed!HandleUpdate, Feed!HandleDelete,
                  Feed!ChangeBinding, feedVars
    <2>2. CASE Feed!Worker
      BY <2>2 DEF Feed!Worker, Feed!ClaimDue, Feed!StartDelivery, Feed!OpenThread,
                  Feed!DiscordActs, Feed!Succeed, Feed!Fail
    <2>3. CASE Feed!Dies
      BY <2>3 DEF Feed!Dies, Feed!Crash, Feed!CrashInCreate
    <2> QED
      BY <2>1, <2>2, <2>3 DEF Feed!Next
  <1>3. CASE shown' = shown
    BY <1>1, <1>3
  <1>4. CASE phase = "calling" /\ Feed!CanAct(Feed!Current) /\ shown' = Feed!Effect(Feed!Current)
    <2>1. PICK b, c : b = batch[1] /\ c = b.comment
      OBVIOUS
    <2>2. 1 \in 1..Len(batch) /\ Feed!Current = b
      BY <1>4, <2>1, ClaimFacts DEF FeedInv, ClaimsHold, Feed!Current
    <2>3. /\ \A a \in Comments \ {c} : shown'[a] = shown[a]
          /\ \A k \in 1..Len(shown[c]) :
                \/ shown'[c][k] = shown[c][k]
                \/ k = b.message /\ (shown'[c][k] = Gone \/ shown'[c][k] = b.body)
      BY <1>4, <2>1, <2>2, EffectFacts
    <2>4. CASE shown'[e][i] = shown[e][i]
      BY <1>1, <2>4
    <2>5. CASE shown'[e][i] # shown[e][i]
      <3>1. e = c /\ i = b.message /\ shown'[e][i] = b.body
        BY <2>3, <2>5
      <3>2. shown[e][i] # Gone
        BY <1>4, <2>1, <2>2, <3>1 DEF Feed!CanAct
      <3>3. shown[e][i] <= b.body /\ b.body \in Nat
        BY <1>4, <2>1, <2>2, <3>1, <3>2, ClaimFacts DEF FeedInv, TextsGrow
      <3> QED
        BY <1>1, <3>1, <3>2, <3>3
    <2> QED
      BY <2>4, <2>5
  <1> QED
    BY <1>2, <1>3, <1>4
-----------------------------------------------------------------------------
(* Ids of the bridge's own are at its address, those from elsewhere at     *)
(* their server's.                                                         *)
OwnersFit ==
    \A i \in Identity!Items :
        /\ published[i] # NoId => home[i] = "here" /\ published[i].owner \notin Servers
        /\ row[i] # NoId => (row[i].owner \in Servers <=> home[i] \in Servers)

IdentityInv == Identity!TypeOK /\ OwnersFit

LEMMA IdentityFacts ==
    /\ "here" \notin Servers /\ "user" \notin Servers /\ "community" \notin Servers
    /\ "untyped" \notin Servers /\ MaxStarts \in Nat
  BY MessagesAssumption DEF Identity!TypedIdentityAssumption

LEMMA IdTypes ==
    ASSUME Identity!TypeOK
    PROVE  /\ \A o \in {"untyped", "user", "community"} \cup Servers :
                 \A i \in Identity!Items : /\ Identity!Id(o, i) \in Identity!Ids
                                           /\ Identity!Id(o, i).owner = o
           /\ \A d \in Identity!Ids : \A i :
                 /\ Identity!Owned(i, d) \in Identity!Ids
                 /\ Identity!Owned(i, d).owner \in {"user", "community"}
           /\ \A d, i, j : Identity!Owned(i, d) = Identity!Owned(j, d)
  <1>1. ASSUME NEW o \in {"untyped", "user", "community"} \cup Servers,
               NEW i \in Identity!Items
        PROVE  Identity!Id(o, i) \in Identity!Ids /\ Identity!Id(o, i).owner = o
    BY <1>1 DEF Identity!Id, Identity!Ids, Identity!Kind, Identity!TypeOK
  <1>2. ASSUME NEW d \in Identity!Ids, NEW i
        PROVE  /\ Identity!Owned(i, d) \in Identity!Ids
               /\ Identity!Owned(i, d).owner \in {"user", "community"}
    BY <1>2 DEF Identity!Owned, Identity!Ids
  <1>3. \A d, i, j : Identity!Owned(i, d) = Identity!Owned(j, d)
    BY DEF Identity!Owned
  <1> QED
    BY <1>1, <1>2, <1>3

LEMMA IdentityInit == Identity!Init => IdentityInv
  <1> SUFFICES ASSUME Identity!Init PROVE IdentityInv
    OBVIOUS
  <1>1. Identity!TypeOK
    <2>1. /\ answered \in [Identity!Items -> Identity!Items \cup {NoId}]
          /\ answered \in Identity!Columns
      BY DEF Identity!Init, Identity!Columns
    <2>2. starts \in 0..MaxStarts
      BY IdentityFacts DEF Identity!Init
    <2> QED
      BY <2>1, <2>2 DEF Identity!Init, Identity!TypeOK
  <1>2. OwnersFit
    BY DEF OwnersFit, Identity!Init
  <1> QED
    BY <1>1, <1>2 DEF IdentityInv

(* Before a start changes the columns: what a message is given.            *)
LEMMA WriteSteps ==
    ASSUME IdentityInv, NEW i \in Identity!Items,
           \/ \E p \in Identity!Items \cup {NoId} :
                 Identity!Publish(i, p) \/ Identity!Receive(i, p)
           \/ Identity!Deliver(i) \/ Identity!Reserve(i) \/ Identity!Commit(i)
    PROVE  IdentityInv' /\ starts' = starts
  <1>1. /\ answered \in [Identity!Items -> Identity!Items \cup {NoId}]
        /\ mapping \in Identity!Columns /\ published \in Identity!Columns
        /\ row \in Identity!Columns /\ parentId \in Identity!Columns
        /\ waiting \in Identity!Columns /\ request \in Identity!Columns
        /\ told \in [Identity!Items -> SUBSET Identity!Ids]
        /\ home \in [Identity!Items -> {"here"} \cup Servers]
    BY DEF IdentityInv, Identity!TypeOK
  <1>2. ASSUME NEW t, t \in Identity!Columns, NEW k \in Identity!Items,
               NEW d \in Identity!Ids \cup {NoId}
        PROVE  [t EXCEPT ![k] = d] \in Identity!Columns
    BY <1>2 DEF Identity!Columns
  <1>3. ASSUME NEW p \in Identity!Items \cup {NoId}, Identity!Publish(i, p)
        PROVE  IdentityInv' /\ starts' = starts
    <2>1. PICK d : d = Identity!Id(IF release = "typed" THEN "user" ELSE "untyped", i)
      OBVIOUS
    <2>2. d \in Identity!Ids /\ d.owner \notin Servers
      BY <2>1, IdTypes, IdentityFacts DEF IdentityInv
    <2>3. /\ home[i] = "here" /\ UNCHANGED <<place, home, token, release, up, request, starts>>
          /\ mapping' = [mapping EXCEPT ![i] = d]
          /\ published' = [published EXCEPT ![i] = d]
          /\ row' = [row EXCEPT ![i] = IF place = "feed" THEN NoId ELSE d]
          /\ waiting' = [waiting EXCEPT ![i] = d]
          /\ told' = [told EXCEPT ![i] = IF place = "feed" THEN {} ELSE {d}]
          /\ answered' = [answered EXCEPT ![i] = p]
          /\ parentId' = [parentId EXCEPT ![i] = IF p = NoId THEN NoId ELSE Identity!NameHere(p)]
      BY <1>3, <2>1 DEF Identity!Publish, Identity!scene
    <2>4. (IF p = NoId THEN NoId ELSE Identity!NameHere(p)) \in Identity!Ids \cup {NoId}
      BY <1>1 DEF Identity!NameHere, Identity!Columns
    <2>5. /\ mapping' \in Identity!Columns /\ published' \in Identity!Columns
          /\ row' \in Identity!Columns /\ parentId' \in Identity!Columns
          /\ waiting' \in Identity!Columns
      BY <1>1, <1>2, <2>2, <2>3, <2>4
    <2>6. /\ told' \in [Identity!Items -> SUBSET Identity!Ids]
          /\ answered' \in [Identity!Items -> Identity!Items \cup {NoId}]
      BY <1>1, <2>2, <2>3
    <2>7. Identity!TypeOK'
      BY <1>1, <2>3, <2>5, <2>6 DEF IdentityInv, Identity!TypeOK
    <2>8. OwnersFit'
      BY <1>1, <2>2, <2>3, IdentityFacts DEF IdentityInv, OwnersFit, Identity!Columns
    <2> QED
      BY <2>3, <2>7, <2>8 DEF IdentityInv
  <1>4. ASSUME NEW p \in Identity!Items \cup {NoId}, Identity!Receive(i, p)
        PROVE  IdentityInv' /\ starts' = starts
    <2>1. PICK d : d = Identity!Id(home[i], i)
      OBVIOUS
    <2>2. home[i] \in Servers /\ d \in Identity!Ids /\ d.owner = home[i]
      BY <1>4, <2>1, IdTypes DEF IdentityInv, Identity!Receive
    <2>3. /\ UNCHANGED <<place, home, token, release, up, published, waiting, request, told,
                         starts>>
          /\ row' = [row EXCEPT ![i] = d]
          /\ mapping' = [mapping EXCEPT ![i] =
                            IF place = "local" /\ i \in Comments THEN d ELSE NoId]
          /\ answered' = [answered EXCEPT ![i] = p]
          /\ parentId' = [parentId EXCEPT ![i] = IF p = NoId \/ place = "remote" THEN NoId
                                                 ELSE Identity!NameHere(p)]
      BY <1>4, <2>1 DEF Identity!Receive, Identity!scene
    <2>4. (IF p = NoId \/ place = "remote" THEN NoId ELSE Identity!NameHere(p))
             \in Identity!Ids \cup {NoId}
      BY <1>1 DEF Identity!NameHere, Identity!Columns
    <2>5. /\ mapping' \in Identity!Columns /\ row' \in Identity!Columns
          /\ parentId' \in Identity!Columns
      BY <1>1, <1>2, <2>2, <2>3, <2>4
    <2>6. answered' \in [Identity!Items -> Identity!Items \cup {NoId}]
      BY <1>1, <2>3
    <2>7. Identity!TypeOK'
      BY <1>1, <2>3, <2>5, <2>6 DEF IdentityInv, Identity!TypeOK
    <2>8. OwnersFit'
      BY <1>1, <2>2, <2>3 DEF IdentityInv, OwnersFit, Identity!Columns
    <2> QED
      BY <2>3, <2>7, <2>8 DEF IdentityInv
  <1>5. CASE Identity!Deliver(i) \/ Identity!Reserve(i) \/ Identity!Commit(i)
    <2>1. /\ UNCHANGED <<place, home, token, release, up, answered, mapping, published, row,
                         parentId, starts>>
          /\ \/ /\ waiting[i] # NoId /\ told' = [told EXCEPT ![i] = told[i] \cup {waiting[i]}]
                /\ waiting' = [waiting EXCEPT ![i] = NoId] /\ UNCHANGED request
             \/ /\ request' = [request EXCEPT ![i] = published[i]] /\ UNCHANGED <<waiting, told>>
             \/ /\ request[i] # NoId /\ told' = [told EXCEPT ![i] = told[i] \cup {request[i]}]
                /\ request' = [request EXCEPT ![i] = NoId] /\ UNCHANGED waiting
      BY <1>5 DEF Identity!Deliver, Identity!Reserve, Identity!Commit, Identity!scene
    <2>2. /\ published[i] \in Identity!Ids \cup {NoId}
          /\ waiting[i] \in Identity!Ids \cup {NoId} /\ request[i] \in Identity!Ids \cup {NoId}
      BY <1>1 DEF Identity!Columns
    <2>3. waiting' \in Identity!Columns /\ request' \in Identity!Columns
      <3>1. /\ [waiting EXCEPT ![i] = NoId] \in Identity!Columns
            /\ [request EXCEPT ![i] = NoId] \in Identity!Columns
            /\ [request EXCEPT ![i] = published[i]] \in Identity!Columns
        BY <1>1, <2>2 DEF Identity!Columns
      <3> QED
        BY <1>1, <2>1, <3>1
    <2>4. told' \in [Identity!Items -> SUBSET Identity!Ids]
      BY <1>1, <2>1, <2>2
    <2>5. Identity!TypeOK'
      BY <1>1, <2>1, <2>3, <2>4 DEF IdentityInv, Identity!TypeOK
    <2> QED
      BY <2>1, <2>5 DEF IdentityInv, OwnersFit
  <1> QED
    BY <1>3, <1>4, <1>5

(* What a start makes of an id that a message has.                         *)
LEMMA FollowedFacts ==
    ASSUME IdentityInv
    PROVE  /\ \A d \in Identity!Ids \cup {NoId} :
                 Identity!Followed(d) \in Identity!Ids \cup {NoId}
           /\ Identity!Followed(NoId) = NoId
           /\ \A i \in Identity!Items, d \in Identity!Ids :
                 home[i] = "here" /\ d \in {published[i], row[i]} /\ d # NoId =>
                    Identity!Followed(d) = Identity!Owned(i, d)
           /\ \A d \in Identity!Ids :
                 d.owner \in Servers => Identity!Followed(d) = d
  <1> DEFINE Renamed(d) ==
               {j \in Identity!Items : home[j] = "here" /\ d \in {published[j], row[j]}}
  <1>1. ASSUME NEW d \in Identity!Ids \cup {NoId}, d # NoId, Renamed(d) # {},
               NEW i
        PROVE  Identity!Followed(d) = Identity!Owned(i, d)
    <2>1. PICK j : Identity!Followed(d) = Identity!Owned(j, d)
      BY <1>1 DEF Identity!Followed
    <2> QED
      BY <2>1 DEF Identity!Owned
  <1>2. ASSUME NEW d, d = NoId \/ Renamed(d) = {}
        PROVE  Identity!Followed(d) = d
    BY <1>2 DEF Identity!Followed
  <1>3. ASSUME NEW d \in Identity!Ids, d.owner \in Servers, d # NoId
        PROVE  Renamed(d) = {}
    BY <1>3, IdentityFacts DEF IdentityInv, OwnersFit
  <1>4. ASSUME NEW d \in Identity!Ids \cup {NoId}
        PROVE  Identity!Followed(d) \in Identity!Ids \cup {NoId}
    <2>1. CASE d = NoId \/ Renamed(d) = {}
      BY <1>2, <1>4, <2>1
    <2>2. CASE d # NoId /\ Renamed(d) # {}
      <3>1. Identity!Followed(d) = Identity!Owned(Post, d) /\ d \in Identity!Ids
        BY <1>1, <1>4, <2>2
      <3> QED
        BY <3>1, IdTypes DEF IdentityInv
    <2> QED
      BY <2>1, <2>2
  <1>5. ASSUME NEW i \in Identity!Items, NEW d \in Identity!Ids,
               home[i] = "here", d \in {published[i], row[i]}, d # NoId
        PROVE  Identity!Followed(d) = Identity!Owned(i, d)
    <2>1. Renamed(d) # {}
      BY <1>5
    <2> HIDE DEF Renamed
    <2> QED
      BY <1>1, <1>5, <2>1
  <1> QED
    BY <1>2, <1>3, <1>4, <1>5

(* The columns of a message through a start.                               *)
LEMMA RenamedFacts ==
    ASSUME IdentityInv, NEW i \in Identity!Items
    PROVE  /\ Identity!RenamedPublished(i) \in Identity!Ids \cup {NoId}
           /\ Identity!RenamedMapping(i) \in Identity!Ids \cup {NoId}
           /\ Identity!RenamedRow(i) \in Identity!Ids \cup {NoId}
           /\ Identity!RenamedPublished(i) # NoId =>
                 home[i] = "here" /\ Identity!RenamedPublished(i).owner \notin Servers
           /\ Identity!RenamedRow(i) # NoId =>
                 (Identity!RenamedRow(i).owner \in Servers <=> home[i] \in Servers)
           /\ Identity!RenamedRow(i) = Identity!Followed(row[i])
  <1>1. /\ published[i] \in Identity!Ids \cup {NoId} /\ mapping[i] \in Identity!Ids \cup {NoId}
        /\ row[i] \in Identity!Ids \cup {NoId} /\ home[i] \in {"here"} \cup Servers
    BY DEF IdentityInv, Identity!TypeOK, Identity!Columns
  <1>2. /\ published[i] # NoId => home[i] = "here" /\ published[i].owner \notin Servers
        /\ row[i] # NoId => (row[i].owner \in Servers <=> home[i] \in Servers)
    BY DEF IdentityInv, OwnersFit
  <1>3. ASSUME NEW d \in Identity!Ids
        PROVE  /\ Identity!Owned(i, d) \in Identity!Ids
               /\ Identity!Owned(i, d).owner \notin Servers
    BY IdTypes, IdentityFacts DEF IdentityInv
  <1>4. /\ Identity!RenamedPublished(i) \in Identity!Ids \cup {NoId}
        /\ Identity!RenamedPublished(i) # NoId =>
              home[i] = "here" /\ Identity!RenamedPublished(i).owner \notin Servers
    BY <1>1, <1>2, <1>3 DEF Identity!RenamedPublished
  <1>5. Identity!RenamedMapping(i) \in Identity!Ids \cup {NoId}
    BY <1>1, <1>3 DEF Identity!RenamedMapping
  <1>6. CASE row[i] = NoId
    <2>1. Identity!RenamedRow(i) = NoId
      BY <1>6 DEF Identity!RenamedRow
    <2> QED
      BY <1>4, <1>5, <1>6, <2>1, FollowedFacts
  <1>7. CASE row[i] # NoId /\ row[i].owner \in Servers
    <2>1. Identity!RenamedRow(i) = row[i] /\ row[i] \in Identity!Ids
      BY <1>1, <1>7 DEF Identity!RenamedRow, Identity!SameOrigin
    <2> QED
      BY <1>2, <1>4, <1>5, <1>7, <2>1, FollowedFacts
  <1>8. CASE row[i] # NoId /\ row[i].owner \notin Servers
    <2>1. Identity!RenamedRow(i) = Identity!Owned(i, row[i]) /\ row[i] \in Identity!Ids
      BY <1>1, <1>8 DEF Identity!RenamedRow, Identity!SameOrigin
    <2>2. home[i] = "here"
      BY <1>1, <1>2, <1>8
    <2>3. Identity!Followed(row[i]) = Identity!Owned(i, row[i])
      BY <1>8, <2>1, <2>2, FollowedFacts
    <2> QED
      BY <1>2, <1>3, <1>4, <1>5, <1>8, <2>1, <2>2, <2>3
  <1> QED
    BY <1>6, <1>7, <1>8

LEMMA MigrationStep == IdentityInv /\ Identity!Start => IdentityInv'
  <1> SUFFICES ASSUME IdentityInv, Identity!Start PROVE IdentityInv'
    OBVIOUS
  <1>1. /\ place \in {"feed", "local", "remote"}
        /\ home \in [Identity!Items -> {"here"} \cup Servers]
        /\ token \in [Identity!Items -> Identity!Items]
        /\ answered \in [Identity!Items -> Identity!Items \cup {NoId}]
        /\ parentId \in Identity!Columns /\ waiting \in Identity!Columns
        /\ told \in [Identity!Items -> SUBSET Identity!Ids]
        /\ starts \in 0..MaxStarts
    BY DEF IdentityInv, Identity!TypeOK
  <1>2. /\ UNCHANGED <<place, home, token, answered, told>>
        /\ release' = "typed" /\ up' = TRUE /\ starts' = starts + 1 /\ starts < MaxStarts
        /\ published' = [i \in Identity!Items |-> Identity!RenamedPublished(i)]
        /\ mapping' = [i \in Identity!Items |-> Identity!RenamedMapping(i)]
        /\ row' = [i \in Identity!Items |-> Identity!RenamedRow(i)]
        /\ parentId' = [i \in Identity!Items |-> Identity!Followed(parentId[i])]
        /\ waiting' = [i \in Identity!Items |-> Identity!RenamedWaiting(i)]
        /\ request' = [i \in Identity!Items |-> Identity!RenamedRequest(i)]
    BY DEF Identity!Start, Identity!scene
  <1>3. ASSUME NEW i \in Identity!Items
        PROVE  /\ Identity!Followed(parentId[i]) \in Identity!Ids \cup {NoId}
               /\ Identity!RenamedWaiting(i) \in Identity!Ids \cup {NoId}
               /\ Identity!RenamedRequest(i) \in Identity!Ids \cup {NoId}
    <2>1. parentId[i] \in Identity!Ids \cup {NoId} /\ waiting[i] \in Identity!Ids \cup {NoId}
      BY <1>1 DEF Identity!Columns
    <2> QED
      BY <2>1, FollowedFacts, RenamedFacts
      DEF Identity!RenamedWaiting, Identity!RenamedRequest
  <1>4. /\ published' \in Identity!Columns /\ mapping' \in Identity!Columns
        /\ row' \in Identity!Columns
    BY <1>2, RenamedFacts DEF Identity!Columns
  <1>5. /\ parentId' \in Identity!Columns /\ waiting' \in Identity!Columns
        /\ request' \in Identity!Columns
    BY <1>2, <1>3 DEF Identity!Columns
  <1>6. starts' \in 0..MaxStarts
    BY <1>1, <1>2, IdentityFacts
  <1>7. Identity!TypeOK'
    BY <1>1, <1>2, <1>4, <1>5, <1>6 DEF Identity!TypeOK
  <1>8. OwnersFit'
    BY <1>2, RenamedFacts DEF OwnersFit
  <1> QED
    BY <1>7, <1>8 DEF IdentityInv

LEMMA IdentityStep == IdentityInv /\ [Identity!Next]_identityVars => IdentityInv'
  <1> SUFFICES ASSUME IdentityInv, [Identity!Next]_identityVars PROVE IdentityInv'
    OBVIOUS
  <1>1. CASE UNCHANGED identityVars
    BY <1>1 DEF identityVars, IdentityInv, Identity!TypeOK, OwnersFit
  <1>2. CASE \E i \in Identity!Items :
                \/ \E p \in Identity!Items \cup {NoId} :
                      Identity!Publish(i, p) \/ Identity!Receive(i, p)
                \/ Identity!Deliver(i) \/ Identity!Reserve(i) \/ Identity!Commit(i)
    BY <1>2, WriteSteps
  <1>3. CASE Identity!Stop
    BY <1>3 DEF Identity!Stop, Identity!scene, IdentityInv, Identity!TypeOK, OwnersFit
  <1>4. CASE Identity!Start
    BY <1>4, MigrationStep
  <1>5. CASE Identity!StartFails
    <2>1. starts' \in 0..MaxStarts
      BY <1>5, IdentityFacts DEF Identity!StartFails, IdentityInv, Identity!TypeOK
    <2> QED
      BY <1>5, <2>1
      DEF Identity!StartFails, Identity!scene, IdentityInv, Identity!TypeOK, OwnersFit
  <1> QED
    BY <1>1, <1>2, <1>3, <1>4, <1>5 DEF Identity!Next

(* Whatever named a message by its id still does after the migration: all  *)
(* that names it is renamed by the same rule.                              *)
LEMMA StartRenamesAlike ==
    ASSUME IdentityInv, Identity!Start, NEW i \in Identity!Items
    PROVE  /\ published[i] # NoId /\ Identity!NamedAlike(i) => Identity!NamedAlike(i)'
           /\ \A c \in Identity!Items :
                 answered[c] = i /\ parentId[c] = row[i] => parentId'[c] = row'[i]
  <1>1. /\ UNCHANGED answered
        /\ published' = [j \in Identity!Items |-> Identity!RenamedPublished(j)]
        /\ mapping' = [j \in Identity!Items |-> Identity!RenamedMapping(j)]
        /\ row' = [j \in Identity!Items |-> Identity!RenamedRow(j)]
        /\ parentId' = [j \in Identity!Items |-> Identity!Followed(parentId[j])]
        /\ waiting' = [j \in Identity!Items |-> Identity!RenamedWaiting(j)]
        /\ request' = [j \in Identity!Items |-> Identity!RenamedRequest(j)]
    BY DEF Identity!Start
  <1>2. \A c \in Identity!Items :
           answered[c] = i /\ parentId[c] = row[i] => parentId'[c] = row'[i]
    BY <1>1, RenamedFacts
  <1>3. ASSUME published[i] # NoId, Identity!NamedAlike(i)
        PROVE  Identity!NamedAlike(i)'
    <2>1. PICK d, e : d = published[i] /\ e = Identity!Owned(i, d)
      OBVIOUS
    <2>2. d \in Identity!Ids /\ d # NoId /\ home[i] = "here" /\ published'[i] = e
      BY <1>1, <1>3, <2>1
      DEF IdentityInv, OwnersFit, Identity!TypeOK, Identity!Columns,
          Identity!RenamedPublished
    <2>3. Identity!Followed(d) = e /\ Identity!Followed(NoId) = NoId
      BY <2>1, <2>2, FollowedFacts
    <2>4. /\ mapping[i] \in {d, NoId} /\ row[i] \in {d, NoId}
          /\ waiting[i] \in {d, NoId} /\ request[i] \in {d, NoId}
      BY <1>3, <2>1 DEF Identity!NamedAlike
    <2>5. mapping'[i] \in {e, NoId}
      BY <1>1, <2>1, <2>4 DEF Identity!RenamedMapping
    <2>6. row'[i] \in {e, NoId}
      BY <1>1, <2>3, <2>4, RenamedFacts
    <2>7. waiting'[i] \in {e, NoId}
      BY <1>1, <2>3, <2>4 DEF Identity!RenamedWaiting
    <2>8. request'[i] \in {e, NoId}
      BY <1>1, <2>1, <2>2 DEF Identity!RenamedRequest, Identity!RenamedPublished
    <2>9. \A c \in Identity!Items : answered'[c] = i => parentId'[c] = e
      BY <1>1, <1>3, <2>1, <2>3 DEF Identity!NamedAlike
    <2> QED
      BY <2>2, <2>5, <2>6, <2>7, <2>8, <2>9 DEF Identity!NamedAlike
  <1> QED
    BY <1>2, <1>3
-----------------------------------------------------------------------------
(* The three parts together: a step of one leaves the others alone.        *)
AllInv == Inv /\ FeedInv /\ IdentityInv

allVars == <<focus, vars, feedVars, identityVars>>

LEMMA PartSteps ==
    [AllNext]_allVars => [Next]_vars /\ [Feed!Next]_feedVars /\ [Identity!Next]_identityVars
  BY DEF AllNext, allVars

LEMMA AllInvHolds == AllSpec => []AllInv
  <1>1. AllInit => AllInv
    BY InvInit, FeedInit, IdentityInit DEF AllInit, AllInv
  <1>2. AllInv /\ [AllNext]_allVars => AllInv'
    BY PartSteps, InvStep, FeedStep, IdentityStep DEF AllInv
  <1> QED
    BY <1>1, <1>2, PTL DEF AllSpec, allVars

(* The state stays well typed.                                             *)
THEOREM MessagesTypeCorrect == AllSpec => []TypesOK
  <1>1. AllInv => TypesOK
    BY DEF AllInv, Inv, FeedInv, IdentityInv, TypesOK
  <1> QED
    BY <1>1, AllInvHolds, PTL

(* However events, claims, calls and restarts of any number of comments    *)
(* interleave, a comment has one message for each time an answer was lost  *)
(* and one more: no second create of what claim_due has handed out.        *)
THEOREM CommentsHaveOneMessage == AllSpec => []OneMessage
  <1>1. AllInv => OneMessage
    BY DEF AllInv, FeedInv, OneMessage
  <1> QED
    BY <1>1, AllInvHolds, PTL

(* A reply reaches the channel after the row of what it answers, and none  *)
(* waits for a row there is: the wake-up is owed at worst.                 *)
THEOREM RepliesWait == AllSpec => []WaitsForParent
  <1>1. AllInv => WaitsForParent
    BY DEF AllInv, FeedInv, WaitsForParent
  <1> QED
    BY <1>1, AllInvHolds, PTL

(* What was deleted before anybody saw it is never posted afterwards: no   *)
(* result, retry, binding or restart takes the row out of "suppressed".    *)
THEOREM DeletedStaysSuppressed == AllSpec => []DeletedUnseenStaysSuppressed
  <1>1. AllInv => DeletedUnseenStaysSuppressed
    BY DEF AllInv, FeedInv, DeletedUnseenStaysSuppressed
  <1> QED
    BY <1>1, AllInvHolds, PTL

(* No step, the call of a claim made before later Updates arrived neither, *)
(* puts an older text of a comment back in Discord.                        *)
THEOREM ChannelMovesForward == AllSpec => NeverOlder
  <1>1. AllInv /\ [AllNext]_allVars =>
           [\A c \in Comments : \A i \in 1..Len(shown[c]) :
               \/ shown'[c][i] = Gone
               \/ shown[c][i] # Gone /\ shown'[c][i] >= shown[c][i]]_(Feed!vars)
    BY PartSteps, FeedGrows DEF AllInv
  <1> QED
    BY <1>1, AllInvHolds, PTL DEF AllSpec, allVars, NeverOlder, Feed!NeverOlder

(* The identity migration renames whatever names a message by the one      *)
(* rule: for any ids, replies, unsent activities and reserved mutations,   *)
(* no start leaves a reference to an id that is no more.                   *)
THEOREM ReferencesSurviveStarts == AllSpec => StartKeepsReferences
  <1>1. AllInv /\ [AllNext]_allVars =>
           [starts' # starts =>
               \A i \in Identity!Items :
                  /\ published[i] # NoId /\ Identity!NamedAlike(i) => Identity!NamedAlike(i)'
                  /\ \A c \in Identity!Items :
                        answered[c] = i /\ parentId[c] = row[i] => parentId'[c] = row'[i]
           ]_(Identity!vars)
    <2> SUFFICES ASSUME AllInv, [AllNext]_allVars, starts' # starts, NEW i \in Identity!Items
                 PROVE  /\ published[i] # NoId /\ Identity!NamedAlike(i) =>
                              Identity!NamedAlike(i)'
                        /\ \A c \in Identity!Items :
                              answered[c] = i /\ parentId[c] = row[i] => parentId'[c] = row'[i]
      OBVIOUS
    <2>1. IdentityInv /\ [Identity!Next]_identityVars /\ starts' # starts
      BY PartSteps DEF AllInv
    <2>2. Identity!Start \/ Identity!StartFails
      BY <2>1, WriteSteps DEF Identity!Next, Identity!Stop, identityVars
    <2>3. CASE Identity!Start
      BY <2>1, <2>3, StartRenamesAlike
    <2>4. CASE Identity!StartFails
      BY <2>4 DEF Identity!StartFails, Identity!NamedAlike
    <2> QED
      BY <2>2, <2>3, <2>4
  <1> QED
    BY <1>1, AllInvHolds, PTL
    DEF AllSpec, allVars, StartKeepsReferences, Identity!StartKeepsReferences
=============================================================================
