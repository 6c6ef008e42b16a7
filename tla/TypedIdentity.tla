--------------------------- MODULE TypedIdentity ---------------------------
(***************************************************************************)
(* The identities of messages and the identity migration, which every      *)
(* start of the bridge runs (db/migrations.py, _migrate_stage4_typed_      *)
(* activitypub_identity).  It gives what the bridge owns an id under the   *)
(* path of its owner, /actors/users/... or /actors/communities/...; ids of *)
(* an older release had no such path.                                      *)
(*                                                                         *)
(* One conversation, a post and comments below it, in a server's personal  *)
(* feed, in a community of the bridge or in a remote one.  A message of a  *)
(* member is recorded as published object, mapping and, but for the feed,  *)
(* as row of the conversation (local_community_threads and _messages, or   *)
(* community_thread_groups and _message_groups); one from elsewhere only   *)
(* as a row, and a comment in the bridge's community as mapping too.       *)
(*                                                                         *)
(* An id is its owner, its kind and its last segment.  Activity ids, whose *)
(* last segments are random, follow object ids and are left out; so are    *)
(* the addresses of actors and of relayed Announces, and names that a kind *)
(* could be mistaken for (a member called "comment...").                   *)
(***************************************************************************)
EXTENDS Naturals, FiniteSets

CONSTANTS
    Post, Comments,
    Servers,        \* other servers
    NoId,
    MaxStarts       \* bound: restarts

VARIABLES
    place,          \* "feed", "local" or "remote": where the conversation is
    home,           \* where each message is written: "here" or a server
    token,          \* the last segment of its id
    release,        \* of the bridge: "untyped" or "typed"
    up,
    parent,         \* what each recorded message answers
    mapping,        \* message_mappings.object_id
    published,      \* published_activity_objects.object_id
    row,            \* ap_object_id of its row
    parentId,       \* parent_ap_object_id or in_reply_to_object_id
    waiting,        \* object id in the activity of its unsent source
    request,        \* apObjectId of its unsettled content mutation
    told,           \* ids under which other servers were told of it
    starts

vars == <<place, home, token, release, up, parent, mapping, published, row, parentId,
          waiting, request, told, starts>>
scene == <<place, home, token>>

Items == {Post} \cup Comments

TypedIdentityAssumption ==
    /\ Post \notin Comments
    /\ {"untyped", "user", "community", "here"} \cap Servers = {}
    /\ MaxStarts \in Nat

Kind(i) == IF i = Post THEN "post" ELSE "comment"

Ids == [owner : {"untyped", "user", "community"} \cup Servers,
        kind : {"post", "comment"}, token : Items]

Columns == [Items -> Ids \cup {NoId}]

TypeOK ==
    /\ place \in {"feed", "local", "remote"}
    /\ home \in [Items -> {"here"} \cup Servers]
    /\ token \in [Items -> Items]
    /\ release \in {"untyped", "typed"} /\ up \in BOOLEAN
    /\ parent \in [Items -> Items \cup {NoId}]
    /\ \A column \in {mapping, published, row, parentId, waiting, request} :
          column \in Columns
    /\ told \in [Items -> SUBSET Ids]
    /\ starts \in 0 .. MaxStarts

\* The last segment of a member's id is the time; a server numbers its own.
Numbered ==
    \A i, j \in Items :
        /\ home[i] = "here" => token[i] = i
        /\ i # j /\ home[i] = home[j] /\ Kind(i) = Kind(j) => token[i] # token[j]

Init ==
    /\ place \in {"feed", "local", "remote"}
    /\ home \in [Items -> {"here"} \cup Servers]
    /\ place = "feed" => \A i \in Items : home[i] = "here"
    /\ token \in [Items -> Items] /\ Numbered
    /\ release \in {"untyped", "typed"}
    /\ up = TRUE
    /\ parent = [i \in Items |-> NoId]
    /\ mapping = parent /\ published = parent /\ row = parent /\ parentId = parent
    /\ waiting = parent /\ request = parent
    /\ told = [i \in Items |-> {}]
    /\ starts = 0

Id(owner, i) == [owner |-> owner, kind |-> Kind(i), token |-> token[i]]

Recorded(i) == row[i] # NoId \/ mapping[i] # NoId

\* The id of a message as the bridge knows it.
NameHere(i) == IF row[i] # NoId THEN row[i] ELSE mapping[i]

\* An id names a member's message when it is that of the published object, which
\* other servers know if they were told of it; what they wrote they know.
Resolves(i) == home[i] = "here" => published[i] \in told[i]

\* A reply leads to the post: through the bridge's own objects, or through what
\* the servers of its parent say.
LeadsToPost(p) == Resolves(p) /\ (home[p] # "here" => Resolves(Post))

-----------------------------------------------------------------------------
(* While the bridge runs *)

\* A comment answers the post or a recorded comment.
Answers(i, p) ==
    IF i = Post THEN p = NoId ELSE p \in Items \ {i} /\ Recorded(p) /\ Recorded(Post)

\* A member writes a message: the gateway makes its id and sends it to the
\* community, and the bridge records it with a source for the followers.
Publish(i, p) ==
    /\ up /\ home[i] = "here" /\ ~Recorded(i)
    /\ Answers(i, p)
    /\ LET id == Id(IF release = "typed" THEN "user" ELSE "untyped", i) IN
          /\ mapping' = [mapping EXCEPT ![i] = id]
          /\ published' = [published EXCEPT ![i] = id]
          /\ row' = [row EXCEPT ![i] = IF place = "feed" THEN NoId ELSE id]
          /\ waiting' = [waiting EXCEPT ![i] = id]
          /\ told' = [told EXCEPT ![i] = IF place = "feed" THEN {} ELSE {id}]
    /\ parent' = [parent EXCEPT ![i] = p]
    /\ parentId' = [parentId EXCEPT ![i] = IF p = NoId THEN NoId ELSE NameHere(p)]
    /\ UNCHANGED <<scene, release, up, request, starts>>

\* A message from another server: a comment is taken when the gateway can find
\* its post, and the bridge has a row of it.
Receive(i, p) ==
    /\ up /\ home[i] \in Servers /\ ~Recorded(i)
    /\ Answers(i, p)
    /\ i \in Comments => LeadsToPost(p)
    /\ row' = [row EXCEPT ![i] = Id(home[i], i)]
    /\ mapping' = [mapping EXCEPT ![i] =
                      IF place = "local" /\ i \in Comments THEN Id(home[i], i) ELSE NoId]
    /\ parent' = [parent EXCEPT ![i] = p]
    /\ parentId' = [parentId EXCEPT ![i] = IF p = NoId \/ place = "remote" THEN NoId
                                             ELSE NameHere(p)]
    /\ UNCHANGED <<scene, release, up, published, waiting, request, told, starts>>

\* The source of a message goes to the followers.
Deliver(i) ==
    /\ up /\ waiting[i] # NoId
    /\ told' = [told EXCEPT ![i] = @ \cup {waiting[i]}]
    /\ waiting' = [waiting EXCEPT ![i] = NoId]
    /\ UNCHANGED <<scene, release, up, parent, mapping, published, row, parentId,
                   request, starts>>

\* An edit is reserved only for an object whose actor is a member.
Reserve(i) ==
    /\ up /\ published[i] # NoId /\ request[i] = NoId
    /\ published[i].owner # "community"
    /\ request' = [request EXCEPT ![i] = published[i]]
    /\ UNCHANGED <<scene, release, up, parent, mapping, published, row, parentId,
                   waiting, told, starts>>

\* The gateway sends the Update.
Commit(i) ==
    /\ up /\ request[i] # NoId
    /\ told' = [told EXCEPT ![i] = @ \cup {request[i]}]
    /\ request' = [request EXCEPT ![i] = NoId]
    /\ UNCHANGED <<scene, release, up, parent, mapping, published, row, parentId,
                   waiting, starts>>

Stop ==
    /\ up /\ starts < MaxStarts
    /\ up' = FALSE
    /\ UNCHANGED <<scene, release, parent, mapping, published, row, parentId, waiting,
                   request, told, starts>>

-----------------------------------------------------------------------------
(* A start *)

\* Whoever has the community of a message there owns it: the bridge's community
\* what is in it, the author the rest.
Owned(i, id) ==
    [id EXCEPT !.owner = IF place = "local" THEN "community" ELSE "user"]

RenamedPublished(i) ==
    IF published[i] = NoId THEN NoId ELSE Owned(i, published[i])

\* Every mapping in a community of the bridge is taken for the bridge's own.
RenamedMapping(i) == IF mapping[i] = NoId THEN NoId ELSE Owned(i, mapping[i])

\* An id at the bridge's own address.
SameOrigin(id) == id.owner \notin Servers

\* Rows of what came from elsewhere are left alone.
RenamedRow(i) ==
    IF row[i] # NoId /\ SameOrigin(row[i]) THEN Owned(i, row[i]) ELSE row[i]

\* The renamings of published objects and rows, which references follow.
Followed(id) ==
    LET Renamed == {i \in Items : home[i] = "here" /\ id \in {published[i], row[i]}} IN
    IF id = NoId \/ Renamed = {} THEN id ELSE Owned(CHOOSE i \in Renamed : TRUE, id)

\* The id in the cached activity of a source.
RenamedWaiting(i) == Followed(waiting[i])

\* Variant: the cached request of a mutation stays as it is.
CachedRequest(i) == request[i]

\* The request of a mutation names the object as it is published now.
RenamedRequest(i) == IF request[i] = NoId THEN NoId ELSE RenamedPublished(i)

\* Object ids are unique among mappings.
Collision ==
    \E i, j \in Items :
        i # j /\ mapping[i] # NoId /\ mapping[j] # NoId /\ RenamedMapping(i) = RenamedMapping(j)

\* The check before the commit: no id of the old form is left.
LeftUntyped ==
    \E i \in Items :
       \E id \in {RenamedPublished(i), RenamedMapping(i), RenamedRow(i),
                 Followed(parentId[i]), RenamedWaiting(i), RenamedRequest(i)} :
          id # NoId /\ id.owner = "untyped"

\* The migration and its commit; then the release is the typed one.
Start ==
    /\ ~up /\ starts < MaxStarts /\ ~Collision /\ ~LeftUntyped
    /\ published' = [i \in Items |-> RenamedPublished(i)]
    /\ mapping' = [i \in Items |-> RenamedMapping(i)]
    /\ row' = [i \in Items |-> RenamedRow(i)]
    /\ parentId' = [i \in Items |-> Followed(parentId[i])]
    /\ waiting' = [i \in Items |-> RenamedWaiting(i)]
    /\ request' = [i \in Items |-> RenamedRequest(i)]
    /\ release' = "typed"
    /\ up' = TRUE
    /\ starts' = starts + 1
    /\ UNCHANGED <<scene, parent, told>>

\* Two mappings would have one id: the migration is rolled back, and so it is at
\* every further start.
StartFails ==
    /\ ~up /\ starts < MaxStarts /\ (Collision \/ LeftUntyped)
    /\ starts' = starts + 1
    /\ UNCHANGED <<scene, release, up, parent, mapping, published, row, parentId,
                   waiting, request, told>>

Next ==
    \/ \E i \in Items :
          \/ \E p \in Items \cup {NoId} : Publish(i, p) \/ Receive(i, p)
          \/ Deliver(i) \/ Reserve(i) \/ Commit(i)
    \/ Stop \/ Start \/ StartFails

Spec == Init /\ [][Next]_vars

-----------------------------------------------------------------------------
(* Properties *)

\* Whatever in the bridge names the message i names it by one id.
NamedAlike(i) ==
    /\ {mapping[i], row[i], waiting[i], request[i]} \subseteq {published[i], NoId}
    /\ \A c \in Items : parent[c] = i => parentId[c] = published[i]

\* Through a start, all that named a member's message by one id still does: the
\* tables, the cached activity, the reserved mutation and the replies; and the
\* replies to the row of any message still name it.
StartKeepsReferences ==
    [][starts' # starts =>
          \A i \in Items :
             /\ published[i] # NoId /\ NamedAlike(i) => NamedAlike(i)'
             /\ \A c \in Items :
                   parent[c] = i /\ parentId[c] = row[i] => parentId'[c] = row'[i]]_vars

\* "Remote URLs from remote actor/server payloads": "Leave untouched; never
\* rewrite by local migration" (plans/144_activitypub_identity_inventory.md:198).
RemoteIdsUntouched ==
    \A i \in Items : home[i] \in Servers => mapping[i] \in {Id(home[i], i), NoId}
=============================================================================
