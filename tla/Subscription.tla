---------------------------- MODULE Subscription ----------------------------
(***************************************************************************)
(* The subscription and notification client (subscribe.c).                *)
(*                                                                         *)
(* The client holds stubs for resources it retrieved from servers. A stub  *)
(* is <<server, path>>: the client connection it was retrieved on and the *)
(* resource's path. subscribe POSTs a Subscription for a stub that is not  *)
(* subscribed; the response handler (outside src/) sets s->subscribed     *)
(* through the request context.                                            *)
(*                                                                         *)
(* Servers POST notifications to the listener. process_notifications takes *)
(* one received POST and does the following:                              *)
(*   - for /notify with a parsed body, it runs notification on each        *)
(*     Notification of the list, or on the single one;                     *)
(*   - it answers 204;                                                     *)
(*   - it frees the body with free_se_object.                              *)
(* notification finds the stub the notification is about and applies its   *)
(* status. A secure listener finds the stub among those retrieved on the   *)
(* client connection whose LFDI is the notifier's (find_conn,              *)
(* match_notifier, find_stub). An insecure one goes by path alone          *)
(* (find_resource). When no stub is found, it closes the connection.       *)
(*                                                                         *)
(* Every Resource object carried in a body is identified by <<request      *)
(* number, notification index>>.                                           *)
(***************************************************************************)
EXTENDS Integers, Sequences, SequencesExt, FiniteSets

CONSTANTS
  Servers,      \* the servers, identified by their LFDI
  Paths,        \* resource paths
  Types,        \* resource types (element_type of a stub's resource)
  StubSet,      \* the stubs retrieved: <<server, path>>
  TypeOf,       \* the resource type of each path
  Notes,        \* the Notifications a server may send
  Secure,       \* n_secure: the listener accepts TLS connections
  MaxRequests,  \* bound on the notification POSTs received
  MaxPosts,     \* bound on subscription POSTs in flight per stub
  NONE          \* NULL: no stub, no connection, no Resource

ASSUME /\ StubSet \subseteq Servers \X Paths
       /\ TypeOf \in [Paths -> Types]
       /\ Secure \in BOOLEAN

\* A Notification: subscribedResource (a path or an unparseable URI),
\* status, the Resource's type (NONE: absent), newResourceURI present.
Note == [res : Paths \cup {"bad"}, status : 0 .. 4, type : Types \cup {NONE},
         moved : BOOLEAN]

ASSUME Notes \subseteq Note

\* A received POST: the notifier, the path it was sent to, and the body:
\* a NotificationList, a single Notification, or one se_body cannot parse.
Request == [from : Servers, target : {"/notify", "/other"},
            body : {"list", "single", "none"}, notes : Seq(Notes)]

Obj == (1 .. MaxRequests) \X Nat

VARIABLES
  subscribed,  \* s->subscribed
  posts,       \* subscription POSTs in flight per stub (se_post)
  held,        \* the sender and type of the object each stub last took, or NONE
  moved,       \* stubs get_moved was called for
  removes,     \* RESOURCE_REMOVE events queued per stub
  taken,       \* Resource objects handed to a stub
  freed,       \* Resource objects released by free_se_object
  received,    \* number of POSTs process_notifications has handled
  allocated,   \* Resource objects se_body allocated for them
  answers      \* per handled POST: [closed, responded, usedClosed]

nvars == <<subscribed, posts, held, moved, removes, taken, freed, received, allocated,
           answers>>

\* The POSTs a server may send: a NotificationList of up to two
\* Notifications or a single one to /notify, a Notification to another
\* path, or a body se_body cannot parse.
Requests ==
  LET lists == {<<>>} \cup {<<n>> : n \in Notes} \cup {<<n, m>> : n, m \in Notes}
  IN  [from : Servers, target : {"/notify"}, body : {"list"}, notes : lists]
      \cup [from : Servers, target : {"/notify", "/other"}, body : {"single"},
            notes : {<<n>> : n \in Notes}]
      \cup [from : Servers, target : {"/notify"}, body : {"none"}, notes : {<<>>}]

-----------------------------------------------------------------------------
(* notification: finding the stub                                          *)

\* The client connections, one per server a stub was retrieved from.
Clients == {st[1] : st \in StubSet}

\* find_conn (match_notifier, lfdi): the client connection (http_client)
\* whose peer LFDI equals the notifier's, or NONE.
FindConn(lfdi) == IF lfdi \in Clients THEN lfdi ELSE NONE

\* Variant of find_stub that matches the path on any connection.
FindStubAnyConn(path, client) ==
  IF \E st \in StubSet : st[2] = path
  THEN CHOOSE st \in StubSet : st[2] = path ELSE NONE

\* find_stub (&head, path, client): the stub of that path retrieved on
\* that client connection, or NONE.
FindStub(path, client) == IF <<client, path>> \in StubSet THEN <<client, path>> ELSE NONE

\* find_resource (path): a stub with that path, on whichever connection.
FindResource(path) ==
  IF \E st \in StubSet : st[2] = path
  THEN CHOOSE st \in StubSet : st[2] = path ELSE NONE

\* The stub notification works on, or NONE for goto close: an unparseable
\* URI (http_parse_uri), or no stub found. When the insecure lookup finds
\* nothing, `client` is read uninitialized, and both of its values close.
Lookup(from, n) ==
  CASE n.res = "bad" -> NONE
    [] Secure        -> FindStub(n.res, FindConn(from))
    [] OTHER         -> FindResource(n.res)

-----------------------------------------------------------------------------
(* notification and process_notifications                                   *)
(* The loop over a NotificationList carries an accumulator a: the stubs'    *)
(* state, the Resource objects taken and NULLed, and whether conn has been  *)
(* closed and then used.                                                    *)

\* Variant of status 0 that hands the object over without NULLing
\* n->Resource.data.
TakeResourceKeepData(a, s, from, n, o) ==
  [a EXCEPT !.held[s] = [from |-> from, type |-> n.type],
            !.taken = @ \cup {o}]

\* Status 0 with a Resource of the stub's type: list_object or
\* update_existing takes the object, and n->Resource.data = NULL keeps
\* free_se_object from freeing it.
TakeResource(a, s, from, n, o) ==
  [a EXCEPT !.held[s] = [from |-> from, type |-> n.type],
            !.taken = @ \cup {o}, !.nulled = @ \cup {o}]

\* Variant of the switch whose status 0 takes the Resource without the
\* se_exists test.
ApplyStatusNoExists(a, s, from, n, o) ==
  CASE n.status = 0 ->
         IF n.type = TypeOf[s[2]] \/ n.type = NONE
         THEN TakeResource(a, s, from, n, o) ELSE a
    [] n.status \in {1, 2, 3} ->
         [a EXCEPT !.moved = IF n.status = 2 /\ n.moved THEN @ \cup {s} ELSE @,
                   !.subscribed[s] = FALSE]
    [] n.status = 4 -> [a EXCEPT !.removes[s] = @ + 1]

\* The switch on n->status for stub s. Status 2 calls get_moved when there
\* is a newResourceURI and falls through to 1 and 3; 4 queues
\* RESOURCE_REMOVE and leaves s->subscribed alone.
ApplyStatus(a, s, from, n, o) ==
  CASE n.status = 0 ->
         IF n.type # NONE /\ n.type = TypeOf[s[2]]
         THEN TakeResource(a, s, from, n, o) ELSE a
    [] n.status \in {1, 2, 3} ->
         [a EXCEPT !.moved = IF n.status = 2 /\ n.moved THEN @ \cup {s} ELSE @,
                   !.subscribed[s] = FALSE]
    [] n.status = 4 -> [a EXCEPT !.removes[s] = @ + 1]

\* notification (conn, n, dep): the i-th Notification of POST number k.
\* A call on a connection an earlier call closed uses it again.
Notification(a, from, k, i, n) ==
  LET s  == Lookup(from, n)
      a1 == [a EXCEPT !.usedClosed = @ \/ a.closed]
  IN  IF s = NONE THEN [a1 EXCEPT !.closed = TRUE]
      ELSE ApplyStatus(a1, s, from, n, <<k, i>>)

\* The Resource objects se_body allocated for POST r, number k.
BodyObjects(r, k) ==
  IF r.body = "none" THEN {}
  ELSE {<<k, i>> : i \in {j \in DOMAIN r.notes : r.notes[j].type # NONE}}

\* process_notifications (conn, dep) for a received POST r: the whole call,
\* with free_se_object at the end.
ProcessNotifications(r) ==
  /\ received < MaxRequests
  /\ LET k    == received + 1
         objs == BodyObjects(r, k)
         a0   == [held |-> held, subscribed |-> subscribed, moved |-> moved,
                  removes |-> removes, taken |-> {}, nulled |-> {},
                  closed |-> FALSE, usedClosed |-> FALSE]
         a    == IF r.body = "none" \/ r.target # "/notify" THEN a0
                 ELSE FoldLeftDomain(LAMBDA acc, i : Notification(acc, r.from, k, i, r.notes[i]),
                                     a0, r.notes)
         resp == r.body # "none" /\ r.target = "/notify"
     IN  /\ held' = a.held /\ subscribed' = a.subscribed
         /\ moved' = a.moved /\ removes' = a.removes
         /\ taken' = taken \cup a.taken
         /\ freed' = freed \cup (objs \ a.nulled)
         /\ received' = k /\ allocated' = allocated \cup objs
         /\ answers' = Append(answers, [closed |-> a.closed, responded |-> resp,
                                        usedClosed |-> a.usedClosed \/ (resp /\ a.closed)])
  /\ UNCHANGED posts

\* subscribe (s, uri): POST a Subscription unless s is subscribed.
Subscribe(s) ==
  /\ ~subscribed[s]
  /\ posts[s] < MaxPosts
  /\ posts' = [posts EXCEPT ![s] = @ + 1]
  /\ UNCHANGED <<subscribed, held, moved, removes, taken, freed, received, allocated, answers>>

\* The response to a subscription POST: the handler (outside src/) finds
\* the stub through the request context and sets s->subscribed.
SubscribeResponse(s) ==
  /\ posts[s] > 0
  /\ posts' = [posts EXCEPT ![s] = @ - 1]
  /\ subscribed' = [subscribed EXCEPT ![s] = TRUE]
  /\ UNCHANGED <<held, moved, removes, taken, freed, received, allocated, answers>>

NInit ==
  /\ subscribed = [s \in StubSet |-> FALSE]
  /\ posts = [s \in StubSet |-> 0]
  /\ held = [s \in StubSet |-> NONE]
  /\ moved = {} /\ removes = [s \in StubSet |-> 0]
  /\ taken = {} /\ freed = {}
  /\ received = 0 /\ allocated = {} /\ answers = <<>>

NNext ==
  \/ \E r \in Requests : ProcessNotifications(r)
  \/ \E s \in StubSet : Subscribe(s) \/ SubscribeResponse(s)

NSpec == NInit /\ [][NNext]_nvars

-----------------------------------------------------------------------------
(* Properties                                                              *)

\* Every variable has its type.
NTypeOK ==
  /\ subscribed \in [StubSet -> BOOLEAN]
  /\ posts \in [StubSet -> 0 .. MaxPosts]
  /\ held \in [StubSet -> {NONE} \cup [from : Servers, type : Types]]
  /\ moved \subseteq StubSet /\ removes \in [StubSet -> Nat]
  /\ taken \subseteq Obj /\ freed \subseteq Obj
  /\ received \in 0 .. MaxRequests /\ allocated \subseteq Obj
  /\ answers \in Seq([closed : BOOLEAN, responded : BOOLEAN, usedClosed : BOOLEAN])

\* On a secure listener a stub only takes objects its own server sent, of
\* its own resource type: notification's lookup (find_conn by the
\* notifier's LFDI, then find_stub on that connection) and the
\* element_type test keep another server, or a Notification about a
\* resource of the same path elsewhere, from replacing a stub's data.
AuthenticUpdates ==
  \A s \in StubSet :
    held[s] # NONE => held[s].from = s[1] /\ held[s].type = TypeOf[s[2]]

\* Spec 5 (one owner per allocation): every Resource object of a parsed
\* body ends up either with a stub or freed by free_se_object, never both
\* and never neither, over lists mixing accepted, rejected and unknown
\* Notifications. It depends on n->Resource.data = NULL exactly for the
\* objects a stub took.
BodyObjectsOwnedOnce ==
  /\ taken \cap freed = {}
  /\ taken \cup freed = allocated

\* Spec 7 (LookupMiss: the request is closed with HTTP 204 or dropped):
\* every POST the listener handles gets exactly one answer, a 204 or a
\* close, and nothing is done on a connection after it is closed
\* (notify_closed.cfg).
EveryPostAnsweredOnce ==
  \A k \in DOMAIN answers :
    /\ answers[k].responded # answers[k].closed
    /\ ~answers[k].usedClosed

====
