------------------------------ MODULE Notifications ------------------------------
(***************************************************************************)
(* The notifications of users and the counts of unseen ones: every change  *)
(* of the rows is counted in its own batch, and the count is published an  *)
(* await or two later (NotificationService.createAndPushNoti, UserService. *)
(* seenNotification and markAllNotisSeen) to the clients that subscribed   *)
(* (graphql-ws, SubscriptionResolver).  The broker is PubSub in memory: it *)
(* hands a message to the clients that are connected, at once.             *)
(***************************************************************************)
EXTENDS Integers, FiniteSets, Sequences

CONSTANTS
    Users,
    Anonymous,      \* who connects without authorization: none of them
    Requests,       \* requests that concern notifications
    Clients         \* clients that may subscribe

VARIABLES
    notes,          \* notification, in the order of creation
    conn,           \* the clients that subscribed, and what each was sent
    note,           \* the requests
    disturbed       \* history: users whose requests overlapped, failed, or marked another's row

-----------------------------------------------------------------------------
(* Type definitions *)

NoCount == -1

Connection == [user : Users \cup {Anonymous}, count : Int, notes : SUBSET Nat]

Offline == [user |-> Anonymous, count |-> NoCount, notes |-> {}]

\* A request: whom it is for, the row it created and the count it will publish.
Note == [pc : {"idle", "push", "publish", "done", "failed"},
         user : Users \cup {Anonymous}, row : Nat, count : Nat]

IdleNote == [pc |-> "idle", user |-> Anonymous, row |-> 0, count |-> 0]

NotificationsTypeOK ==
    /\ notes \in Seq([user : Users, seen : BOOLEAN])
    /\ conn \in [Clients -> Connection \cup {Offline}]
    /\ note \in [Requests -> Note]
    /\ disturbed \in SUBSET Users

-----------------------------------------------------------------------------
(* Helper formulae *)

RowsOfUser(u) == {n \in DOMAIN notes : notes[n].user = u}

\* Mutant: the rows of others that were seen are subtracted too.
CountAllSeen(rows, u) ==
    Cardinality(RowsOfUser(u)) - Cardinality({n \in DOMAIN rows : rows[n].seen})

CountUnseen(rows, u) ==
    Cardinality({n \in DOMAIN rows : rows[n].user = u /\ ~rows[n].seen})

Busy(u) == \E r \in Requests : note[r].user = u /\ note[r].pc \in {"push", "publish"}

\* Mutant: everybody who is logged in receives it.
ReceivesAny(c, u) == conn[c].user # Anonymous

\* _filter: the payload's listReceiverId is [u]; a connection without a user
\* receives nothing.
Receives(c, u) == conn[c].user = u

\* The call returns: its local variables are gone.
NoteEnd(r, pc) == note' = [note EXCEPT ![r] = [IdleNote EXCEPT !.pc = pc]]

\* The batch of request r of user u: the rows, and their count.
Batch(r, u, pc, rows, row) ==
    /\ note[r].pc = "idle"
    /\ notes' = rows
    /\ note' = [note EXCEPT ![r] =
                  [pc |-> pc, user |-> u, row |-> row, count |-> CountUnseen(rows, u)]]
    /\ UNCHANGED conn

-----------------------------------------------------------------------------
NotificationsInit ==
    /\ notes = << >>
    /\ conn = [c \in Clients |-> Offline]
    /\ note = [r \in Requests |-> IdleNote]
    /\ disturbed = {}

-----------------------------------------------------------------------------
(* The requests *)

CreateNoti(r, u) ==
    /\ Batch(r, u, "push", Append(notes, [user |-> u, seen |-> FALSE]), Len(notes) + 1)
    /\ disturbed' = disturbed \cup {v \in {u} : Busy(v)}

\* Any row by its id; the count is that of the user who asks.
SeenNotification(r, u, n) ==
    /\ Batch(r, u, "publish", [notes EXCEPT ![n].seen = TRUE], n)
    /\ disturbed' = disturbed \cup {v \in {u} : Busy(v)} \cup ({notes[n].user} \ {u})

\* The count is the literal 0.
MarkAllNotisSeen(r, u) ==
    /\ Batch(r, u, "publish",
             [n \in DOMAIN notes |-> [notes[n] EXCEPT !.seen = @ \/ notes[n].user = u]], 0)
    /\ disturbed' = disturbed \cup {v \in {u} : Busy(v)}

PushNotification(r) ==
    /\ note[r].pc = "push"
    /\ conn' = [c \in Clients |->
                  IF Receives(c, note[r].user)
                  THEN [conn[c] EXCEPT !.notes = @ \cup {note[r].row}] ELSE conn[c]]
    /\ note' = [note EXCEPT ![r].pc = "publish"]
    /\ UNCHANGED <<notes, disturbed>>

PublishUnseenNotisCount(r) ==
    /\ note[r].pc = "publish"
    /\ conn' = [c \in Clients |->
                  IF Receives(c, note[r].user)
                  THEN [conn[c] EXCEPT !.count = note[r].count] ELSE conn[c]]
    /\ NoteEnd(r, "done")
    /\ UNCHANGED <<notes, disturbed>>

\* The count is not published.  (A batch that fails changes nothing.)
NoteFail(r) ==
    /\ note[r].pc \in {"push", "publish"}
    /\ NoteEnd(r, "failed")
    /\ disturbed' = disturbed \cup {note[r].user}
    /\ UNCHANGED <<notes, conn>>

-----------------------------------------------------------------------------
(* The clients *)

\* onConnect: a token of the user, or none.  A token that is invalid is refused.
Connect(c, u) ==
    /\ conn[c] = Offline
    /\ u # Anonymous
    /\ conn' = [conn EXCEPT ![c].user = u]
    /\ UNCHANGED <<notes, note, disturbed>>

Disconnect(c) ==
    /\ conn[c] # Offline
    /\ conn' = [conn EXCEPT ![c] = Offline]
    /\ UNCHANGED <<notes, note, disturbed>>

\* The server's memory is lost: connections, and requests on their way.
RestartNotifications ==
    /\ conn' = [c \in Clients |-> Offline]
    /\ note' = [r \in Requests |->
                  IF note[r].pc \in {"push", "publish"} THEN [IdleNote EXCEPT !.pc = "failed"]
                  ELSE note[r]]
    /\ disturbed' = disturbed \cup {u \in Users : Busy(u)}
    /\ UNCHANGED notes
=============================================================================
