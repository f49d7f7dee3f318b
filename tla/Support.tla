------------------------------ MODULE Support -------------------------------
(***************************************************************************)
(* Support tickets: the user's routers (Mini App and Android, which do the *)
(* same) and the dashboard's.  A handler reads the ticket, writes the      *)
(* attached images to disk one by one, and stores message and attachment   *)
(* rows in one transaction at the end; files are not part of it.  Deleting *)
(* an admin message removes the rows first and the files after the commit. *)
(*                                                                         *)
(* A message is named after the request that posts it, and an image by the *)
(* message and its number.                                                 *)
(***************************************************************************)
EXTENDS Naturals, FiniteSets

CONSTANTS Tickets,      \* tickets of one user
          Requests,     \* requests that reach the routers, each once
          MaxOpen,      \* MAX_OPEN_TICKETS
          MaxImages,    \* MAX_ATTACHMENTS_PER_MESSAGE
          Apart,        \* requests do not overlap
          MaxMishaps    \* bound: crashes and failed commits

VARIABLES ticket, message, file, request, mishaps

vars == <<ticket, message, file, request, mishaps>>

Images == Requests \X (1..MaxImages)

Statuses == {"absent", "open", "in_progress", "closed"}

(***************************************************************************)
(* message[r] is the row that request r has stored: the ticket it belongs  *)
(* to and its images; file is what lies on disk.  A request remembers the  *)
(* ticket's status as it read it, the images still to be checked, and the  *)
(* images it has written.                                                  *)
(***************************************************************************)
NoMessage == [in |-> "none", images |-> {}]

Message == [in : Tickets \cup {"none"}, images : SUBSET Images]

Steps == {"idle", "create", "files", "unlink", "done"}

Request == [step : Steps, kind : {"none", "create", "user", "admin", "delete"},
            on : Tickets \cup {"none"}, seen : Statuses,
            left : 0..MaxImages, written : SUBSET Images,
            posted : BOOLEAN]

Init ==
    /\ ticket = [t \in Tickets |-> "absent"]
    /\ message = [r \in Requests |-> NoMessage]
    /\ file = {}
    /\ request = [r \in Requests |->
                     [step |-> "idle", kind |-> "none", on |-> "none",
                      seen |-> "absent", left |-> 0, written |-> {},
                      posted |-> FALSE]]
    /\ mishaps = 0

Working == {r \in Requests : request[r].step \notin {"idle", "done"}}

MayStart(r) == request[r].step = "idle" /\ (Apart => Working = {})

Ends(r) == [request EXCEPT ![r].step = "done"]

Open == {t \in Tickets : ticket[t] = "open"}

(***************************************************************************)
(* create_ticket counts the open tickets and inserts the new one later in  *)
(* the same transaction, without a lock.                                   *)
(***************************************************************************)
CountOpen(r) ==
    /\ MayStart(r)
    /\ \E t \in Tickets :
         /\ ticket[t] = "absent"
         /\ \A q \in Working : request[q].on # t
         /\ request' = IF Cardinality(Open) >= MaxOpen
                       THEN Ends(r)
                       ELSE [request EXCEPT ![r].step = "create",
                                            ![r].kind = "create", ![r].on = t]
    /\ UNCHANGED <<ticket, message, file, mishaps>>

InsertTicket(r) ==
    /\ request[r].step = "create"
    /\ ticket' = [ticket EXCEPT ![request[r].on] = "open"]
    /\ message' = [message EXCEPT ![r].in = request[r].on]
    /\ request' = Ends(r)
    /\ UNCHANGED <<file, mishaps>>

(***************************************************************************)
(* add_user_message refuses a closed ticket; reply_ticket takes any.       *)
(***************************************************************************)
ReadTicket(r, kind, images) ==
    /\ MayStart(r)
    /\ \E t \in Tickets :
         /\ ticket[t] # "absent"
         /\ kind = "user" => ticket[t] # "closed"
         /\ request' = [request EXCEPT
                          ![r].step = "files", ![r].kind = kind, ![r].on = t,
                          ![r].seen = ticket[t], ![r].left = images]
    /\ UNCHANGED <<ticket, message, file, mishaps>>

(***************************************************************************)
(* validate_and_save_attachments checks and writes the images one after    *)
(* the other; the first that is too large or no image ends the request.    *)
(***************************************************************************)
SaveImage(r, valid) ==
    LET image == <<r, request[r].left>>
    IN  /\ request[r].step = "files"
        /\ request[r].left > 0
        /\ IF valid
           THEN /\ file' = file \cup {image}
                /\ request' = [request EXCEPT ![r].left = @ - 1,
                                              ![r].written = @ \cup {image}]
           ELSE /\ request' = Ends(r)
                /\ UNCHANGED file
        /\ UNCHANGED <<ticket, message, mishaps>>

\* The status an answer leaves: decided on the status read before the files.
StatusAfter(r) ==
    LET t == request[r].on
    IN  IF request[r].kind = "admin" /\ request[r].seen = "open"
        THEN "in_progress" ELSE ticket[t]

\* The message, its attachment rows and the ticket's status are committed.
StoreMessage(r) ==
    /\ request[r].step = "files"
    /\ request[r].left = 0
    /\ message' = [message EXCEPT ![r] =
                      [in |-> request[r].on, images |-> request[r].written]]
    /\ ticket' = [ticket EXCEPT ![request[r].on] = StatusAfter(r)]
    /\ request' = [request EXCEPT ![r].step = "done", ![r].posted = TRUE]
    /\ UNCHANGED <<file, mishaps>>

\* Any status, at any time (update_status).
SetStatus(r, status) ==
    /\ MayStart(r)
    /\ \E t \in Tickets :
         /\ ticket[t] # "absent"
         /\ ticket' = [ticket EXCEPT ![t] = status]
    /\ request' = Ends(r)
    /\ UNCHANGED <<message, file, mishaps>>

\* Faulty variant: the files go first, and the rows would go after them.
FilesFirst(r, q) ==
    /\ file' = file \ message[q].images
    /\ UNCHANGED message
    /\ request' = [request EXCEPT ![r].step = "unlink", ![r].kind = "delete"]

\* The rows of message q are deleted and the deletion committed.
DeleteRows(r, q) ==
    /\ message' = [message EXCEPT ![q] = NoMessage]
    /\ request' = [request EXCEPT ![r].step = "unlink", ![r].kind = "delete",
                                  ![r].written = message[q].images]
    /\ UNCHANGED file

DeleteAdminMessage(r) ==
    /\ MayStart(r)
    /\ \E q \in Requests :
         request[q].kind = "admin" /\ request[q].posted /\ DeleteRows(r, q)
    /\ UNCHANGED <<ticket, mishaps>>

\* The files of the deleted message are unlinked; errors are only logged.
Unlink(r, works) ==
    /\ request[r].step = "unlink"
    /\ file' = IF works THEN file \ request[r].written ELSE file
    /\ request' = Ends(r)
    /\ UNCHANGED <<ticket, message, mishaps>>

\* A crash or a failed commit: the transaction is rolled back, files stay.
Breaks(r) ==
    /\ r \in Working
    /\ mishaps < MaxMishaps
    /\ mishaps' = mishaps + 1
    /\ request' = Ends(r)
    /\ UNCHANGED <<ticket, message, file>>

Next ==
    \E r \in Requests :
      \/ CountOpen(r) \/ InsertTicket(r)
      \/ \E kind \in {"user", "admin"}, n \in 0..MaxImages : ReadTicket(r, kind, n)
      \/ \E b \in BOOLEAN : SaveImage(r, b) \/ Unlink(r, b)
      \/ StoreMessage(r)
      \/ \E s \in Statuses \ {"absent"} : SetStatus(r, s)
      \/ DeleteAdminMessage(r)
      \/ Breaks(r)

Spec == Init /\ [][Next]_vars

TypeOK ==
    /\ ticket \in [Tickets -> Statuses]
    /\ message \in [Requests -> Message]
    /\ file \in SUBSET Images
    /\ request \in [Requests -> Request]
    /\ mishaps \in 0..MaxMishaps

(***************************************************************************)
(* Whatever fails, and in whatever order requests run, every attachment    *)
(* row a user may open has its file on disk.                               *)
(***************************************************************************)
RowsHaveFiles == \A r \in Requests : message[r].images \subseteq file

(***************************************************************************)
(* An account has at most MAX_OPEN_TICKETS open tickets.  False when two   *)
(* creations overlap, and when the admin sets tickets back to open.        *)
(***************************************************************************)
OpenLimit == Cardinality(Open) <= MaxOpen

(***************************************************************************)
(* A closed ticket is only reopened by the admin's own change of status.   *)
(* False when a reply that read it open is stored after it was closed.     *)
(***************************************************************************)
ClosedStaysClosed ==
    [][\A t \in Tickets, r \in Requests :
         request[r].step = "files" /\ request'[r].posted
           /\ request[r].on = t /\ ticket[t] = "closed"
             => ticket'[t] = "closed"]_vars

(***************************************************************************)
(* "no partial writes happen before a limit/type check fails"              *)
(* (validate_and_save_attachments): a file on disk belongs to a row or to  *)
(* a request at work, crashes and failed unlinks aside.  False: the images *)
(* before the first invalid one stay.                                      *)
(***************************************************************************)
NoPartialWrites ==
    \A r \in Requests :
      LET q == request[r]
      IN  (q.step = "done" /\ q.kind \in {"user", "admin"} /\ ~q.posted
             /\ mishaps = 0) => q.written = {}
=============================================================================
