----------------------------- MODULE ApprovalQueue -----------------------------
(***************************************************************************)
(* The menu bar app (app/Sources) and the ozm processes that ask it for    *)
(* approval (src/ozm/socket_client.py, src/ozm/approve.py).                *)
(*                                                                         *)
(* A process sends one request over its own connection and waits for at    *)
(* most 300 seconds; when it gets no usable answer it shows a dialog of    *)
(* its own.  The app queues requests and shows a window for the first one  *)
(* only.  Its handlers run one at a time on the main actor, so each is an  *)
(* action; a handler stops in the middle only where it awaits the user's   *)
(* answer, between ReadRequest and SendResponse.                           *)
(*                                                                         *)
(* History variables (not in the code): said, dismissed.                   *)
(*                                                                         *)
(* An operator named Action_Fault is Action with a plausible defect.  No   *)
(* specification uses it; it shows which property would catch the defect.  *)
(***************************************************************************)
EXTENDS Integers, SequencesExt

CONSTANTS
    Request,
    None

ASSUME NoneIsFresh == None \notin Request \cup {"allow", "deny", "nodialog", "error"}

VARIABLES
    call,       \* call[r]: where the process that asks r is
    decision,   \* decision[r]: what its call returned
    conn,       \* conn[r]: what the connection of r carries
    reply,      \* reply[r]: the response to r, once there is one
    listening,  \* the app is up
    pending,    \* the queue
    isDND,      \* "do not disturb"
    window,     \* the request on screen: presentedID
    said,       \* said[r]: the answers the user has given to r
    dismissed   \* requests whose window the user closed without answering

client == <<call, decision>>
socket == <<conn, reply>>
app == <<listening, pending, isDND, window>>
history == <<said, dismissed>>
vars == <<client, socket, app, history>>

Answer == {"allow", "deny"}

TypeOK ==
    /\ call \in [Request -> {"new", "waiting", "fallback", "returned"}]
    /\ decision \in [Request -> Answer \cup {"nodialog", None}]
    /\ conn \in [Request -> {"none", "arriving", "queued", "answering", "sent", "closed"}]
    /\ reply \in [Request -> Answer \cup {"error", None}]
    /\ listening \in BOOLEAN
    /\ pending \in Seq(Request)
    /\ isDND \in BOOLEAN
    /\ window \in Request \cup {None}
    /\ said \in [Request -> SUBSET Answer]
    /\ dismissed \subseteq Request

Init ==
    /\ call = [r \in Request |-> "new"]
    /\ decision = [r \in Request |-> None]
    /\ conn = [r \in Request |-> "none"]
    /\ reply = [r \in Request |-> None]
    /\ listening \in BOOLEAN
    /\ pending = <<>>
    /\ isDND = FALSE
    /\ window = None
    /\ said = [r \in Request |-> {}]
    /\ dismissed = {}

-------------------------------------------------------------------------------
(* The process that asks. *)

Connect(r) ==
    /\ listening
    /\ call[r] = "new"
    /\ call' = [call EXCEPT ![r] = "waiting"]
    /\ conn' = [conn EXCEPT ![r] = "arriving"]
    /\ UNCHANGED <<decision, reply, app, history>>

(* No trusted socket, or nobody behind it. *)
ConnectFails(r) ==
    /\ call[r] = "new"
    /\ call' = [call EXCEPT ![r] = "fallback"]
    /\ UNCHANGED <<decision, socket, app, history>>

Receive_Verbatim(r) ==
    /\ call[r] = "waiting"
    /\ conn[r] = "sent"
    /\ conn' = [conn EXCEPT ![r] = "closed"]
    /\ call' = [call EXCEPT ![r] = "returned"]
    /\ decision' = [decision EXCEPT ![r] = reply[r]]
    /\ UNCHANGED <<reply, app, history>>

(* An error from the app counts as no answer. *)
Receive(r) ==
    /\ call[r] = "waiting"
    /\ conn[r] = "sent"
    /\ conn' = [conn EXCEPT ![r] = "closed"]
    /\ IF reply[r] \in Answer
       THEN /\ call' = [call EXCEPT ![r] = "returned"]
            /\ decision' = [decision EXCEPT ![r] = reply[r]]
       ELSE /\ call' = [call EXCEPT ![r] = "fallback"]
            /\ UNCHANGED decision
    /\ UNCHANGED <<reply, app, history>>

(* The connection ends without an answer, or 300 seconds have passed.  In  *)
(* the second case the app is not told.                                    *)
GiveUp_OnClosedOnly(r) ==
    /\ call[r] = "waiting"
    /\ conn[r] = "closed"
    /\ call' = [call EXCEPT ![r] = "fallback"]
    /\ UNCHANGED <<decision, socket, app, history>>

GiveUp(r) ==
    /\ call[r] = "waiting"
    /\ call' = [call EXCEPT ![r] = "fallback"]
    /\ UNCHANGED <<decision, socket, app, history>>

(* The process's own dialog: an answer, or none within 300 seconds, or no  *)
(* dialog at all away from macOS.                                          *)
Fallback(r) ==
    /\ call[r] = "fallback"
    /\ call' = [call EXCEPT ![r] = "returned"]
    /\ \/ \E a \in Answer :
            /\ decision' = [decision EXCEPT ![r] = a]
            /\ said' = [said EXCEPT ![r] = @ \cup {a}]
       \/ decision' = [decision EXCEPT ![r] = "nodialog"] /\ UNCHANGED said
    /\ UNCHANGED <<socket, app, dismissed>>

-------------------------------------------------------------------------------
(* The app's windows. *)

(* One window at a time: while one is open, open() changes nothing. *)
Open(w, q, dnd) == IF w = None /\ ~dnd /\ q # <<>> THEN Head(q) ELSE w

(* close(id:) *)
Close(w, r) == IF w = r THEN None ELSE w

-------------------------------------------------------------------------------
(* The app's handlers. *)

Enqueue_Unordered(r) ==
    /\ pending' = <<r>> \o pending
    /\ window' = IF pending = <<>> THEN Open(window, pending', isDND) ELSE window

(* Only a request that finds the queue empty is presented at once. *)
Enqueue(r) ==
    /\ pending' = Append(pending, r)
    /\ window' = IF pending = <<>> THEN Open(window, pending', isDND) ELSE window

ReadRequest(r) ==
    /\ listening
    /\ conn[r] = "arriving"
    /\ conn' = [conn EXCEPT ![r] = "queued"]
    /\ Enqueue(r)
    /\ UNCHANGED <<client, reply, listening, isDND, history>>

(* The first bytes received are not a whole request, or cannot be read. *)
ReadRequestFails(r) ==
    /\ listening
    /\ conn[r] = "arriving"
    /\ \/ /\ conn' = [conn EXCEPT ![r] = "sent"]
          /\ reply' = [reply EXCEPT ![r] = "error"]
       \/ /\ conn' = [conn EXCEPT ![r] = "closed"]
          /\ UNCHANGED reply
    /\ UNCHANGED <<client, app, history>>

Respond_DismissesNext(i, a) ==
    LET r == pending[i]
    IN  /\ pending' = RemoveAt(pending, i)
        /\ window' = None
        /\ conn' = [conn EXCEPT ![r] = "answering"]
        /\ reply' = [reply EXCEPT ![r] = a]
        /\ said' = [said EXCEPT ![r] = @ \cup {a}]
        /\ UNCHANGED <<client, listening, isDND, dismissed>>

Respond_ResumesHead(i, a) ==
    LET r == pending[i]
        rest == RemoveAt(pending, i)
        closed == IF i = 1 THEN Close(window, r) ELSE window
    IN  /\ pending' = rest
        /\ window' = IF i = 1 THEN Open(closed, rest, isDND) ELSE closed
        /\ conn' = [conn EXCEPT ![Head(pending)] = "answering"]
        /\ reply' = [reply EXCEPT ![Head(pending)] = a]
        /\ said' = [said EXCEPT ![r] = @ \cup {a}]
        /\ UNCHANGED <<client, listening, isDND, dismissed>>

(* The user answers the i-th request, in its window or in the menu; the    *)
(* first one's window gives way to that of the next.                       *)
Respond(i, a) ==
    LET r == pending[i]
        rest == RemoveAt(pending, i)
        closed == IF i = 1 THEN Close(window, r) ELSE window
    IN  /\ pending' = rest
        /\ window' = IF i = 1 THEN Open(closed, rest, isDND) ELSE closed
        /\ conn' = [conn EXCEPT ![r] = "answering"]
        /\ reply' = [reply EXCEPT ![r] = a]
        /\ said' = [said EXCEPT ![r] = @ \cup {a}]
        /\ UNCHANGED <<client, listening, isDND, dismissed>>

AnswerInWindow ==
    /\ window # None
    /\ window = Head(pending)
    /\ \E a \in Answer : Respond(1, a)

AnswerInMenu == \E i \in 1..Len(pending), a \in Answer : Respond(i, a)

(* The awaiting handler goes on; the process may no longer be there. *)
SendResponse(r) ==
    /\ conn[r] = "answering"
    /\ conn' = [conn EXCEPT ![r] = IF call[r] = "waiting" THEN "sent" ELSE "closed"]
    /\ UNCHANGED <<client, reply, app, history>>

(* The window's close button: the request stays where it is. *)
CloseWindow ==
    /\ window # None
    /\ window' = None
    /\ dismissed' = dismissed \cup {window}
    /\ UNCHANGED <<client, socket, listening, pending, isDND, said>>

OpenFromMenu ==
    /\ pending # <<>>
    /\ window' = Open(window, pending, FALSE)
    /\ UNCHANGED <<client, socket, listening, pending, isDND, history>>

BeginDND ==
    /\ listening
    /\ ~isDND
    /\ isDND' = TRUE
    /\ UNCHANGED <<client, socket, listening, pending, window, history>>

EndDND_Silently ==
    /\ isDND
    /\ isDND' = FALSE
    /\ UNCHANGED <<client, socket, listening, pending, window, history>>

EndDND ==
    /\ isDND
    /\ isDND' = FALSE
    /\ window' = Open(window, pending, FALSE)
    /\ UNCHANGED <<client, socket, listening, pending, history>>

(* The app quits or crashes: every connection it holds is gone. *)
AppStops ==
    /\ listening
    /\ listening' = FALSE
    /\ pending' = <<>>
    /\ window' = None
    /\ isDND' = FALSE
    /\ conn' = [r \in Request |->
                   IF conn[r] \in {"arriving", "queued", "answering"} THEN "closed" ELSE conn[r]]
    /\ UNCHANGED <<client, reply, history>>

AppStarts ==
    /\ ~listening
    /\ listening' = TRUE
    /\ UNCHANGED <<client, socket, pending, isDND, window, history>>

-------------------------------------------------------------------------------

Next ==
    \/ \E r \in Request :
         \/ Connect(r) \/ ConnectFails(r) \/ Receive(r) \/ GiveUp(r) \/ Fallback(r)
         \/ ReadRequest(r) \/ ReadRequestFails(r) \/ SendResponse(r)
    \/ AnswerInWindow \/ AnswerInMenu
    \/ CloseWindow \/ OpenFromMenu
    \/ BeginDND \/ EndDND
    \/ AppStops \/ AppStarts

Spec == Init /\ [][Next]_vars

(* Both waits of a process are bounded by timeouts in the code. *)
ProcessFairness == \A r \in Request : WF_vars(GiveUp(r)) /\ WF_vars(Fallback(r))

(* The main actor runs what is scheduled on it; a user who is not gone     *)
(* answers the window on screen and does not leave "do not disturb" on.    *)
AppFairness ==
    /\ \A r \in Request : WF_vars(ReadRequest(r)) /\ WF_vars(SendResponse(r))
    /\ WF_vars(AnswerInWindow)
    /\ WF_vars(EndDND)

FairSpec == Spec /\ ProcessFairness /\ AppFairness

-------------------------------------------------------------------------------
(* Properties. *)

(* The window always belongs to the oldest request that waits, also when   *)
(* younger ones are answered first in the menu                             *)
(* (ApprovalWindowManager.swift:10-13, ApprovalQueue.swift:42-53).         *)
WindowShowsOldest == window # None => pending # <<>> /\ window = Head(pending)

(* A request waits unseen at the head of the queue only because the user   *)
(* wants no windows or has closed this one: no arrival, answer or restart  *)
(* in any order loses the wake-up (ApprovalQueue.swift:29-39, 50-52, 84-87).*)
HiddenOnlyByUser ==
    pending # <<>> /\ window = None => isDND \/ Head(pending) \in dismissed

(* Every handler that awaits an answer has exactly one place in the queue, *)
(* so it is resumed once and never forgotten (SocketServer.swift:146-150). *)
AwaitedOnce ==
    /\ \A r \in Request : conn[r] = "queued" <=> r \in ToSet(pending)
    /\ \A i, j \in 1..Len(pending) : pending[i] = pending[j] => i = j

(* A call returns the user's own answer to that request or none at all,    *)
(* through timeouts, restarts and late answers.                            *)
Promise == INSTANCE AskUser

ImplementsAskUser == Promise!Spec

(* Every call returns: no process waits for ever (socket_client.py:45,     *)
(* approve.py:528-537).                                                    *)
EveryCallReturns == \A r \in Request : call[r] = "waiting" ~> call[r] = "returned"

(* With a user who answers what is shown, every queued request leaves the  *)
(* queue, unless the user once closed a window without answering.          *)
QueueDrains ==
    \A r \in Request : conn[r] = "queued" ~> conn[r] # "queued" \/ dismissed # {}
===============================================================================
