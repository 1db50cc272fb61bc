------------------------- MODULE ApprovalQueue_proofs --------------------------
(***************************************************************************)
(* Proofs about ApprovalQueue, for any number of requests.                 *)
(*                                                                         *)
(* WindowShowsOldest survives an answer given out of order only because    *)
(* removing an entry behind the head leaves the head alone, and            *)
(* HiddenOnlyByUser needs to know that an app that is down has no queue.   *)
(***************************************************************************)
EXTENDS ApprovalQueue, SequenceTheorems, TLAPS

(* A response that is under way is the user's, or an error. *)
RepliesAreSaid ==
    \A r \in Request :
        conn[r] \in {"answering", "sent"} => reply[r] \in said[r] \cup {"error"}

(* The states of a call, and what its connection can carry then. *)
CallState ==
    \A r \in Request :
        /\ decision[r] # None => call[r] = "returned"
        /\ call[r] = "new" => conn[r] = "none"

DownIsEmpty == ~listening => pending = <<>> /\ ~isDND

IInv ==
    /\ TypeOK
    /\ WindowShowsOldest
    /\ HiddenOnlyByUser
    /\ AwaitedOnce
    /\ RepliesAreSaid
    /\ CallState
    /\ DownIsEmpty

-------------------------------------------------------------------------------
(* Queues. *)

LEMMA RemoveAtFacts ==
    ASSUME NEW S, NEW s \in Seq(S), NEW i \in 1..Len(s)
    PROVE  /\ RemoveAt(s, i) \in Seq(S)
           /\ Len(RemoveAt(s, i)) = Len(s) - 1
           /\ \A j \in 1..(Len(s) - 1) :
                 RemoveAt(s, i)[j] = IF j < i THEN s[j] ELSE s[j + 1]
<1> DEFINE a == SubSeq(s, 1, i - 1)
           b == SubSeq(s, i + 1, Len(s))
<1>1. a \in Seq(S) /\ Len(a) = i - 1 /\ \A j \in 1..(i - 1) : a[j] = s[j]
  BY SubSeqProperties
<1>2. b \in Seq(S) /\ Len(b) = Len(s) - i /\ \A j \in 1..(Len(s) - i) : b[j] = s[i + j]
  BY SubSeqProperties
<1> HIDE DEF a, b
<1>3. /\ a \o b \in Seq(S)
      /\ Len(a \o b) = Len(a) + Len(b)
      /\ \A j \in 1..(Len(a) + Len(b)) :
            (a \o b)[j] = IF j <= Len(a) THEN a[j] ELSE b[j - Len(a)]
  BY <1>1, <1>2, ConcatProperties
<1>4. Len(s) \in Nat /\ Len(a) + Len(b) = Len(s) - 1
  BY <1>1, <1>2, LenProperties
<1>5. ASSUME NEW j \in 1..(Len(s) - 1)
      PROVE  (a \o b)[j] = IF j < i THEN s[j] ELSE s[j + 1]
  <2>1. CASE j < i
    BY <1>1, <1>3, <1>4, <2>1
  <2>2. CASE ~(j < i)
    <3>1. (a \o b)[j] = b[j - (i - 1)] /\ j - (i - 1) \in 1..(Len(s) - i)
      BY <1>1, <1>3, <1>4, <2>2
    <3>2. b[j - (i - 1)] = s[i + (j - (i - 1))] /\ i + (j - (i - 1)) = j + 1
      BY <1>2, <1>4, <3>1
    <3> QED
      BY <2>2, <3>1, <3>2
  <2> QED
    BY <2>1, <2>2
<1> QED
  BY <1>3, <1>4, <1>5 DEF RemoveAt, a, b

(* In a queue without repetitions, exactly the removed entry is gone. *)
LEMMA RemoveAtSet ==
    ASSUME NEW s \in Seq(Request), NEW i \in 1..Len(s),
           \A j, k \in 1..Len(s) : s[j] = s[k] => j = k
    PROVE  /\ ToSet(RemoveAt(s, i)) = ToSet(s) \ {s[i]}
           /\ \A j, k \in 1..Len(RemoveAt(s, i)) :
                 RemoveAt(s, i)[j] = RemoveAt(s, i)[k] => j = k
<1> DEFINE t == RemoveAt(s, i)
<1>1. /\ t \in Seq(Request)
      /\ Len(t) = Len(s) - 1
      /\ \A j \in 1..(Len(s) - 1) : t[j] = IF j < i THEN s[j] ELSE s[j + 1]
  BY RemoveAtFacts
<1> HIDE DEF t
<1>2. ASSUME NEW r \in ToSet(t) PROVE r \in ToSet(s) \ {s[i]}
  <2>1. PICK j \in 1..(Len(s) - 1) : t[j] = r
    BY <1>1, <1>2 DEF ToSet
  <2>2. CASE j < i
    BY <1>1, <2>1, <2>2, SMTT(30) DEF ToSet
  <2>3. CASE ~(j < i)
    BY <1>1, <2>1, <2>3 DEF ToSet
  <2> QED
    BY <2>2, <2>3
<1>3. ASSUME NEW r \in ToSet(s) \ {s[i]} PROVE r \in ToSet(t)
  <2>1. PICK k \in 1..Len(s) : s[k] = r /\ k # i
    BY <1>3 DEF ToSet
  <2>2. CASE k < i
    <3>1. k \in 1..(Len(s) - 1) /\ t[k] = r
      BY <1>1, <2>1, <2>2
    <3> QED
      BY <1>1, <3>1 DEF ToSet
  <2>3. CASE k > i
    <3>1. k - 1 \in 1..(Len(s) - 1) /\ t[k - 1] = r
      BY <1>1, <2>1, <2>3
    <3> QED
      BY <1>1, <3>1 DEF ToSet
  <2> QED
    BY <2>1, <2>2, <2>3
<1>4. ASSUME NEW j \in 1..Len(t), NEW k \in 1..Len(t), t[j] = t[k] PROVE j = k
  BY <1>1, <1>4, SMTT(30)
<1>5. ToSet(t) = ToSet(s) \ {s[i]}
  BY <1>2, <1>3
<1> QED
  BY <1>4, <1>5 DEF t

(* The head of a queue from which an entry was removed. *)
LEMMA RemoveAtHead ==
    ASSUME NEW s \in Seq(Request), NEW i \in 1..Len(s), i # 1
    PROVE  RemoveAt(s, i) # <<>> /\ Head(RemoveAt(s, i)) = Head(s)
<1>1. Len(RemoveAt(s, i)) = Len(s) - 1 /\ RemoveAt(s, i) \in Seq(Request)
  BY RemoveAtFacts
<1>2. RemoveAt(s, i)[1] = s[1]
  <2>1. 1 \in 1..(Len(s) - 1)
    BY LenProperties
  <2> QED
    BY <2>1, RemoveAtFacts
<1>3. Len(RemoveAt(s, i)) # 0
  BY <1>1
<1> QED
  BY <1>1, <1>2, <1>3, EmptySeq

LEMMA HeadIsRequest ==
    ASSUME NEW q \in Seq(Request), q # <<>>
    PROVE  Head(q) \in Request /\ Head(q) # None
BY HeadTailProperties, NoneIsFresh

LEMMA OpenIsTyped ==
    ASSUME NEW q \in Seq(Request), NEW w \in Request \cup {None}, NEW dnd
    PROVE  Open(w, q, dnd) \in Request \cup {None}
BY HeadIsRequest DEF Open

-------------------------------------------------------------------------------
(* Steps. *)

LEMMA InitIInv == Init => IInv
<1> SUFFICES ASSUME Init PROVE IInv
  OBVIOUS
<1> USE DEF Init
<1>1. TypeOK
  BY EmptySeq DEF TypeOK, Answer
<1>2. WindowShowsOldest /\ HiddenOnlyByUser /\ RepliesAreSaid /\ CallState /\ DownIsEmpty
  BY DEF WindowShowsOldest, HiddenOnlyByUser, RepliesAreSaid, CallState, DownIsEmpty
<1>3. AwaitedOnce
  BY DEF AwaitedOnce, ToSet
<1> QED
  BY <1>1, <1>2, <1>3 DEF IInv

LEMMA StutterKeepsIInv ==
    ASSUME IInv, UNCHANGED vars
    PROVE  IInv'
BY DEF IInv, vars, client, socket, app, history, TypeOK, WindowShowsOldest, HiddenOnlyByUser,
       AwaitedOnce, RepliesAreSaid, CallState, DownIsEmpty

(* The processes never touch the app, nor a connection that is queued. *)
LEMMA ProcessKeepsIInv ==
    ASSUME IInv, NEW r \in Request,
           \/ Connect(r) \/ ConnectFails(r) \/ Receive(r) \/ GiveUp(r) \/ Fallback(r)
    PROVE  IInv'
<1> USE DEF IInv, Answer, Connect, ConnectFails, Receive, GiveUp, Fallback, socket, app, history
<1>1. TypeOK'
  BY DEF TypeOK
<1>2. WindowShowsOldest' /\ HiddenOnlyByUser' /\ DownIsEmpty'
  BY DEF WindowShowsOldest, HiddenOnlyByUser, DownIsEmpty
<1>3. AwaitedOnce'
  BY DEF TypeOK, AwaitedOnce, CallState
<1>4. RepliesAreSaid'
  BY DEF TypeOK, RepliesAreSaid
<1>5. CallState'
  BY DEF TypeOK, CallState
<1> QED
  BY <1>1, <1>2, <1>3, <1>4, <1>5

LEMMA ReadRequestKeepsIInv ==
    ASSUME IInv, NEW r \in Request, ReadRequest(r)
    PROVE  IInv'
<1> USE DEF IInv, ReadRequest, Enqueue, client, history
<1>1. /\ pending \in Seq(Request)
      /\ pending' = Append(pending, r)
      /\ r \notin ToSet(pending)
  BY DEF TypeOK, AwaitedOnce
<1>2. /\ pending' \in Seq(Request) /\ pending' # <<>>
      /\ Len(pending') = Len(pending) + 1
      /\ \A i \in 1..Len(pending) : pending'[i] = pending[i]
      /\ pending'[Len(pending) + 1] = r
      /\ Head(pending') = IF pending = <<>> THEN r ELSE Head(pending)
  BY <1>1
<1>3. TypeOK'
  BY <1>2, OpenIsTyped DEF TypeOK
<1>4. WindowShowsOldest' /\ HiddenOnlyByUser' /\ DownIsEmpty'
  BY <1>2, NoneIsFresh DEF WindowShowsOldest, HiddenOnlyByUser, DownIsEmpty, Open
<1>5. AwaitedOnce'
  <2>1. ToSet(pending') = ToSet(pending) \cup {r}
    BY <1>1, <1>2 DEF ToSet
  <2>2. \A i, j \in 1..Len(pending') : pending'[i] = pending'[j] => i = j
    BY <1>1, <1>2 DEF AwaitedOnce, ToSet
  <2> QED
    BY <2>1, <2>2 DEF TypeOK, AwaitedOnce
<1>6. RepliesAreSaid' /\ CallState'
  BY DEF TypeOK, RepliesAreSaid, CallState
<1> QED
  BY <1>3, <1>4, <1>5, <1>6

LEMMA ConnectionKeepsIInv ==
    ASSUME IInv, NEW r \in Request, ReadRequestFails(r) \/ SendResponse(r)
    PROVE  IInv'
<1> USE DEF IInv, ReadRequestFails, SendResponse, client, app, history
<1>1. TypeOK'
  BY DEF TypeOK
<1>2. WindowShowsOldest' /\ HiddenOnlyByUser' /\ DownIsEmpty'
  BY DEF WindowShowsOldest, HiddenOnlyByUser, DownIsEmpty
<1>3. AwaitedOnce'
  BY DEF TypeOK, AwaitedOnce
<1>4. RepliesAreSaid' /\ CallState'
  BY DEF TypeOK, RepliesAreSaid, CallState
<1> QED
  BY <1>1, <1>2, <1>3, <1>4

LEMMA RespondKeepsIInv ==
    ASSUME IInv, NEW i \in 1..Len(pending), NEW a \in Answer, Respond(i, a)
    PROVE  IInv'
<1> DEFINE r == pending[i]
           rest == RemoveAt(pending, i)
<1> USE DEF IInv
<1>1. /\ pending \in Seq(Request) /\ r \in Request /\ r # None
      /\ rest \in Seq(Request)
      /\ ToSet(rest) = ToSet(pending) \ {r}
      /\ \A j, k \in 1..Len(rest) : rest[j] = rest[k] => j = k
      /\ i # 1 => rest # <<>> /\ Head(rest) = Head(pending)
      /\ i = 1 => r = Head(pending)
      /\ pending # <<>>
      /\ rest # <<>> => Head(rest) \in Request /\ Head(rest) # None
  <2>1. pending \in Seq(Request) /\ r \in Request /\ r # None
    BY NoneIsFresh DEF TypeOK
  <2>2. rest \in Seq(Request)
    BY <2>1, RemoveAtFacts
  <2>3. /\ ToSet(rest) = ToSet(pending) \ {r}
        /\ \A j, k \in 1..Len(rest) : rest[j] = rest[k] => j = k
    BY <2>1, RemoveAtSet DEF AwaitedOnce
  <2>4. i # 1 => rest # <<>> /\ Head(rest) = Head(pending)
    BY <2>1, RemoveAtHead
  <2>5. pending # <<>> /\ (i = 1 => r = Head(pending))
    BY <2>1, LenProperties
  <2> QED
    BY <2>1, <2>2, <2>3, <2>4, <2>5, HeadIsRequest
<1>2. /\ pending' = rest
      /\ window' = IF i = 1 THEN Open(Close(window, r), rest, isDND) ELSE window
      /\ conn' = [conn EXCEPT ![r] = "answering"]
      /\ reply' = [reply EXCEPT ![r] = a]
      /\ said' = [said EXCEPT ![r] = @ \cup {a}]
      /\ UNCHANGED <<call, decision, listening, isDND, dismissed>>
  BY DEF Respond, client
<1> HIDE DEF r, rest
<1>3. TypeOK'
  BY <1>1, <1>2 DEF TypeOK, Open, Close, Answer
<1>4. WindowShowsOldest' /\ HiddenOnlyByUser' /\ DownIsEmpty'
  BY <1>1, <1>2 DEF WindowShowsOldest, HiddenOnlyByUser, DownIsEmpty, Open, Close
<1>5. AwaitedOnce'
  BY <1>1, <1>2 DEF TypeOK, AwaitedOnce
<1>6. RepliesAreSaid'
  BY <1>1, <1>2 DEF TypeOK, RepliesAreSaid
<1>7. CallState'
  <2>1. r \in ToSet(pending)
    BY DEF r, ToSet, TypeOK
  <2> QED
    BY <1>1, <1>2, <2>1 DEF TypeOK, CallState, AwaitedOnce
<1> QED
  BY <1>3, <1>4, <1>5, <1>6, <1>7

LEMMA WindowsKeepIInv ==
    ASSUME IInv, CloseWindow \/ OpenFromMenu \/ BeginDND \/ EndDND
    PROVE  IInv'
<1> USE DEF IInv, CloseWindow, OpenFromMenu, BeginDND, EndDND, Open, client, socket, history
<1>1. TypeOK'
  BY HeadIsRequest DEF TypeOK
<1>2. WindowShowsOldest' /\ HiddenOnlyByUser' /\ DownIsEmpty'
  BY HeadIsRequest DEF TypeOK, WindowShowsOldest, HiddenOnlyByUser, DownIsEmpty
<1>3. AwaitedOnce' /\ RepliesAreSaid' /\ CallState'
  BY DEF AwaitedOnce, RepliesAreSaid, CallState
<1> QED
  BY <1>1, <1>2, <1>3

LEMMA RestartKeepsIInv ==
    ASSUME IInv, AppStops \/ AppStarts
    PROVE  IInv'
<1> USE DEF IInv, AppStops, AppStarts, client, socket, history
<1>1. TypeOK'
  BY EmptySeq DEF TypeOK
<1>2. WindowShowsOldest' /\ HiddenOnlyByUser' /\ DownIsEmpty'
  BY DEF WindowShowsOldest, HiddenOnlyByUser, DownIsEmpty
<1>3. AwaitedOnce'
  BY DEF TypeOK, AwaitedOnce, ToSet
<1>4. RepliesAreSaid' /\ CallState'
  BY DEF TypeOK, RepliesAreSaid, CallState
<1> QED
  BY <1>1, <1>2, <1>3, <1>4

LEMMA NextIInv ==
    ASSUME IInv, [Next]_vars
    PROVE  IInv'
<1>1. CASE AnswerInWindow \/ AnswerInMenu
  <2>1. AnswerInWindow => 1 \in 1..Len(pending)
    BY DEF IInv, TypeOK, WindowShowsOldest, AnswerInWindow
  <2> QED
    BY <1>1, <2>1, RespondKeepsIInv DEF AnswerInWindow, AnswerInMenu
<1>2. CASE ~(AnswerInWindow \/ AnswerInMenu)
  BY <1>2, StutterKeepsIInv, ProcessKeepsIInv, ReadRequestKeepsIInv, ConnectionKeepsIInv,
     WindowsKeepIInv, RestartKeepsIInv
  DEF Next
<1> QED
  BY <1>1, <1>2

(* The inductive invariant holds of every behaviour. *)
THEOREM SpecIInv == Spec => []IInv
BY InitIInv, NextIInv, PTL DEF Spec

(* Every variable keeps its type. *)
THEOREM SpecTypeOK == Spec => []TypeOK
<1>1. IInv => TypeOK
  BY DEF IInv
<1> QED
  BY <1>1, SpecIInv, PTL

(* The window always belongs to the oldest waiting request. *)
THEOREM SpecWindowShowsOldest == Spec => []WindowShowsOldest
<1>1. IInv => WindowShowsOldest
  BY DEF IInv
<1> QED
  BY <1>1, SpecIInv, PTL

(* No wake-up is lost: only the user hides the head of the queue. *)
THEOREM SpecHiddenOnlyByUser == Spec => []HiddenOnlyByUser
<1>1. IInv => HiddenOnlyByUser
  BY DEF IInv
<1> QED
  BY <1>1, SpecIInv, PTL

(* Every awaiting handler has exactly one place in the queue. *)
THEOREM SpecAwaitedOnce == Spec => []AwaitedOnce
<1>1. IInv => AwaitedOnce
  BY DEF IInv
<1> QED
  BY <1>1, SpecIInv, PTL

-------------------------------------------------------------------------------
(* ApprovalQueue implements AskUser. *)

LEMMA StepImplementsAskUser ==
    ASSUME IInv, [Next]_vars
    PROVE  [Promise!Next]_(Promise!vars)
<1> USE DEF IInv, TypeOK, Answer
<1> USE DEF Promise!Next, Promise!vars, Promise!Decide, Promise!Say, Promise!SayAndDecide,
            Promise!Answer
<1>1. ASSUME NEW r \in Request, Receive(r)
      PROVE  Promise!Decide(r) \/ UNCHANGED <<said, decision>>
  BY <1>1, NoneIsFresh DEF Receive, RepliesAreSaid, CallState, history
<1>2. ASSUME NEW r \in Request, Fallback(r)
      PROVE  Promise!Decide(r) \/ \E a \in Answer : Promise!SayAndDecide(r, a)
  BY <1>2, NoneIsFresh DEF Fallback, CallState
<1>3. ASSUME NEW i \in 1..Len(pending), NEW a \in Answer, Respond(i, a)
      PROVE  \E r \in Request : Promise!Say(r, a)
  <2>1. pending[i] \in Request
    OBVIOUS
  <2> QED
    BY <1>3, <2>1 DEF Respond, client
<1>4. CASE AnswerInWindow \/ AnswerInMenu
  <2>1. AnswerInWindow => 1 \in 1..Len(pending)
    BY DEF WindowShowsOldest, AnswerInWindow
  <2> QED
    BY <1>3, <1>4, <2>1 DEF AnswerInWindow, AnswerInMenu
<1>5. CASE \/ \E r \in Request :
                \/ Connect(r) \/ ConnectFails(r) \/ GiveUp(r)
                \/ ReadRequest(r) \/ ReadRequestFails(r) \/ SendResponse(r)
           \/ CloseWindow \/ OpenFromMenu \/ BeginDND \/ EndDND \/ AppStops \/ AppStarts
           \/ UNCHANGED vars
  BY <1>5 DEF Connect, ConnectFails, GiveUp, ReadRequest, ReadRequestFails, SendResponse,
     CloseWindow, OpenFromMenu, BeginDND, EndDND, AppStops, AppStarts, vars, client, history
<1> QED
  BY <1>1, <1>2, <1>4, <1>5 DEF Next

(* A call returns the user's answer to its own request or none, and returns *)
(* once: every behaviour of ApprovalQueue is one of AskUser.                *)
THEOREM SpecImplementsAskUser == Spec => ImplementsAskUser
<1>1. Init => Promise!Init
  BY DEF Init, Promise!Init
<1>2. IInv /\ [Next]_vars => [Promise!Next]_(Promise!vars)
  BY StepImplementsAskUser
<1> QED
  BY <1>1, <1>2, SpecIInv, PTL DEF Spec, Promise!Spec, ImplementsAskUser
===============================================================================
