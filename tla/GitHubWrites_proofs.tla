-------------------------- MODULE GitHubWrites_proofs --------------------------
(***************************************************************************)
(* Proofs about GitHubWrites, for any number of calls, any requests, files,*)
(* manifests and rule files.                                               *)
(*                                                                         *)
(* What a call changes on GitHub was fixed when the user agreed, many      *)
(* steps earlier.  The inductive invariant says what has been settled at   *)
(* each place: what the request is known to be, how much of the batch has  *)
(* been read, what the agreement is, and how many changes it is behind.    *)
(*                                                                         *)
(* That a GraphQL document taken for a query is one GitHub executes as a   *)
(* query is proved for documents of any length: the parser's operations    *)
(* are those of the document (by induction from its last definition), and  *)
(* the one it selects is the one GitHub executes.                          *)
(***************************************************************************)
EXTENDS GitHubWrites, Induction, FiniteSetTheorems, SequenceTheorems, TLAPS

Preparing == {"manifest", "texts", "policy", "operation", "gate", "review"}
Creating(p) == pc[p] = "create" \/ (pc[p] = "gh" /\ run[p] = None)

(* What has passed _validate_github_proxy_args. *)
Vetted(r) ==
    /\ r \in Request
    /\ ~RawWrite(r)
    /\ r.verb \in Typed \cup {"issue.create-batch"} => WellFormed(r)

RequestKnown(p) ==
    /\ pc[p] \in Preparing \/ Creating(p) => Vetted(request[p])
    /\ pc[p] \in {"manifest", "texts", "review"} \/ Creating(p)
          => request[p].verb = "issue.create-batch"
    /\ pc[p] = "operation" => request[p].verb \in Typed
    /\ pc[p] \in Preparing \cup {"idle", "create"} => run[p] = None
    /\ pc[p] = "run" => run[p] # None
    /\ run[p] # None => Vetted(run[p])

BatchKnown(p) ==
    /\ pc[p] \in {"idle", "manifest", "ended", "killed"} => frozen[p] = <<>>
    /\ pc[p] = "texts" => batch[p] # <<>> /\ Len(frozen[p]) + Len(batch[p]) <= MaxIssues
    /\ pc[p] = "policy" /\ request[p].verb = "issue.create-batch"
          => frozen[p] # <<>> /\ Len(frozen[p]) <= MaxIssues
    /\ pc[p] = "review" => frozen[p] # <<>> /\ Len(frozen[p]) <= MaxIssues
    /\ Creating(p) => done[p] < Len(frozen[p]) /\ Len(frozen[p]) <= MaxIssues
    /\ ~Creating(p) => done[p] = 0

Reviewed(p) == [i \in DOMAIN frozen[p] |-> {NewIssue(request[p], frozen[p][i])}]

AgreementKept(p) ==
    /\ pc[p] \in Preparing \cup {"idle"} => agreed[p] = <<>>
    /\ Len(made[p]) + Underway(p) <= Len(agreed[p])
    /\ \A i \in DOMAIN made[p] : made[p][i] \in agreed[p][i]
    /\ sent[p] # None => sent[p] \in agreed[p][Len(made[p]) + 1]
    /\ pc[p] = "run" => made[p] = <<>> /\ sent[p] = None
    /\ run[p] # None => agreed[p] = <<Fulfilling(run[p])>>
    /\ run[p] = None => \A i \in DOMAIN agreed[p] : \A x \in agreed[p][i] : x.op = "issue"
    /\ Creating(p) => agreed[p] = Reviewed(p) /\ done[p] <= Len(made[p])
                      /\ Len(made[p]) + Underway(p) <= done[p] + 1
    /\ pc[p] = "create" => sent[p] = None /\ Len(made[p]) = done[p]

EntryTrue(p) ==
    /\ pc[p] = "ended" => CountsChanges(p)
    /\ pc[p] \in Preparing \cup {"idle"} \/ Creating(p) => logged[p] = NoEntry
    /\ pc[p] \in {"run", "gh"} /\ run[p] # None
          => logged[p].action \in
                {"override", "operation", "semantic", "config", "cached", "clicked"}
    /\ logged[p].action \in {"operation", "semantic"} => run[p] # None
    /\ logged[p].action = "semantic" => KnownRead(run[p])
    /\ logged[p].action = "operation"
          => run[p].verb \in Typed /\ Permits(authorized[p], run[p])

PolicyKnown(p) ==
    /\ pc[p] # "operation" => conf[p] = None
    /\ pc[p] \in Preparing =>
          /\ \A s \in Scope : policy[s] \subseteq authorized[p]
          /\ conf[p] # None => conf[p] \subseteq authorized[p]

CallInv(p) ==
    /\ RequestKnown(p)
    /\ BatchKnown(p)
    /\ AgreementKept(p)
    /\ EntryTrue(p)
    /\ PolicyKnown(p)

IInv == TypeOK /\ \A p \in Call : CallInv(p)

-------------------------------------------------------------------------------
(* Steps of one call. *)

LeavesAlone(q) ==
    /\ policy' = policy
    /\ pc'[q] = pc[q] /\ request'[q] = request[q] /\ run'[q] = run[q]
    /\ batch'[q] = batch[q] /\ frozen'[q] = frozen[q] /\ conf'[q] = conf[q]
    /\ done'[q] = done[q] /\ sent'[q] = sent[q] /\ logged'[q] = logged[q]
    /\ made'[q] = made[q] /\ agreed'[q] = agreed[q] /\ authorized'[q] = authorized[q]

(* What a step of p has to establish. *)
Keeps(p) ==
    /\ TypeOK'
    /\ CallInv(p)'
    /\ \A q \in Call \ {p} : LeavesAlone(q)

(* The steps of a call do nothing to the others. *)
LEMMA Bystander ==
    ASSUME NEW q \in Call, CallInv(q), LeavesAlone(q)
    PROVE  CallInv(q)'
<1>1. RequestKnown(q)' BY DEF CallInv, LeavesAlone, RequestKnown, Creating
<1>2. BatchKnown(q)' BY DEF CallInv, LeavesAlone, BatchKnown, Creating
<1>3. AgreementKept(q)'
      BY DEF CallInv, LeavesAlone, AgreementKept, Creating, Reviewed, Underway
<1>4. EntryTrue(q)'
  <2>1. CountsChanges(q)' <=> CountsChanges(q) BY DEF LeavesAlone, CountsChanges, Underway
  <2>2. QED BY <2>1 DEF CallInv, LeavesAlone, EntryTrue, Creating
<1>5. PolicyKnown(q)' BY DEF CallInv, LeavesAlone, PolicyKnown
<1>6. QED BY <1>1, <1>2, <1>3, <1>4, <1>5 DEF CallInv

(* Sequences at either end. *)
LEMMA AppendFacts ==
    ASSUME NEW S, NEW s \in Seq(S), NEW x \in S
    PROVE  /\ Append(s, x) \in Seq(S)
           /\ Len(s) \in Nat /\ Len(Append(s, x)) = Len(s) + 1
           /\ Append(s, x) # <<>>
           /\ \A i \in 1..Len(s) : Append(s, x)[i] = s[i]
           /\ Append(s, x)[Len(s) + 1] = x
OBVIOUS

LEMMA TailFacts ==
    ASSUME NEW S, NEW s \in Seq(S), s # <<>>
    PROVE  /\ Tail(s) \in Seq(S)
           /\ Len(s) \in Nat \ {0} /\ Len(Tail(s)) = Len(s) - 1
           /\ Head(s) \in S
OBVIOUS

(* What a reader of the arguments looks at is finitely much. *)
LEMMA StartsCounted ==
    ASSUME NEW words \in Seq(Argument), NEW X, X \subseteq DOMAIN words
    PROVE  /\ IsFiniteSet(X)
           /\ Cardinality(X) \in Nat
           /\ Cardinality(X) = 0 <=> X = {}
           /\ Cardinality(X) = 1 <=> \E x : X = {x}
<1>1. DOMAIN words = 1..Len(words) /\ Len(words) \in Int OBVIOUS
<1>2. IsFiniteSet(DOMAIN words) BY <1>1, FS_Interval
<1>3. IsFiniteSet(X) BY <1>2, FS_Subset
<1>4. QED BY <1>3, FS_CardinalityType, FS_EmptySet, FS_Singleton

(* A request that gh takes goes to one endpoint. *)
LEMMA EndpointKnown ==
    ASSUME NEW r \in Request, r.verb = "api", Writes(r.words)
    PROVE  /\ Endpoint(r.words) \in {"graphql"} \cup Target \cup GetOnly
           /\ \E k \in DOMAIN r.words :
                /\ GhEndpoints(r.words) = {k}
                /\ Endpoint(r.words) = r.words[k].value
                /\ IsEndpoint(r.words[k], Endpoint(r.words))
<1>1. r.words \in Seq(Argument) BY RequestsAreTyped
<1>2. GhEndpoints(r.words) \subseteq DOMAIN r.words BY DEF GhEndpoints, Starts
<1>3. Cardinality(GhEndpoints(r.words)) = 1 BY DEF Writes, Accepted
<1>4. PICK k : GhEndpoints(r.words) = {k} BY <1>1, <1>2, <1>3, StartsCounted
<1>5. Endpoint(r.words) = r.words[k].value
  <2>1. (CHOOSE i \in {k} : TRUE) = k OBVIOUS
  <2>2. QED BY <1>4, <2>1 DEF Endpoint
<1>6. PICK e \in {"graphql"} \cup Target \cup GetOnly : IsEndpoint(r.words[k], e)
  BY <1>4, RequestsAreTyped
<1>7. e = Endpoint(r.words) BY <1>5, <1>6 DEF IsEndpoint
<1>8. QED BY <1>2, <1>4, <1>5, <1>6, <1>7

(* What a vetted request comes to is a set of changes. *)
LEMMA FulfillingTyped ==
    ASSUME NEW r, Vetted(r)
    PROVE  Fulfilling(r) \in SUBSET Change
<1>1. CASE r.verb = "pr.review-reply"
  <2>1. ValueOf(r.words, "--repo") \in Repository BY <1>1 DEF Vetted, WellFormed, Typed
  <2>2. "--body" \in Flags(r.words) => ValueOf(r.words, "--body") \in Text
        BY <1>1, RequestsAreTyped DEF Vetted, Typed
  <2>3. DEFINE T == IF "--body" \in Flags(r.words) THEN {ValueOf(r.words, "--body")}
                    ELSE Text \cup {Unfit}
  <2>4. Fulfilling(r) = {OnGitHub(r.verb, ValueOf(r.words, "--repo"), "", t) : t \in T}
        BY <1>1, Zenon DEF Fulfilling
  <2>5. T \subseteq Text \cup {Unfit} BY <2>2
  <2>6. ASSUME NEW t \in T
        PROVE  OnGitHub(r.verb, ValueOf(r.words, "--repo"), "", t) \in Change
        BY <1>1, <2>1, <2>5 DEF OnGitHub, Change, Typed
  <2>7. QED BY <2>4, <2>6
<1>2. CASE r.verb = "issue.add-sub-issue"
  <2>1. ValueOf(r.words, "--repo") \in Repository BY <1>2 DEF Vetted, WellFormed, Typed
  <2>2. QED BY <1>2, <2>1 DEF Fulfilling, OnGitHub, Change, Typed
<1>3. CASE r.verb = "api" /\ Writes(r.words)
  <2>1. Endpoint(r.words) \in {"graphql"} \cup Target \cup GetOnly
        BY <1>3, EndpointKnown DEF Vetted
  <2>2. QED BY <1>3, <2>1 DEF Fulfilling, OnGitHub, Change
<1>4. CASE r.verb \notin Typed /\ ~(r.verb = "api" /\ Writes(r.words))
      BY <1>4 DEF Fulfilling, Typed
<1>5. QED BY <1>1, <1>2, <1>3, <1>4 DEF Typed

(* So are the issues of a vetted batch. *)
LEMMA NewIssueTyped ==
    ASSUME NEW r, Vetted(r), r.verb = "issue.create-batch", NEW issue \in Issue
    PROVE  NewIssue(r, issue) \in Change
<1>1. ValueOf(r.words, "--repo") \in Repository BY DEF Vetted, WellFormed
<1>2. QED BY <1>1 DEF NewIssue, OnGitHub, Change, Issue

(* A call ends, with an entry that is true. *)
LEMMA EndKeeps ==
    ASSUME NEW p \in Call, IInv, End(p), CountsChanges(p)',
           NEW entry \in [action : Action \cup {None}, count : 0..MaxIssues],
           logged' = [logged EXCEPT ![p] = entry],
           entry.action \in {"operation", "semantic"} => entry = logged[p]
    PROVE  Keeps(p)
<1>1. TypeOK'
      BY MaxIssuesIsPositive, SMTT(30)
      DEF IInv, TypeOK, End, Goto, Forget, PC, world, outcome, history
<1>2. RequestKnown(p)'
      BY DEF IInv, TypeOK, CallInv, RequestKnown, End, Goto, Forget, Creating, Preparing
<1>3. BatchKnown(p)'
      BY DEF IInv, TypeOK, CallInv, BatchKnown, End, Goto, Forget, Creating, Preparing
<1>4. AgreementKept(p)'
      BY DEF IInv, TypeOK, CallInv, AgreementKept, End, Goto, Forget, Creating, Preparing,
             Underway, outcome, history
<1>5. EntryTrue(p)'
      BY DEF IInv, TypeOK, CallInv, EntryTrue, End, Goto, Forget, Creating, Preparing, history
<1>6. PolicyKnown(p)' BY DEF IInv, TypeOK, PolicyKnown, End, Goto, Forget, Preparing
<1>7. ASSUME NEW q \in Call \ {p} PROVE LeavesAlone(q)
      BY DEF IInv, TypeOK, LeavesAlone, End, Goto, Forget, world, outcome, history
<1>8. QED BY <1>1, <1>2, <1>3, <1>4, <1>5, <1>6, <1>7 DEF Keeps, CallInv

(* It may end without one at any time. *)
LEMMA AbortKeeps ==
    ASSUME NEW p \in Call, IInv, Abort(p),
           \/ pc[p] \in Preparing \cup {"idle"} \/ Creating(p)
           \/ pc[p] \in {"run", "gh"} /\ run[p] # None
    PROVE  Keeps(p)
<1>1. /\ End(p) /\ logged' = [logged EXCEPT ![p] = logged[p]]
      /\ logged[p] \in [action : Action \cup {None}, count : 0..MaxIssues]
      BY DEF Abort, IInv, TypeOK
<1>2. CountsChanges(p)'
  <2>1. made' = made /\ sent' = sent /\ logged' = logged /\ run' = run /\ agreed' = agreed
        BY DEF Abort, End, outcome, history
  <2>2. CASE pc[p] \in Preparing \cup {"idle"} \/ Creating(p)
    <3>1. logged[p].action = None /\ run[p] = None
          BY <2>2 DEF IInv, CallInv, EntryTrue, RequestKnown, NoEntry, Creating
    <3>2. QED BY <2>1, <3>1, SpecialsAreFresh DEF CountsChanges, Underway, Action
  <2>3. CASE pc[p] \in {"run", "gh"} /\ run[p] # None
    <3>1. Len(made[p]) + Underway(p) <= 1
          BY <2>3 DEF IInv, TypeOK, CallInv, AgreementKept, Underway
    <3>2. logged[p].action \in {"override", "operation", "semantic", "config", "cached", "clicked"}
          BY <2>3 DEF IInv, CallInv, EntryTrue
    <3>3. QED BY <2>1, <2>3, <3>1, <3>2, SpecialsAreFresh DEF CountsChanges, Underway, Action
  <2>4. QED BY <2>2, <2>3
<1>3. QED BY <1>1, <1>2, EndKeeps

(* Before anything was agreed it may end with any entry of a refusal. *)
LEMMA StopKeeps ==
    ASSUME NEW p \in Call, IInv, pc[p] \in Preparing \cup {"idle"},
           NEW action \in {"blocked", "denied", "no-dialog", "error"}, Stop(p, action)
    PROVE  Keeps(p)
<1>1. CASE Abort(p) BY <1>1, AbortKeeps
<1>2. CASE Log(p, action, 0) /\ End(p)
  <2>1. /\ End(p) /\ logged' = [logged EXCEPT ![p] = [action |-> action, count |-> 0]]
        /\ [action |-> action, count |-> 0]
              \in [action : Action \cup {None}, count : 0..MaxIssues]
        BY <1>2, MaxIssuesIsPositive DEF Log, Action
  <2>2. Len(made[p]) = 0 /\ Underway(p) = 0
        BY DEF IInv, TypeOK, CallInv, AgreementKept, Underway
  <2>3. CountsChanges(p)'
    <3>1. made' = made /\ sent' = sent /\ logged'[p].action = action /\ logged'[p].count = 0
          BY <2>1 DEF End, outcome, IInv, TypeOK
    <3>2. Len(made'[p]) = 0 /\ Underway(p)' = 0 BY <2>2, <3>1 DEF Underway
    <3>3. QED BY <3>1, <3>2 DEF CountsChanges
  <2>4. QED BY <2>1, <2>3, EndKeeps
<1>3. QED BY <1>1, <1>2 DEF Stop, Conclude

(* A request is handed to gh, with the reason why it may be. *)
LEMMA LaunchKeeps ==
    ASSUME NEW p \in Call, IInv, pc[p] \in {"policy", "operation", "gate"},
           NEW r, Vetted(r),
           NEW action \in {"override", "operation", "semantic", "config", "cached", "clicked"},
           action = "semantic" => KnownRead(r),
           action = "operation" => r.verb \in Typed /\ Permits(authorized[p], r),
           Launch(p, action, r), UNCHANGED <<world, batch, frozen, done, outcome, authorized>>,
           conf' = [conf EXCEPT ![p] = None]
    PROVE  Keeps(p)
<1> DEFINE F == Fulfilling(r)
<1>0. /\ F \in SUBSET Change /\ r \in Request /\ r # None /\ None \notin Request
      /\ action \in Action /\ 0 \in 0..MaxIssues
      BY FulfillingTyped, SpecialsAreFresh, MaxIssuesIsPositive DEF Vetted, Action
<1> HIDE DEF F
<1>1. /\ pc' = [pc EXCEPT ![p] = "run"]
      /\ logged' = [logged EXCEPT ![p] = [action |-> action, count |-> 0]]
      /\ run' = [run EXCEPT ![p] = r]
      /\ request' = [request EXCEPT ![p] = None]
      /\ agreed' = [agreed EXCEPT ![p] = <<F>>]
      BY DEF Launch, Goto, Log, F
<1>2. TypeOK'
  <2>0. <<F>> \in Seq(SUBSET Change) BY <1>0
  <2>1. agreed' \in [Call -> Seq(SUBSET Change)] BY <2>0, <1>1 DEF IInv, TypeOK
  <2>2. QED BY <1>0, <1>1, <2>1 DEF IInv, TypeOK, PC, world, outcome
<1>3. RequestKnown(p)'
      BY <1>0, <1>1 DEF IInv, TypeOK, RequestKnown, Creating, Preparing
<1>4. BatchKnown(p)'
      BY <1>0, <1>1 DEF IInv, TypeOK, CallInv, BatchKnown, RequestKnown, Creating, Preparing
<1>5. made[p] = <<>> /\ sent[p] = None
      BY DEF IInv, TypeOK, CallInv, AgreementKept, Preparing, Underway
<1>6. AgreementKept(p)'
  <2>1. made'[p] = <<>> /\ sent'[p] = None /\ run'[p] = r /\ agreed'[p] = <<F>> /\ pc'[p] = "run"
        BY <1>1, <1>5 DEF IInv, TypeOK, outcome
  <2>2. agreed'[p] = <<Fulfilling(r)>> BY <2>1 DEF F
  <2>3. QED BY <1>0, <2>1, <2>2 DEF AgreementKept, Preparing, Creating, Underway
<1>7. EntryTrue(p)'
  <2>1. /\ pc'[p] = "run" /\ run'[p] = r /\ logged'[p].action = action
        /\ authorized'[p] = authorized[p]
        BY <1>1 DEF IInv, TypeOK
  <2>2. QED BY <1>0, <2>1 DEF EntryTrue, Creating, Preparing
<1>8. PolicyKnown(p)' BY <1>1 DEF IInv, TypeOK, PolicyKnown, Preparing
<1>9. ASSUME NEW q \in Call \ {p} PROVE LeavesAlone(q)
      BY <1>1 DEF IInv, TypeOK, LeavesAlone, world, outcome
<1>10. QED BY <1>2, <1>3, <1>4, <1>6, <1>7, <1>8, <1>9 DEF Keeps, CallInv

LEMMA BeginKeeps ==
    ASSUME NEW p \in Call, NEW r \in Request, IInv, Begin(p, r)
    PROVE  Keeps(p)
<1>1. CASE Rejected(r) BY <1>1, StopKeeps DEF Begin
<1>2. CASE ~Rejected(r) /\ Invalid(r) BY <1>2, AbortKeeps DEF Begin
<1>3. CASE ~Rejected(r) /\ ~Invalid(r)
  <2>1. Vetted(r) /\ r # None
        BY <1>3, SpecialsAreFresh DEF Vetted, Rejected, Invalid
  <2>2. TypeOK'
    <3>1. policy["project"] \cup policy["global"] \in SUBSET Permission
          BY PoliciesAreTyped DEF IInv, TypeOK, Scope
    <3>2. authorized' \in [Call -> SUBSET Permission]
          BY <1>3, <3>1 DEF IInv, TypeOK, Begin
    <3>3. /\ pc' \in [Call -> PC] /\ request' \in [Call -> Request \cup {None}]
          /\ UNCHANGED <<world, work, run, logged, outcome, agreed>>
          BY <1>3 DEF IInv, TypeOK, Begin, Goto, PC
    <3>4. QED BY <3>2, <3>3 DEF IInv, TypeOK, world, work, outcome
  <2>3. pc'[p] \in {"manifest", "policy"} /\ request'[p] = r /\ run'[p] = None
        /\ (pc'[p] = "manifest" <=> r.verb = "issue.create-batch")
        BY <1>3 DEF IInv, TypeOK, CallInv, RequestKnown, Begin, Goto
  <2>4. RequestKnown(p)' BY <2>1, <2>3 DEF RequestKnown, Creating, Preparing
  <2>5. BatchKnown(p)'
        BY <1>3, <2>3 DEF IInv, CallInv, BatchKnown, Begin, Creating, work
  <2>6. AgreementKept(p)'
    <3>1. /\ made'[p] = made[p] /\ sent'[p] = sent[p] /\ agreed'[p] = agreed[p]
          /\ run[p] = None /\ pc[p] = "idle"
          BY <1>3, <2>3 DEF Begin, outcome
    <3>2. AgreementKept(p) BY DEF IInv, CallInv
    <3>3. QED BY <2>3, <3>1, <3>2 DEF AgreementKept, Creating, Preparing, Underway
  <2>7. EntryTrue(p)'
        BY <1>3, <2>3, SpecialsAreFresh
        DEF IInv, CallInv, EntryTrue, Begin, Creating, Preparing, NoEntry, Action
  <2>8. PolicyKnown(p)'
        BY <1>3, <2>3 DEF IInv, TypeOK, CallInv, PolicyKnown, Begin, world, work, Scope, Preparing
  <2>9. ASSUME NEW q \in Call \ {p} PROVE LeavesAlone(q)
        BY <1>3 DEF IInv, TypeOK, LeavesAlone, Begin, Goto, world, work, outcome
  <2>10. QED BY <2>2, <2>4, <2>5, <2>6, <2>7, <2>8, <2>9 DEF Keeps, CallInv
<1>4. QED BY <1>1, <1>2, <1>3

LEMMA ReadManifestKeeps ==
    ASSUME NEW p \in Call, IInv, ReadManifest(p)
    PROVE  Keeps(p)
<1>1. CASE Len(manifest) \notin 1..MaxIssues
      BY <1>1, AbortKeeps DEF ReadManifest, Preparing
<1>2. CASE Len(manifest) \in 1..MaxIssues
  <2>0. manifest \in Seq(Entry) BY ManifestsAreTyped DEF IInv, TypeOK
  <2>1. /\ pc' = [pc EXCEPT ![p] = "texts"]
        /\ batch' = [batch EXCEPT ![p] = manifest]
        /\ UNCHANGED <<world, request, frozen, conf, done, run, logged, outcome, history>>
        /\ pc[p] = "manifest"
        BY <1>2 DEF ReadManifest, Goto
  <2>2. manifest # <<>> /\ Len(manifest) <= MaxIssues /\ Len(<<>>) = 0
        /\ Len(manifest) \in Nat
        BY <1>2, <2>0, MaxIssuesIsPositive
  <2>3. TypeOK' BY <2>0, <2>1 DEF IInv, TypeOK, PC, world, outcome, history
  <2>4. RequestKnown(p)' BY <2>1 DEF IInv, TypeOK, CallInv, RequestKnown, Creating, Preparing
  <2>5. BatchKnown(p)'
    <3>1. /\ frozen'[p] = <<>> /\ batch'[p] = manifest /\ pc'[p] = "texts" /\ done'[p] = 0
          BY <2>1 DEF IInv, TypeOK, CallInv, BatchKnown, Creating
    <3>2. Len(frozen'[p]) + Len(batch'[p]) <= MaxIssues
          BY <2>2, <3>1, MaxIssuesIsPositive
    <3>3. QED BY <2>2, <3>1, <3>2 DEF BatchKnown, Creating
  <2>6. AgreementKept(p)'
        BY <2>1 DEF IInv, TypeOK, CallInv, AgreementKept, Creating, Preparing, Underway,
               outcome, history
  <2>7. EntryTrue(p)'
        BY <2>1 DEF IInv, TypeOK, CallInv, EntryTrue, Creating, Preparing, history
  <2>8. PolicyKnown(p)'
        BY <2>1 DEF IInv, TypeOK, CallInv, PolicyKnown, Preparing, world, history
  <2>9. ASSUME NEW q \in Call \ {p} PROVE LeavesAlone(q)
        BY <2>1 DEF IInv, TypeOK, LeavesAlone, world, outcome, history
  <2>10. QED BY <2>3, <2>4, <2>5, <2>6, <2>7, <2>8, <2>9 DEF Keeps, CallInv
<1>3. QED BY <1>1, <1>2

LEMMA ReadTextKeeps ==
    ASSUME NEW p \in Call, IInv, ReadText(p)
    PROVE  Keeps(p)
<1> DEFINE entry == Head(batch[p])
           issue == [title |-> entry.title, text |-> disk[entry.file]]
<1>0. batch[p] \in Seq(Entry) /\ batch[p] # <<>> /\ entry \in Entry
      BY DEF IInv, TypeOK, CallInv, BatchKnown, ReadText
<1>1. CASE disk[entry.file] \notin Text
      BY <1>1, AbortKeeps DEF ReadText, Preparing
<1>2. CASE disk[entry.file] \in Text
  <2>0. issue \in Issue BY <1>0, <1>2 DEF Entry, Issue
  <2> HIDE DEF issue
  <2>1. /\ frozen' = [frozen EXCEPT ![p] = Append(frozen[p], issue)]
        /\ batch' = [batch EXCEPT ![p] = Tail(batch[p])]
        /\ pc' = [pc EXCEPT ![p] = IF Len(batch[p]) = 1 THEN "policy" ELSE "texts"]
        /\ UNCHANGED <<world, request, conf, done, run, logged, outcome, history>>
        /\ pc[p] = "texts"
        BY <1>2 DEF ReadText, Goto, issue
  <2>2. /\ Append(frozen[p], issue) \in Seq(Issue)
        /\ Tail(batch[p]) \in Seq(Entry)
    <3>1. frozen[p] \in Seq(Issue) BY DEF IInv, TypeOK
    <3>2. QED BY <1>0, <2>0, <3>1
  <2>3. TypeOK'
        BY <2>1, <2>2 DEF IInv, TypeOK, PC, world, outcome, history
  <2>4. RequestKnown(p)'
        BY <2>1 DEF IInv, TypeOK, CallInv, RequestKnown, Creating, Preparing
  <2>5. BatchKnown(p)'
    <3>1. /\ frozen'[p] = Append(frozen[p], issue) /\ batch'[p] = Tail(batch[p])
          /\ pc'[p] = IF Len(batch[p]) = 1 THEN "policy" ELSE "texts"
          /\ done'[p] = 0
          BY <2>1 DEF IInv, TypeOK, CallInv, BatchKnown, Creating
    <3>2. Len(frozen[p]) + Len(batch[p]) <= MaxIssues /\ Len(frozen[p]) \in Nat
          BY <2>1 DEF IInv, TypeOK, CallInv, BatchKnown
    <3>3. frozen[p] \in Seq(Issue) BY DEF IInv, TypeOK
    <3>4. Len(frozen'[p]) = Len(frozen[p]) + 1 /\ frozen'[p] # <<>> /\ Len(frozen[p]) \in Nat
          BY <2>0, <3>1, <3>3, AppendFacts
    <3>5. /\ Len(batch[p]) \in Nat \ {0}
          /\ Len(batch'[p]) = Len(batch[p]) - 1
          /\ Len(batch[p]) # 1 => batch'[p] # <<>>
      <4>1. Len(batch[p]) \in Nat \ {0} /\ Len(batch'[p]) = Len(batch[p]) - 1
            BY <1>0, <3>1, TailFacts
      <4>2. batch'[p] = <<>> => Len(batch'[p]) = 0 OBVIOUS
      <4>3. QED BY <4>1, <4>2
    <3>6. /\ Len(frozen'[p]) + Len(batch'[p]) <= MaxIssues
          /\ pc'[p] = "policy" => Len(frozen'[p]) <= MaxIssues
          /\ pc'[p] = "texts" => batch'[p] # <<>>
          /\ pc'[p] \in {"policy", "texts"}
      <4>0. \A a, b \in Nat : (a + 1) + (b - 1) = a + b OBVIOUS
      <4>1. Len(frozen'[p]) + Len(batch'[p]) = Len(frozen[p]) + Len(batch[p])
            BY <3>4, <3>5, <4>0
      <4>2. CASE Len(batch[p]) = 1
            BY <3>1, <3>2, <3>4, <4>1, <4>2, MaxIssuesIsPositive
      <4>3. CASE Len(batch[p]) # 1 BY <3>1, <3>2, <3>5, <4>1, <4>3
      <4>4. QED BY <4>2, <4>3
    <3>7. QED BY <3>1, <3>4, <3>6 DEF BatchKnown, Creating
  <2>6. AgreementKept(p)'
        BY <2>1 DEF IInv, TypeOK, CallInv, AgreementKept, Creating, Preparing,
               Underway, outcome, history
  <2>7. EntryTrue(p)'
        BY <2>1 DEF IInv, TypeOK, CallInv, EntryTrue, Creating, Preparing, history
  <2>8. PolicyKnown(p)'
        BY <2>1 DEF IInv, TypeOK, CallInv, PolicyKnown, Preparing, world, history
  <2>9. ASSUME NEW q \in Call \ {p} PROVE LeavesAlone(q)
        BY <2>1 DEF IInv, TypeOK, LeavesAlone, world, outcome, history
  <2>10. QED BY <2>3, <2>4, <2>5, <2>6, <2>7, <2>8, <2>9 DEF Keeps, CallInv
<1>3. QED BY <1>1, <1>2

(* At the block rules nothing is loaded yet. *)
LEMMA OverruleKeeps ==
    ASSUME NEW p \in Call, IInv, Overrule(p)
    PROVE  Keeps(p)
<1>1. Vetted(request[p]) /\ conf' = [conf EXCEPT ![p] = None]
      BY DEF Overrule, work, IInv, TypeOK, CallInv, RequestKnown, PolicyKnown, Preparing
<1>2. QED BY <1>1, LaunchKeeps DEF Overrule, work

(* Moving on with the request as it is. *)
LEMMA PassOnKeeps ==
    ASSUME NEW p \in Call, IInv, pc[p] \in {"policy", "operation"},
           NEW place \in {"review", "operation", "gate"}, Goto(p, place),
           place = "review" => pc[p] = "policy" /\ request[p].verb = "issue.create-batch",
           place = "operation" => pc[p] = "policy" /\ request[p].verb \in Typed,
           UNCHANGED <<world, request, batch, frozen, done, run, logged, outcome, history>>,
           conf' = [conf EXCEPT ![p] = None]
    PROVE  Keeps(p)
<1>1. TypeOK' BY DEF IInv, TypeOK, Goto, PC, world, outcome, history
<1>2. RequestKnown(p)' BY DEF IInv, TypeOK, CallInv, RequestKnown, Goto, Creating, Preparing
<1>3. BatchKnown(p)' BY DEF IInv, TypeOK, CallInv, BatchKnown, Goto, Creating, Preparing
<1>4. AgreementKept(p)'
      BY DEF IInv, TypeOK, CallInv, AgreementKept, Goto, Creating, Preparing, Underway,
             outcome, history
<1>5. EntryTrue(p)'
      BY DEF IInv, TypeOK, CallInv, EntryTrue, Goto, Creating, Preparing, history
<1>6. PolicyKnown(p)' BY DEF IInv, TypeOK, CallInv, PolicyKnown, Goto, Preparing, world, history
<1>7. ASSUME NEW q \in Call \ {p} PROVE LeavesAlone(q)
      BY DEF IInv, TypeOK, LeavesAlone, Goto, world, outcome, history
<1>8. QED BY <1>1, <1>2, <1>3, <1>4, <1>5, <1>6, <1>7 DEF Keeps, CallInv

LEMMA PassKeeps ==
    ASSUME NEW p \in Call, IInv, Pass(p)
    PROVE  Keeps(p)
<1>1. Vetted(request[p]) /\ conf' = [conf EXCEPT ![p] = None] /\ pc[p] = "policy"
      BY DEF Pass, work, IInv, TypeOK, CallInv, RequestKnown, PolicyKnown, Preparing
<1>2. CASE KnownRead(request[p])
      BY <1>1, <1>2, LaunchKeeps DEF Pass, work
<1>3. CASE ~KnownRead(request[p])
  <2>1. PICK place \in {"review", "operation", "gate"} :
            /\ Goto(p, place)
            /\ place = "review" => request[p].verb = "issue.create-batch"
            /\ place = "operation" => request[p].verb \in Typed
        BY <1>3 DEF Pass
  <2>2. QED BY <1>1, <1>3, <2>1, PassOnKeeps DEF Pass, work, history
<1>4. QED BY <1>2, <1>3

LEMMA ReadPolicyKeeps ==
    ASSUME NEW p \in Call, IInv, ReadPolicy(p)
    PROVE  Keeps(p)
<1>0. policy["project"] \in Policies /\ None \notin Policies /\ "project" \in Scope
      BY SpecialsAreFresh DEF IInv, TypeOK, Scope
<1>1. TypeOK' BY <1>0 DEF IInv, TypeOK, ReadPolicy, world, outcome, history
<1>2. RequestKnown(p)' BY DEF IInv, CallInv, RequestKnown, ReadPolicy, Creating
<1>3. BatchKnown(p)' BY DEF IInv, CallInv, BatchKnown, ReadPolicy, Creating
<1>4. AgreementKept(p)'
      BY DEF IInv, CallInv, AgreementKept, ReadPolicy, Creating, Reviewed, Underway, outcome,
             history
<1>5. EntryTrue(p)'
      BY DEF IInv, CallInv, EntryTrue, ReadPolicy, Creating, Preparing, history
<1>6. PolicyKnown(p)'
      BY <1>0 DEF IInv, TypeOK, CallInv, PolicyKnown, ReadPolicy, Preparing, world, history
<1>7. ASSUME NEW q \in Call \ {p} PROVE LeavesAlone(q)
      BY DEF IInv, TypeOK, LeavesAlone, ReadPolicy, world, outcome, history
<1>8. QED BY <1>1, <1>2, <1>3, <1>4, <1>5, <1>6, <1>7 DEF Keeps, CallInv

LEMMA CheckPolicyKeeps ==
    ASSUME NEW p \in Call, IInv, CheckPolicy(p)
    PROVE  Keeps(p)
<1>1. Vetted(request[p]) /\ request[p].verb \in Typed
      BY DEF CheckPolicy, IInv, CallInv, RequestKnown, Preparing
<1>2. CASE Permits(conf[p] \cup policy["global"], request[p])
  <2>1. conf[p] \cup policy["global"] \subseteq authorized[p]
        BY DEF CheckPolicy, IInv, CallInv, PolicyKnown, Preparing, Scope
  <2>2. Permits(authorized[p], request[p]) BY <1>2, <2>1 DEF Permits
  <2>3. QED BY <1>1, <1>2, <2>2, LaunchKeeps DEF CheckPolicy
<1>3. CASE ~Permits(conf[p] \cup policy["global"], request[p])
      BY <1>3, PassOnKeeps DEF CheckPolicy, history
<1>4. QED BY <1>2, <1>3

LEMMA GateAllowsKeeps ==
    ASSUME NEW p \in Call, IInv, GateAllows(p)
    PROVE  Keeps(p)
<1>1. Vetted(request[p]) /\ conf' = [conf EXCEPT ![p] = None]
      BY DEF GateAllows, work, IInv, TypeOK, CallInv, RequestKnown, PolicyKnown, Preparing
<1>2. QED BY <1>1, LaunchKeeps DEF GateAllows, work

(* An edited request has been validated like the one that was given. *)
LEMMA UserAllowsKeeps ==
    ASSUME NEW p \in Call, NEW r \in Request, IInv, UserAllows(p, r)
    PROVE  Keeps(p)
<1>1. CASE Rejected(r) BY <1>1, StopKeeps DEF UserAllows, Preparing
<1>2. CASE ~Rejected(r) /\ Invalid(r) BY <1>2, AbortKeeps DEF UserAllows, Preparing
<1>3. CASE ~Rejected(r) /\ ~Invalid(r)
  <2>1. Vetted(r) BY <1>3 DEF Vetted, Rejected, Invalid
  <2>2. conf' = [conf EXCEPT ![p] = None]
        BY <1>3 DEF UserAllows, work, IInv, TypeOK, CallInv, PolicyKnown
  <2>3. QED BY <1>3, <2>1, <2>2, LaunchKeeps DEF UserAllows, work
<1>4. QED BY <1>1, <1>2, <1>3

(* Where it launches a request, audit_log may raise instead. *)
LEMMA AuditFailsKeeps ==
    ASSUME NEW p \in Call, IInv, AuditFails(p)
    PROVE  Keeps(p)
BY AbortKeeps DEF AuditFails, Preparing

(* Before anything is agreed a call may be refused. *)
LEMMA RefusalsKeep ==
    ASSUME NEW p \in Call, IInv,
           Blocked(p) \/ PolicyError(p) \/ GateStops(p) \/ RefuseBatch(p)
    PROVE  Keeps(p)
<1>1. PICK action \in {"blocked", "denied", "no-dialog", "error"} :
        pc[p] \in Preparing /\ Stop(p, action)
      BY DEF Blocked, PolicyError, GateStops, RefuseBatch, Preparing
<1>2. QED BY <1>1, StopKeeps

(* The issues that were shown are those that are agreed to. *)
LEMMA ApproveBatchKeeps ==
    ASSUME NEW p \in Call, IInv, ApproveBatch(p)
    PROVE  Keeps(p)
<1>1. /\ Vetted(request[p]) /\ request[p].verb = "issue.create-batch"
      /\ frozen[p] \in Seq(Issue) /\ frozen[p] # <<>> /\ Len(frozen[p]) <= MaxIssues
      /\ done[p] = 0 /\ run[p] = None /\ made[p] = <<>> /\ sent[p] = None
      /\ logged[p] = NoEntry
      BY DEF ApproveBatch, IInv, TypeOK, CallInv, RequestKnown, BatchKnown, AgreementKept,
             EntryTrue, Preparing, Creating, Underway
<1>2. /\ pc' = [pc EXCEPT ![p] = "create"]
      /\ agreed' = [agreed EXCEPT ![p] = Reviewed(p)]
      /\ UNCHANGED <<world, request, work, run, logged, outcome, authorized>>
      BY DEF ApproveBatch, Goto, Reviewed
<1>3. Reviewed(p) \in Seq(SUBSET Change) /\ Len(Reviewed(p)) = Len(frozen[p])
  <2>1. \A i \in DOMAIN frozen[p] : {NewIssue(request[p], frozen[p][i])} \in SUBSET Change
        BY <1>1, NewIssueTyped
  <2>2. DOMAIN frozen[p] = 1..Len(frozen[p]) /\ Len(frozen[p]) \in Nat BY <1>1
  <2>3. QED BY <2>1, <2>2 DEF Reviewed
<1>4. TypeOK'
  <2>1. agreed' \in [Call -> Seq(SUBSET Change)] BY <1>2, <1>3 DEF IInv, TypeOK
  <2>2. QED BY <1>2, <2>1 DEF IInv, TypeOK, PC, world, work, outcome
<1>5. /\ pc'[p] = "create" /\ request'[p] = request[p] /\ run'[p] = None
      /\ frozen'[p] = frozen[p] /\ done'[p] = 0 /\ made'[p] = <<>> /\ sent'[p] = None
      /\ agreed'[p] = Reviewed(p) /\ logged'[p] = NoEntry
      BY <1>1, <1>2 DEF IInv, TypeOK, work, outcome
<1>6. RequestKnown(p)' BY <1>1, <1>5 DEF RequestKnown, Creating, Preparing
<1>7. BatchKnown(p)'
  <2>1. Len(frozen[p]) > 0 BY <1>1
  <2>2. QED BY <1>1, <1>5, <2>1 DEF BatchKnown, Creating
<1>8. AgreementKept(p)'
  <2>1. Reviewed(p)' = Reviewed(p) BY <1>5 DEF Reviewed
  <2>2. \A i \in DOMAIN Reviewed(p) : \A x \in Reviewed(p)[i] : x.op = "issue"
        BY DEF Reviewed, NewIssue, OnGitHub
  <2>3. Len(made'[p]) = 0 /\ Underway(p)' = 0 /\ Len(agreed'[p]) \in Nat
        BY <1>1, <1>3, <1>5 DEF Underway
  <2>4. QED BY <1>5, <2>1, <2>2, <2>3 DEF AgreementKept, Preparing, Creating
<1>9. EntryTrue(p)'
      BY <1>5, SpecialsAreFresh DEF EntryTrue, Preparing, Creating, NoEntry, Action
<1>10. PolicyKnown(p)'
       BY <1>2 DEF ApproveBatch, IInv, TypeOK, CallInv, PolicyKnown, Preparing, work
<1>11. ASSUME NEW q \in Call \ {p} PROVE LeavesAlone(q)
       BY <1>2 DEF IInv, TypeOK, LeavesAlone, world, work, outcome
<1>12. QED BY <1>4, <1>6, <1>7, <1>8, <1>9, <1>10, <1>11 DEF Keeps, CallInv

(* Something is sent that is among what was agreed to. *)
LEMMA SendKeeps ==
    ASSUME NEW p \in Call, IInv,
           \/ pc[p] = "create"
           \/ pc[p] = "run",
           NEW x \in Change, Len(made[p]) < Len(agreed[p]), x \in agreed[p][Len(made[p]) + 1],
           Goto(p, "gh"), sent' = [sent EXCEPT ![p] = x],
           UNCHANGED <<world, request, work, run, logged, made, history>>
    PROVE  Keeps(p)
<1>0. x # None BY SpecialsAreFresh
<1>1. TypeOK' BY DEF IInv, TypeOK, Goto, PC, world, work, history
<1>2. /\ pc'[p] = "gh" /\ request'[p] = request[p] /\ run'[p] = run[p]
      /\ frozen'[p] = frozen[p] /\ done'[p] = done[p] /\ made'[p] = made[p] /\ sent'[p] = x
      /\ agreed'[p] = agreed[p] /\ logged'[p] = logged[p] /\ conf'[p] = conf[p]
      /\ authorized'[p] = authorized[p]
      BY DEF IInv, TypeOK, Goto, work, history
<1>3. (pc[p] = "create" <=> run[p] = None) /\ (Creating(p)' <=> Creating(p))
      BY <1>2 DEF IInv, CallInv, RequestKnown, Preparing, Creating
<1>4. RequestKnown(p)' BY <1>2, <1>3 DEF IInv, CallInv, RequestKnown, Preparing, Creating
<1>5. BatchKnown(p)' BY <1>2, <1>3 DEF IInv, CallInv, BatchKnown
<1>6. AgreementKept(p)'
  <2>1. sent[p] = None /\ (Creating(p) => Len(made[p]) = done[p])
        BY <1>3 DEF IInv, CallInv, AgreementKept, Creating
  <2>2. Reviewed(p)' = Reviewed(p) BY <1>2 DEF Reviewed
  <2>3. Len(made[p]) \in Nat /\ Len(agreed[p]) \in Nat /\ done[p] \in Nat
        BY DEF IInv, TypeOK
  <2>4. Underway(p)' = 1 BY <1>0, <1>2 DEF Underway
  <2>5. Len(made'[p]) + Underway(p)' <= Len(agreed'[p]) BY <1>2, <2>3, <2>4
  <2>6. Creating(p)' => agreed'[p] = Reviewed(p)' /\ done'[p] <= Len(made'[p])
                        /\ Len(made'[p]) + Underway(p)' <= done'[p] + 1
        BY <1>2, <1>3, <2>1, <2>2, <2>3, <2>4 DEF IInv, CallInv, AgreementKept
  <2>7. QED BY <1>0, <1>2, <2>5, <2>6 DEF IInv, CallInv, AgreementKept, Preparing
<1>7. EntryTrue(p)' BY <1>2, <1>3 DEF IInv, CallInv, EntryTrue, Preparing, Creating
<1>8. PolicyKnown(p)' BY <1>2 DEF IInv, CallInv, PolicyKnown, Preparing
<1>9. ASSUME NEW q \in Call \ {p} PROVE LeavesAlone(q)
      BY DEF IInv, TypeOK, LeavesAlone, Goto, world, work, history
<1>10. QED BY <1>1, <1>4, <1>5, <1>6, <1>7, <1>8, <1>9 DEF Keeps, CallInv

LEMMA SendIssueKeeps ==
    ASSUME NEW p \in Call, IInv, SendIssue(p)
    PROVE  Keeps(p)
<1> DEFINE x == NewIssue(request[p], frozen[p][done[p] + 1])
<1>1. /\ Vetted(request[p]) /\ request[p].verb = "issue.create-batch"
      /\ frozen[p] \in Seq(Issue) /\ done[p] < Len(frozen[p]) /\ done[p] \in Nat
      /\ agreed[p] = Reviewed(p) /\ Len(made[p]) = done[p]
      BY DEF SendIssue, IInv, TypeOK, CallInv, RequestKnown, BatchKnown, AgreementKept, Creating
<1>2. done[p] + 1 \in DOMAIN frozen[p] /\ frozen[p][done[p] + 1] \in Issue BY <1>1
<1>3. x \in Change BY <1>1, <1>2, NewIssueTyped
<1>4. agreed[p][Len(made[p]) + 1] = {x} BY <1>1, <1>2 DEF Reviewed
<1>5. Len(made[p]) < Len(agreed[p])
  <2>1. DOMAIN agreed[p] = 1..Len(frozen[p]) /\ Len(frozen[p]) \in Nat BY <1>1 DEF Reviewed
  <2>2. Len(agreed[p]) = Len(frozen[p]) BY <2>1
  <2>3. QED BY <1>1, <2>2
<1> HIDE DEF x
<1>6. sent' = [sent EXCEPT ![p] = x] BY DEF SendIssue, x
<1>7. QED BY <1>3, <1>4, <1>5, <1>6, SendKeeps DEF SendIssue

LEMMA NotSentKeeps ==
    ASSUME NEW p \in Call, IInv, NotSent(p)
    PROVE  Keeps(p)
BY AbortKeeps DEF NotSent, Creating

LEMMA RunKeeps ==
    ASSUME NEW p \in Call, IInv, Run(p)
    PROVE  Keeps(p)
<1>1. /\ run[p] # None /\ Vetted(run[p]) /\ made[p] = <<>>
      /\ agreed[p] = <<Fulfilling(run[p])>>
      BY DEF Run, IInv, CallInv, RequestKnown, AgreementKept
<1>2. CASE Invalid(run[p]) \/ Sending(run[p]) = {}
      BY <1>1, <1>2, AbortKeeps DEF Run
<1>3. CASE ~(Invalid(run[p]) \/ Sending(run[p]) = {})
  <2>1. PICK x \in Sending(run[p]) : sent' = [sent EXCEPT ![p] = x] BY <1>3 DEF Run
  <2>2. x \in Fulfilling(run[p]) BY DEF Sending
  <2>3. x \in Change BY <1>1, <2>2, FulfillingTyped
  <2> DEFINE F == Fulfilling(run[p])
  <2> HIDE DEF F
  <2>4. agreed[p] = <<F>> /\ x \in F BY <1>1, <2>2 DEF F
  <2>5. Len(made[p]) < Len(agreed[p]) /\ x \in agreed[p][Len(made[p]) + 1] BY <1>1, <2>4
  <2>6. QED BY <1>3, <2>1, <2>3, <2>5, SendKeeps DEF Run
<1>4. QED BY <1>2, <1>3

(* What is known of a batch while gh runs. *)
LEMMA BatchInGh ==
    ASSUME NEW p \in Call, IInv, pc[p] = "gh", run[p] = None
    PROVE  /\ done[p] \in Nat /\ Len(made[p]) \in Nat /\ Len(frozen[p]) \in Nat
           /\ done[p] < Len(frozen[p]) /\ Len(frozen[p]) <= MaxIssues
           /\ agreed[p] = Reviewed(p) /\ Len(agreed[p]) = Len(frozen[p])
           /\ done[p] <= Len(made[p]) /\ Len(made[p]) + Underway(p) <= done[p] + 1
           /\ Underway(p) \in {0, 1}
<1>1. /\ done[p] < Len(frozen[p]) /\ Len(frozen[p]) <= MaxIssues /\ agreed[p] = Reviewed(p)
      /\ done[p] <= Len(made[p]) /\ Len(made[p]) + Underway(p) <= done[p] + 1
      BY DEF IInv, CallInv, BatchKnown, AgreementKept, Creating
<1>2. frozen[p] \in Seq(Issue) /\ done[p] \in Nat /\ made[p] \in Seq(Change)
      BY DEF IInv, TypeOK
<1>3. DOMAIN agreed[p] = 1..Len(frozen[p]) /\ Len(frozen[p]) \in Nat
      BY <1>1, <1>2 DEF Reviewed
<1>4. Len(agreed[p]) = Len(frozen[p]) BY <1>3
<1>5. Len(made[p]) \in Nat BY <1>2
<1>6. Underway(p) \in {0, 1} BY DEF Underway
<1>7. QED BY <1>1, <1>2, <1>3, <1>4, <1>5, <1>6

(* A change has arrived, or all of the batch has, when gh reports success. *)
LEMMA SucceedKeeps ==
    ASSUME NEW p \in Call, IInv, Succeed(p)
    PROVE  Keeps(p)
<1>1. CASE run[p] # None BY <1>1, AbortKeeps DEF Succeed
<1>2. CASE run[p] = None /\ done[p] + 1 = Len(frozen[p])
  <2> DEFINE entry == [action |-> "clicked", count |-> done[p] + 1]
  <2>1. /\ done[p] \in Nat /\ Len(made[p]) \in Nat /\ done[p] + 1 <= MaxIssues
        /\ Len(agreed[p]) = done[p] + 1 /\ Underway(p) \in {0, 1}
        /\ Len(made[p]) > done[p] /\ Len(made[p]) + Underway(p) <= done[p] + 1
        BY <1>2, BatchInGh DEF Succeed
  <2>2. Len(made[p]) = done[p] + 1 /\ Underway(p) = 0 BY <2>1
  <2>3. done[p] + 1 \in 0..MaxIssues BY <2>1, MaxIssuesIsPositive
  <2>4. entry \in [action : Action \cup {None}, count : 0..MaxIssues] BY <2>3 DEF Action
  <2>5. CASE Abort(p) BY <1>2, <2>5, AbortKeeps DEF Succeed, Creating
  <2>6. CASE End(p) /\ logged' = [logged EXCEPT ![p] = entry]
    <3>1. /\ logged'[p] = entry /\ made' = made /\ sent' = sent
          /\ agreed' = agreed /\ run' = run
          BY <2>6 DEF End, outcome, history, IInv, TypeOK
    <3>2. CountsChanges(p)'
      <4>1. Underway(p)' = 0 BY <2>2, <3>1 DEF Underway
      <4>2. QED BY <1>2, <2>1, <2>2, <3>1, <4>1, SpecialsAreFresh DEF CountsChanges, Action
    <3>3. QED BY <2>4, <2>6, <3>2, EndKeeps
  <2>7. QED BY <1>2, <2>5, <2>6 DEF Succeed, Conclude, Log
<1>3. CASE run[p] = None /\ done[p] + 1 # Len(frozen[p])
  <2>1. /\ done[p] \in Nat /\ Len(made[p]) \in Nat /\ Len(frozen[p]) \in Nat
        /\ done[p] < Len(frozen[p]) /\ Len(frozen[p]) <= MaxIssues
        /\ Len(agreed[p]) = Len(frozen[p]) /\ agreed[p] = Reviewed(p)
        /\ Underway(p) \in {0, 1}
        /\ Len(made[p]) > done[p] /\ Len(made[p]) + Underway(p) <= done[p] + 1
        BY <1>3, BatchInGh DEF Succeed
  <2>2. /\ Len(made[p]) = done[p] + 1 /\ Underway(p) = 0
        /\ done[p] + 1 < Len(frozen[p]) /\ done[p] + 1 \in 0..MaxIssues
        BY <1>3, <2>1, MaxIssuesIsPositive
  <2>3. sent[p] = None BY <2>2 DEF Underway
  <2>4. /\ pc[p] = "gh" /\ pc' = [pc EXCEPT ![p] = "create"]
        /\ done' = [done EXCEPT ![p] = done[p] + 1]
        /\ UNCHANGED <<world, request, batch, frozen, conf, run, logged, outcome, history>>
        BY <1>3 DEF Succeed, Goto
  <2>5. TypeOK' BY <2>2, <2>4 DEF IInv, TypeOK, PC, world, outcome, history
  <2>6. /\ pc'[p] = "create" /\ request'[p] = request[p] /\ run'[p] = None
        /\ frozen'[p] = frozen[p] /\ done'[p] = done[p] + 1 /\ made'[p] = made[p]
        /\ sent'[p] = None /\ agreed'[p] = agreed[p] /\ logged'[p] = logged[p]
        BY <1>3, <2>3, <2>4 DEF IInv, TypeOK, outcome, history
  <2>7. RequestKnown(p)'
        BY <1>3, <2>4, <2>6 DEF IInv, CallInv, RequestKnown, Preparing, Creating
  <2>8. BatchKnown(p)'
        BY <1>3, <2>1, <2>2, <2>4, <2>6 DEF BatchKnown, Creating
  <2>9. AgreementKept(p)'
    <3>1. Reviewed(p)' = Reviewed(p) BY <2>6 DEF Reviewed
    <3>2. Underway(p)' = 0 BY <2>6 DEF Underway
    <3>3. Len(made[p]) + 0 <= Len(agreed[p]) /\ Len(made[p]) + 0 <= (done[p] + 1) + 1
          BY <2>1, <2>2
    <3>4. QED BY <1>3, <2>1, <2>2, <2>4, <2>6, <3>1, <3>2, <3>3
              DEF IInv, CallInv, AgreementKept, Creating, Preparing
  <2>10. EntryTrue(p)'
         BY <1>3, <2>4, <2>6 DEF IInv, CallInv, EntryTrue, Preparing, Creating, history
  <2>11. PolicyKnown(p)'
         BY <2>4 DEF IInv, TypeOK, CallInv, PolicyKnown, Preparing
  <2>12. ASSUME NEW q \in Call \ {p} PROVE LeavesAlone(q)
         BY <2>4 DEF IInv, TypeOK, LeavesAlone, world, outcome, history
  <2>13. QED BY <2>5, <2>7, <2>8, <2>9, <2>10, <2>11, <2>12 DEF Keeps, CallInv
<1>4. QED BY <1>1, <1>2, <1>3

(* After a failure, the issue it was about may be there or not. *)
LEMMA GhFailsKeeps ==
    ASSUME NEW p \in Call, IInv, GhFails(p)
    PROVE  Keeps(p)
<1>1. CASE run[p] # None BY <1>1, AbortKeeps DEF GhFails
<1>2. CASE run[p] = None
  <2> DEFINE entry == [action |-> "error", count |-> done[p]]
  <2>1. /\ done[p] <= Len(made[p]) /\ Len(made[p]) + Underway(p) <= done[p] + 1
        BY <1>2, BatchInGh DEF GhFails
  <2>2. entry \in [action : Action \cup {None}, count : 0..MaxIssues]
        BY DEF Action, IInv, TypeOK
  <2>3. CASE Abort(p) BY <1>2, <2>3, AbortKeeps DEF GhFails, Creating
  <2>4. CASE End(p) /\ logged' = [logged EXCEPT ![p] = entry]
    <3>1. /\ logged'[p] = entry /\ made' = made /\ sent' = sent /\ run' = run
          BY <2>4 DEF End, outcome, IInv, TypeOK
    <3>2. CountsChanges(p)'
      <4>1. Underway(p)' = Underway(p) BY <3>1 DEF Underway
      <4>2. QED BY <1>2, <2>1, <3>1, <4>1, SpecialsAreFresh DEF CountsChanges, Action
    <3>3. QED BY <2>2, <2>4, <3>2, EndKeeps
  <2>5. QED BY <1>2, <2>3, <2>4 DEF GhFails, Conclude, Log
<1>3. QED BY <1>1, <1>2

LEMMA RunRaisesKeeps ==
    ASSUME NEW p \in Call, IInv, RunRaises(p)
    PROVE  Keeps(p)
<1>1. pc[p] = "run" => run[p] # None BY DEF IInv, CallInv, RequestKnown
<1>2. QED BY <1>1, AbortKeeps DEF RunRaises, Creating

LEMMA KillKeeps ==
    ASSUME NEW p \in Call, IInv, Kill(p)
    PROVE  Keeps(p)
<1>1. TypeOK'
  <2>1. /\ pc' \in [Call -> PC] /\ request' \in [Call -> Request \cup {None}]
        /\ batch' \in [Call -> Seq(Entry)] /\ frozen' \in [Call -> Seq(Issue)]
        BY DEF IInv, TypeOK, Kill, Goto, Forget, PC
  <2>2. conf' \in [Call -> Policies \cup {None}] /\ done' \in [Call -> 0..MaxIssues]
        BY MaxIssuesIsPositive DEF IInv, TypeOK, Kill, Forget
  <2>3. QED BY <2>1, <2>2 DEF IInv, TypeOK, Kill, world, outcome, history
<1>2. RequestKnown(p)'
      BY DEF IInv, TypeOK, CallInv, RequestKnown, Kill, Goto, Forget, Creating, Preparing
<1>3. BatchKnown(p)'
      BY DEF IInv, TypeOK, CallInv, BatchKnown, Kill, Goto, Forget, Creating, Preparing
<1>4. AgreementKept(p)'
      BY DEF IInv, TypeOK, CallInv, AgreementKept, Kill, Goto, Forget, Creating, Preparing,
             Underway, outcome, history
<1>5. EntryTrue(p)'
      BY DEF IInv, TypeOK, CallInv, EntryTrue, Kill, Goto, Forget, Creating, Preparing, history
<1>6. PolicyKnown(p)' BY DEF IInv, TypeOK, PolicyKnown, Kill, Goto, Forget, Preparing
<1>7. ASSUME NEW q \in Call \ {p} PROVE LeavesAlone(q)
      BY DEF IInv, TypeOK, LeavesAlone, Kill, Goto, Forget, world, outcome, history
<1>8. QED BY <1>1, <1>2, <1>3, <1>4, <1>5, <1>6, <1>7 DEF Keeps, CallInv

LEMMA ExitKeeps ==
    ASSUME NEW p \in Call, IInv, Exit(p)
    PROVE  Keeps(p)
<1>1. TypeOK'
      BY MaxIssuesIsPositive, SMTT(30)
      DEF IInv, TypeOK, Exit, Goto, NoEntry, PC, world, work
<1>2. RequestKnown(p)'
      BY DEF IInv, TypeOK, RequestKnown, Exit, Goto, Creating, Preparing
<1>3. BatchKnown(p)'
  <2>1. PICK place \in {"ended", "killed"} : pc[p] = place BY DEF Exit
  <2>2. done[p] = 0 BY <2>1 DEF IInv, CallInv, BatchKnown, Creating
  <2>3. frozen[p] = <<>> BY <2>1 DEF IInv, CallInv, BatchKnown
  <2>4. QED BY <2>2, <2>3 DEF IInv, TypeOK, BatchKnown, Exit, Goto, Creating, work
<1>4. AgreementKept(p)'
  <2>1. /\ pc'[p] = "idle" /\ run'[p] = None /\ sent'[p] = None
        /\ made'[p] = <<>> /\ agreed'[p] = <<>>
        BY DEF IInv, TypeOK, Exit, Goto
  <2>2. QED BY <2>1 DEF AgreementKept, Creating, Preparing, Underway
<1>5. EntryTrue(p)'
      BY SpecialsAreFresh
      DEF IInv, TypeOK, EntryTrue, Exit, Goto, NoEntry, Creating, Preparing, Action
<1>6. PolicyKnown(p)'
      BY DEF IInv, TypeOK, CallInv, PolicyKnown, Exit, Goto, Preparing, work
<1>7. ASSUME NEW q \in Call \ {p} PROVE LeavesAlone(q)
      BY DEF IInv, TypeOK, LeavesAlone, Exit, Goto, world, work
<1>8. QED BY <1>1, <1>2, <1>3, <1>4, <1>5, <1>6, <1>7 DEF Keeps, CallInv

(* What was sent arrives: it is the next of the changes agreed to. *)
LEMMA ArriveKeeps ==
    ASSUME NEW p \in Call, IInv, Arrive(p)
    PROVE  Keeps(p)
<1> DEFINE n == Len(made[p])
<1>1. /\ sent[p] # None /\ sent[p] \in Change /\ made[p] \in Seq(Change)
      /\ made' = [made EXCEPT ![p] = Append(made[p], sent[p])]
      /\ sent' = [sent EXCEPT ![p] = None]
      /\ UNCHANGED <<world, pc, request, work, run, logged, history>>
      BY DEF Arrive, IInv, TypeOK
<1>2. /\ Append(made[p], sent[p]) \in Seq(Change)
      /\ n \in Nat /\ Len(Append(made[p], sent[p])) = n + 1
      /\ \A i \in 1..n : Append(made[p], sent[p])[i] = made[p][i]
      /\ Append(made[p], sent[p])[n + 1] = sent[p]
      BY <1>1, AppendFacts
<1>3. TypeOK' BY <1>1, <1>2 DEF IInv, TypeOK, world, work, history
<1>4. /\ made'[p] = Append(made[p], sent[p]) /\ sent'[p] = None
      /\ pc' = pc /\ request' = request /\ frozen' = frozen /\ done' = done /\ run' = run
      /\ agreed' = agreed /\ logged' = logged /\ batch' = batch
      BY <1>1 DEF IInv, TypeOK, work, history
<1>5. Underway(p) = 1 /\ Underway(p)' = 0 /\ Len(made'[p]) = n + 1
      BY <1>1, <1>2, <1>4 DEF Underway
<1>6. Len(made'[p]) + Underway(p)' = n + Underway(p) BY <1>2, <1>5
<1>7. RequestKnown(p)' BY <1>4 DEF IInv, CallInv, RequestKnown, Creating
<1>8. BatchKnown(p)' BY <1>4 DEF IInv, CallInv, BatchKnown, Creating
<1>9. AgreementKept(p)'
  <2>1. pc[p] \notin {"run", "create"} /\ sent[p] \in agreed[p][n + 1]
        BY <1>1 DEF IInv, CallInv, AgreementKept
  <2>2. ASSUME NEW i \in DOMAIN made'[p] PROVE made'[p][i] \in agreed'[p][i]
    <3>1. i \in 1..(n + 1)
      <4>1. made'[p] \in Seq(Change) BY <1>2, <1>4
      <4>2. DOMAIN made'[p] = 1..Len(made'[p]) BY <4>1
      <4>3. QED BY <4>2, <1>5
    <3>2. CASE i = n + 1 BY <3>2, <1>2, <1>4, <2>1
    <3>3. CASE i # n + 1
      <4>1. i \in 1..n BY <3>1, <3>3, <1>2
      <4>2. i \in DOMAIN made[p] BY <4>1, <1>1
      <4>3. made[p][i] \in agreed[p][i] BY <4>2 DEF IInv, CallInv, AgreementKept
      <4>4. QED BY <4>1, <4>3, <1>2, <1>4
    <3>4. QED BY <3>2, <3>3
  <2>3. Creating(p)' <=> Creating(p) BY <1>4 DEF Creating
  <2>4. Reviewed(p)' = Reviewed(p) BY <1>4 DEF Reviewed
  <2>5. Len(made'[p]) + Underway(p)' <= Len(agreed'[p])
        BY <1>4, <1>6 DEF IInv, CallInv, AgreementKept
  <2>6. Creating(p)' => agreed'[p] = Reviewed(p)' /\ done'[p] <= Len(made'[p])
                        /\ Len(made'[p]) + Underway(p)' <= done'[p] + 1
    <3>1. Creating(p) => agreed[p] = Reviewed(p) /\ done[p] <= n /\ n + Underway(p) <= done[p] + 1
          BY DEF IInv, CallInv, AgreementKept
    <3>2. done[p] \in Nat BY DEF IInv, TypeOK
    <3>3. done[p] <= n => done[p] <= n + 1 BY <3>2, <1>2
    <3>4. QED BY <3>1, <3>3, <1>4, <1>5, <1>6, <2>3, <2>4
  <2>7. pc[p] \notin Preparing \cup {"idle"}
        BY <1>1, <1>5 DEF IInv, TypeOK, CallInv, AgreementKept
  <2>8. pc'[p] \in Preparing \cup {"idle"} => agreed'[p] = <<>> BY <1>4, <2>7
  <2>9. QED BY <1>4, <2>1, <2>2, <2>5, <2>6, <2>8 DEF IInv, CallInv, AgreementKept
<1>10. EntryTrue(p)'
  <2>1. pc[p] = "ended" => CountsChanges(p) BY DEF IInv, CallInv, EntryTrue
  <2>2. CountsChanges(p) => CountsChanges(p)'
    <3>1. logged'[p].count \in Nat /\ logged' = logged /\ run' = run /\ agreed' = agreed
          BY <1>4 DEF IInv, TypeOK
    <3>2. \A k \in Nat : k <= n => k <= n + 1 BY <1>2
    <3>3. QED BY <3>1, <3>2, <1>2, <1>5, <1>6 DEF CountsChanges
  <2>3. (Creating(p)' <=> Creating(p)) /\ authorized' = authorized
        BY <1>1, <1>4 DEF Creating, history
  <2>4. QED BY <2>1, <2>2, <2>3, <1>4 DEF IInv, CallInv, EntryTrue
<1>11. PolicyKnown(p)'
       BY <1>1 DEF IInv, CallInv, PolicyKnown, world, work, history
<1>12. ASSUME NEW q \in Call \ {p} PROVE LeavesAlone(q)
       BY <1>1 DEF IInv, TypeOK, LeavesAlone, world, work, history
<1>13. QED BY <1>3, <1>7, <1>8, <1>9, <1>10, <1>11, <1>12 DEF Keeps, CallInv

(* Or it is lost: there is one change less to come. *)
LEMMA LoseKeeps ==
    ASSUME NEW p \in Call, IInv, Lose(p)
    PROVE  Keeps(p)
<1>1. /\ sent' = [sent EXCEPT ![p] = None]
      /\ UNCHANGED <<world, pc, request, work, run, logged, made, history>>
      BY DEF Lose
<1>2. TypeOK' BY <1>1 DEF IInv, TypeOK, world, work, history
<1>3. /\ sent'[p] = None /\ made' = made /\ pc' = pc /\ request' = request /\ frozen' = frozen
      /\ done' = done /\ run' = run /\ agreed' = agreed /\ logged' = logged /\ batch' = batch
      BY <1>1 DEF IInv, TypeOK, work, history
<1>4. Underway(p) \in {0, 1} /\ Underway(p)' = 0 /\ Len(made[p]) \in Nat
      BY <1>3 DEF Underway, IInv, TypeOK
<1>5. \A k \in Int : Len(made[p]) + Underway(p) <= k => Len(made[p]) + 0 <= k BY <1>4
<1>6. RequestKnown(p)' BY <1>3 DEF IInv, CallInv, RequestKnown, Creating
<1>7. BatchKnown(p)' BY <1>3 DEF IInv, CallInv, BatchKnown, Creating
<1>8. AgreementKept(p)'
  <2>1. (Creating(p)' <=> Creating(p)) /\ Reviewed(p)' = Reviewed(p)
        BY <1>3 DEF Creating, Reviewed
  <2>2. Len(agreed[p]) \in Int /\ done[p] + 1 \in Int BY DEF IInv, TypeOK
  <2>3. Len(made'[p]) + Underway(p)' <= Len(agreed'[p])
        BY <1>3, <1>4, <1>5, <2>2 DEF IInv, CallInv, AgreementKept
  <2>4. Creating(p)' => agreed'[p] = Reviewed(p)' /\ done'[p] <= Len(made'[p])
                        /\ Len(made'[p]) + Underway(p)' <= done'[p] + 1
        BY <1>3, <1>4, <1>5, <2>1, <2>2 DEF IInv, CallInv, AgreementKept
  <2>5. QED BY <1>3, <2>3, <2>4 DEF IInv, CallInv, AgreementKept
<1>9. EntryTrue(p)'
  <2>1. CountsChanges(p) => CountsChanges(p)'
    <3>1. logged[p].count + 1 \in Int /\ 1 \in Int BY DEF IInv, TypeOK
    <3>2. QED BY <1>3, <1>4, <1>5, <3>1 DEF CountsChanges
  <2>2. (Creating(p)' <=> Creating(p)) /\ authorized' = authorized
        BY <1>1, <1>3 DEF Creating, history
  <2>3. QED BY <2>1, <2>2, <1>3 DEF IInv, CallInv, EntryTrue
<1>10. PolicyKnown(p)' BY <1>1 DEF IInv, CallInv, PolicyKnown, world, work, history
<1>11. ASSUME NEW q \in Call \ {p} PROVE LeavesAlone(q)
       BY <1>1 DEF IInv, TypeOK, LeavesAlone, world, work, history
<1>12. QED BY <1>2, <1>6, <1>7, <1>8, <1>9, <1>10, <1>11 DEF Keeps, CallInv

(* The agent's files are of no consequence to what is settled. *)
LEMMA RewriteKeeps ==
    ASSUME IInv, Rewrite
    PROVE  IInv'
<1>1. UNCHANGED <<policy, pc, request, work, run, logged, outcome, history>>
      BY DEF Rewrite, EditManifest, EditText
<1>2. TypeOK'
      BY DEF IInv, TypeOK, Rewrite, EditManifest, EditText, work, outcome, history
<1>3. \A q \in Call : LeavesAlone(q) BY <1>1 DEF LeavesAlone, work, outcome, history
<1>4. QED BY <1>2, <1>3, Bystander DEF IInv

(* What is authorized only grows during a call. *)
LEMMA AuthorizeKeeps ==
    ASSUME NEW s \in Scope, NEW a \in Policies, IInv, Authorize(s, a)
    PROVE  IInv'
<1>1. /\ policy' = [policy EXCEPT ![s] = a]
      /\ authorized' = [p \in Call |-> IF pc[p] = "idle" THEN {} ELSE authorized[p] \cup a]
      /\ UNCHANGED <<manifest, disk, pc, request, work, run, logged, outcome, agreed>>
      BY DEF Authorize
<1>2. TypeOK'
  <2>1. a \in SUBSET Permission BY PoliciesAreTyped
  <2>2. authorized' \in [Call -> SUBSET Permission] BY <1>1, <2>1 DEF IInv, TypeOK
  <2>3. QED BY <1>1, <2>2 DEF IInv, TypeOK, work, outcome
<1>3. ASSUME NEW p \in Call PROVE CallInv(p)'
  <2>1. RequestKnown(p)' BY <1>1 DEF IInv, CallInv, RequestKnown, Creating
  <2>2. BatchKnown(p)' BY <1>1 DEF IInv, CallInv, BatchKnown, Creating, work
  <2>3. AgreementKept(p)'
        BY <1>1 DEF IInv, CallInv, AgreementKept, Creating, Reviewed, Underway, work, outcome
  <2>4. EntryTrue(p)'
    <3>1. CountsChanges(p)' <=> CountsChanges(p)
          BY <1>1 DEF CountsChanges, Underway, outcome
    <3>2. pc[p] # "idle" => authorized[p] \subseteq authorized'[p] BY <1>1
    <3>3. pc[p] = "idle" => logged[p] = NoEntry BY DEF IInv, CallInv, EntryTrue
    <3>4. logged[p].action = "operation" =>
            run[p].verb \in Typed /\ Permits(authorized[p], run[p])
          BY DEF IInv, CallInv, EntryTrue
    <3>5. logged[p].action = "operation" => pc[p] # "idle"
          BY <3>3, SpecialsAreFresh DEF NoEntry, Action
    <3>6. logged[p].action = "operation" => Permits(authorized'[p], run[p])
          BY <3>2, <3>4, <3>5 DEF Permits
    <3>7. QED BY <1>1, <3>1, <3>4, <3>6 DEF IInv, CallInv, EntryTrue, Permits, Creating
  <2>5. PolicyKnown(p)'
    <3>1. pc[p] \in Preparing => authorized'[p] = authorized[p] \cup a
          BY <1>1 DEF Preparing
    <3>2. \A z \in Scope : policy'[z] = IF z = s THEN a ELSE policy[z]
          BY <1>1 DEF IInv, TypeOK
    <3>3. QED BY <1>1, <3>1, <3>2 DEF IInv, CallInv, PolicyKnown, work
  <2>6. QED BY <2>1, <2>2, <2>3, <2>4, <2>5 DEF CallInv
<1>4. QED BY <1>2, <1>3 DEF IInv

(* The inductive invariant holds initially and is kept by every step. *)
LEMMA InitIInv == Init => IInv
<1> SUFFICES ASSUME Init PROVE IInv
    OBVIOUS
<1>1. TypeOK
  <2>1. <<>> \in Seq(Entry) /\ <<>> \in Seq(Issue) /\ <<>> \in Seq(Change)
        /\ <<>> \in Seq(SUBSET Change)
        OBVIOUS
  <2>2. QED BY <2>1, MaxIssuesIsPositive DEF Init, TypeOK, NoEntry, PC
<1>2. ASSUME NEW p \in Call PROVE CallInv(p)
  <2>1. RequestKnown(p) BY DEF Init, RequestKnown, Creating, Preparing
  <2>2. BatchKnown(p) BY DEF Init, BatchKnown, Creating
  <2>3. AgreementKept(p) BY DEF Init, AgreementKept, Creating, Preparing, Underway
  <2>4. EntryTrue(p)
        BY SpecialsAreFresh DEF Init, EntryTrue, Creating, Preparing, NoEntry, Action
  <2>5. PolicyKnown(p) BY DEF Init, PolicyKnown, Preparing
  <2>6. QED BY <2>1, <2>2, <2>3, <2>4, <2>5 DEF CallInv
<1>3. QED BY <1>1, <1>2 DEF IInv

LEMMA StepKeeps ==
    ASSUME NEW p \in Call, IInv, Step(p)
    PROVE  Keeps(p)
BY ReadManifestKeeps, ReadTextKeeps, RefusalsKeep, AuditFailsKeeps, OverruleKeeps, PassKeeps,
   ReadPolicyKeeps, CheckPolicyKeeps, GateAllowsKeeps, ApproveBatchKeeps, SendIssueKeeps,
   NotSentKeeps, RunKeeps, SucceedKeeps, GhFailsKeeps, RunRaisesKeeps, KillKeeps DEF Step

LEMMA KeepsSuffices ==
    ASSUME NEW p \in Call, IInv, Keeps(p)
    PROVE  IInv'
<1>1. ASSUME NEW q \in Call \ {p} PROVE CallInv(q)' BY Bystander DEF IInv, Keeps
<1>2. QED BY <1>1 DEF IInv, Keeps

LEMMA NextIInv == IInv /\ [Next]_vars => IInv'
<1> SUFFICES ASSUME IInv, [Next]_vars PROVE IInv'
    OBVIOUS
<1>1. ASSUME NEW p \in Call, NEW r \in Request, Begin(p, r) \/ UserAllows(p, r) PROVE IInv'
      BY <1>1, BeginKeeps, UserAllowsKeeps, KeepsSuffices
<1>2. ASSUME NEW p \in Call, Step(p) PROVE IInv' BY <1>2, StepKeeps, KeepsSuffices
<1>3. ASSUME NEW p \in Call, Exit(p) PROVE IInv' BY <1>3, ExitKeeps, KeepsSuffices
<1>4. ASSUME NEW p \in Call, Arrive(p) PROVE IInv' BY <1>4, ArriveKeeps, KeepsSuffices
<1>5. ASSUME NEW p \in Call, Lose(p) PROVE IInv' BY <1>5, LoseKeeps, KeepsSuffices
<1>6. CASE Rewrite BY <1>6, RewriteKeeps
<1>7. ASSUME NEW s \in Scope, NEW a \in Policies, Authorize(s, a) PROVE IInv'
      BY <1>7, AuthorizeKeeps
<1>8. CASE UNCHANGED vars
  <2>1. TypeOK' BY <1>8 DEF IInv, TypeOK, vars, world, work, outcome, history
  <2>2. \A q \in Call : LeavesAlone(q)
        BY <1>8 DEF LeavesAlone, vars, world, work, outcome, history
  <2>3. QED BY <2>1, <2>2, Bystander DEF IInv
<1>9. QED BY <1>1, <1>2, <1>3, <1>4, <1>5, <1>6, <1>7, <1>8 DEF Next

LEMMA Invariance == Spec => []IInv
BY InitIInv, NextIInv, PTL DEF Spec

-------------------------------------------------------------------------------
(* The theorems. *)

(* Every variable keeps its type (GitHubWrites). *)
THEOREM TypeCorrect == Spec => []TypeOK
BY Invariance, PTL DEF IInv

(* What the audit entry of a call that has ended says of GitHub is so      *)
(* (cmd.py:569-626).                                                       *)
THEOREM AuditCounts == Spec => []AuditCountsChanges
<1>1. IInv => AuditCountsChanges BY DEF IInv, CallInv, EntryTrue, AuditCountsChanges
<1>2. QED BY <1>1, Invariance, PTL

LEMMA NothingYet ==
    ASSUME NEW p \in Call, IInv, pc[p] \in Preparing
    PROVE  agreed[p] = <<>> /\ made[p] = <<>>
<1>1. agreed[p] = <<>> /\ Len(made[p]) + Underway(p) <= Len(agreed[p])
      BY DEF IInv, CallInv, AgreementKept
<1>2. made[p] \in Seq(Change) /\ Underway(p) \in {0, 1} BY DEF IInv, TypeOK, Underway
<1>3. Len(made[p]) = 0 BY <1>1, <1>2
<1>4. QED BY <1>1, <1>2, <1>3

(* What a step does to what was agreed and what was made. *)
LEMMA LaunchAgrees ==
    ASSUME NEW p \in Call, NEW r, NEW action, IInv, IInv', pc[p] \in Preparing,
           Launch(p, action, r), made' = made
    PROVE  Permit!Next
<1>1. agreed[p] = <<>> /\ made[p] = <<>> BY NothingYet
<1>2. agreed' = [agreed EXCEPT ![p] = agreed'[p]] /\ agreed'[p] \in Seq(SUBSET Change)
      BY DEF Launch, IInv, TypeOK
<1>3. QED BY <1>1, <1>2 DEF Permit!Next, Permit!Agree

LEMMA StepImplements ==
    ASSUME IInv, IInv', [Next]_vars
    PROVE  [Permit!Next]_Permit!vars
<1>1. ASSUME NEW p \in Call, NEW r \in Request, Begin(p, r)
      PROVE  UNCHANGED <<agreed, made>>
      BY <1>1 DEF Begin, Stop, Conclude, Abort, End, outcome, history
<1>2. ASSUME NEW p \in Call, NEW r \in Request, UserAllows(p, r)
      PROVE  [Permit!Next]_Permit!vars
  <2>1. CASE Rejected(r) \/ Invalid(r)
        BY <1>2, <2>1 DEF UserAllows, Stop, Conclude, Abort, End, outcome, history, Permit!vars
  <2>2. CASE ~(Rejected(r) \/ Invalid(r))
        BY <1>2, <2>2, LaunchAgrees DEF UserAllows, Preparing, outcome
  <2>3. QED BY <2>1, <2>2
<1>3. ASSUME NEW p \in Call, Step(p) PROVE [Permit!Next]_Permit!vars
  <2>1. CASE \/ ReadManifest(p) \/ ReadText(p) \/ AuditFails(p) \/ Blocked(p)
             \/ ReadPolicy(p) \/ PolicyError(p)
             \/ GateStops(p) \/ RefuseBatch(p) \/ SendIssue(p) \/ NotSent(p) \/ Run(p)
             \/ Succeed(p) \/ GhFails(p) \/ RunRaises(p) \/ Kill(p)
    <3>1. UNCHANGED <<agreed, made>>
          BY <2>1 DEF ReadManifest, ReadText, AuditFails, Blocked, ReadPolicy, PolicyError,
                      GateStops, RefuseBatch, SendIssue, NotSent, Run, Succeed, GhFails, RunRaises,
                      Kill, Stop, Conclude, Abort, End, outcome, history
    <3>2. QED BY <3>1 DEF Permit!vars
  <2>2. CASE Overrule(p)
        BY <2>2, LaunchAgrees DEF Overrule, Preparing, outcome
  <2>3. CASE Pass(p)
    <3>1. CASE KnownRead(request[p])
          BY <2>3, <3>1, LaunchAgrees DEF Pass, Preparing, outcome
    <3>2. CASE ~KnownRead(request[p])
          BY <2>3, <3>2 DEF Pass, outcome, Permit!vars
    <3>3. QED BY <3>1, <3>2
  <2>4. CASE CheckPolicy(p)
    <3>1. CASE Permits(conf[p] \cup policy["global"], request[p])
          BY <2>4, <3>1, LaunchAgrees DEF CheckPolicy, Preparing, outcome
    <3>2. CASE ~Permits(conf[p] \cup policy["global"], request[p])
          BY <2>4, <3>2 DEF CheckPolicy, outcome, Permit!vars
    <3>3. QED BY <3>1, <3>2
  <2>5. CASE GateAllows(p)
        BY <2>5, LaunchAgrees DEF GateAllows, Preparing, outcome
  <2>6. CASE ApproveBatch(p)
    <3>0. pc[p] \in Preparing /\ made' = made BY <2>6 DEF ApproveBatch, Preparing, outcome
    <3>1. agreed[p] = <<>> /\ made[p] = <<>> BY <3>0, NothingYet
    <3>2. agreed' = [agreed EXCEPT ![p] = agreed'[p]] /\ agreed'[p] \in Seq(SUBSET Change)
          BY <2>6 DEF ApproveBatch, IInv, TypeOK
    <3>3. QED BY <3>0, <3>1, <3>2 DEF Permit!Next, Permit!Agree
  <2>7. QED BY <1>3, <2>1, <2>2, <2>3, <2>4, <2>5, <2>6 DEF Step
<1>4. ASSUME NEW p \in Call, Exit(p) PROVE Permit!Next
      BY <1>4 DEF Exit, Permit!Next, Permit!Finish
<1>5. ASSUME NEW p \in Call, Arrive(p) PROVE Permit!Next
  <2>1. /\ Len(made[p]) + 1 <= Len(agreed[p]) /\ sent[p] \in agreed[p][Len(made[p]) + 1]
        BY <1>5 DEF Arrive, IInv, CallInv, AgreementKept, Underway
  <2>2. Len(made[p]) \in Nat /\ Len(agreed[p]) \in Nat BY DEF IInv, TypeOK
  <2>3. Len(made[p]) < Len(agreed[p]) BY <2>1, <2>2
  <2>4. made' = [made EXCEPT ![p] = Append(@, sent[p])] /\ agreed' = agreed
        BY <1>5 DEF Arrive, history
  <2>5. QED BY <2>1, <2>3, <2>4 DEF Permit!Next, Permit!Make
<1>6. ASSUME NEW p \in Call, Lose(p) PROVE UNCHANGED <<agreed, made>>
      BY <1>6 DEF Lose, history
<1>7. CASE Rewrite BY <1>7 DEF Rewrite, outcome, history, Permit!vars
<1>8. ASSUME NEW s \in Scope, NEW a \in Policies, Authorize(s, a)
      PROVE  UNCHANGED <<agreed, made>>
      BY <1>8 DEF Authorize, outcome
<1>9. CASE UNCHANGED vars BY <1>9 DEF vars, outcome, history, Permit!vars
<1>10. QED BY <1>1, <1>2, <1>3, <1>4, <1>5, <1>6, <1>7, <1>8, <1>9 DEF Next, Permit!vars

(* A call changes on GitHub what was agreed to, in order and once, however *)
(* the files, the rules and the network change meanwhile.                  *)
THEOREM PermitImplemented == Spec => ImplementsGitHubPermit
<1>1. Init => Permit!Init BY DEF Init, Permit!Init
<1>2. IInv /\ IInv' /\ [Next]_vars => [Permit!Next]_Permit!vars BY StepImplements
<1>3. QED BY <1>1, <1>2, Invariance, PTL DEF Spec, Permit!Spec, ImplementsGitHubPermit

(* What fulfils a request is of its kind, and where it says. *)
LEMMA FulfilledWhere ==
    ASSUME NEW r, NEW x \in Fulfilling(r)
    PROVE  \/ r.verb \in Typed /\ x.op = r.verb /\ x.where = ValueOf(r.words, "--repo")
           \/ r.verb = "api" /\ Writes(r.words) /\ x.where = Endpoint(r.words)
<1>1. CASE r.verb = "pr.review-reply"
  <2> DEFINE T == IF "--body" \in Flags(r.words) THEN {ValueOf(r.words, "--body")}
                  ELSE Text \cup {Unfit}
  <2>2. Fulfilling(r) = {OnGitHub(r.verb, ValueOf(r.words, "--repo"), "", t) : t \in T}
        BY <1>1, Zenon DEF Fulfilling
  <2> HIDE DEF T
  <2>3. PICK t \in T : x = OnGitHub(r.verb, ValueOf(r.words, "--repo"), "", t) BY <2>2
  <2>4. QED BY <1>1, <2>3 DEF OnGitHub, Typed
<1>2. CASE r.verb = "issue.add-sub-issue"
  <2>1. Fulfilling(r) = {OnGitHub(r.verb, ValueOf(r.words, "--repo"), "", "")}
        BY <1>2 DEF Fulfilling
  <2>2. x = OnGitHub(r.verb, ValueOf(r.words, "--repo"), "", "") BY <2>1
  <2>3. QED BY <1>2, <2>2 DEF OnGitHub, Typed
<1>3. CASE r.verb = "api" /\ Writes(r.words)
  <2>1. Fulfilling(r) = {OnGitHub("api", Endpoint(r.words), "", "")}
        BY <1>3 DEF Fulfilling
  <2>2. x = OnGitHub("api", Endpoint(r.words), "", "") BY <2>1
  <2>3. QED BY <1>3, <2>2 DEF OnGitHub
<1>4. CASE r.verb \notin Typed /\ ~(r.verb = "api" /\ Writes(r.words))
  <2>1. Fulfilling(r) = {} BY <1>4 DEF Fulfilling, Typed
  <2>2. QED BY <2>1
<1>5. QED BY <1>1, <1>2, <1>3, <1>4 DEF Typed

(* Of a request handed to gh, what has changed is what it comes to. *)
LEMMA MadeByRun ==
    ASSUME NEW p \in Call, IInv, run[p] # None, NEW i \in DOMAIN made[p]
    PROVE  made[p][i] \in Fulfilling(run[p]) /\ Vetted(run[p])
<1> DEFINE F == Fulfilling(run[p])
<1> HIDE DEF F
<1>1. agreed[p] = <<F>> /\ Vetted(run[p]) /\ made[p][i] \in agreed[p][i]
      BY DEF F, IInv, CallInv, AgreementKept, RequestKnown
<1>2. Len(made[p]) + Underway(p) <= Len(agreed[p]) BY DEF IInv, CallInv, AgreementKept
<1>3. Len(agreed[p]) = 1 /\ Underway(p) \in {0, 1} BY <1>1 DEF Underway
<1>4. made[p] \in Seq(Change) BY DEF IInv, TypeOK
<1>5. i = 1 BY <1>2, <1>3, <1>4
<1>6. QED BY <1>1, <1>5 DEF F

(* An argument that is nobody's value is looked at. *)
LEMMA Looked ==
    ASSUME NEW words \in Seq(Argument), NEW T, NEW i \in DOMAIN words,
           i = 1 \/ ~Takes(words[i - 1], T)
    PROVE  i \in Starts(words, T)
<1> DEFINE chain == {k \in 1..i - 1 : \A j \in k..i - 1 : Takes(words[j], T)}
<1>1. i \in Nat \ {0} BY LenProperties
<1>2. chain = {}
  <2>1. ASSUME NEW k \in chain PROVE FALSE
    <3>1. i - 1 \in k..i - 1 /\ i # 1 BY <1>1
    <3>2. QED BY <3>1
  <2>2. QED BY <2>1
<1>3. Cardinality(chain) % 2 = 0
  <2> HIDE DEF chain
  <2>1. Cardinality(chain) = 0 BY <1>2, FS_EmptySet
  <2>2. QED BY <2>1
<1>4. QED BY <1>3 DEF Starts

(* In a normal shape options are nobody's value. *)
LEMMA OptionLooked ==
    ASSUME NEW r \in Request, NormalShape(r.words), NEW T, T \subseteq GhOption,
           NEW i \in DOMAIN r.words, r.words[i].flag # "-"
    PROVE  i \in Starts(r.words, T)
<1>1. r.words \in Seq(Argument) BY RequestsAreTyped
<1>2. r.words[i].join # "text" BY RequestsAreTyped
<1>3. ASSUME i # 1, Takes(r.words[i - 1], T) PROVE FALSE
  <2>1. i - 1 \in DOMAIN r.words /\ i - 1 < Len(r.words) /\ (i - 1) + 1 = i
    BY <1>1, <1>3, LenProperties
  <2>2. Takes(r.words[i - 1], GhOption) BY <1>3 DEF Takes
  <2>3. QED BY <1>2, <2>1, <2>2 DEF NormalShape
<1>4. QED BY <1>1, <1>3, Looked

(* Of all options gh finds those that are there. *)
LEMMA OptionsFound ==
    ASSUME NEW r \in Request, NormalShape(r.words), NEW F, F \subseteq GhOption
    PROVE  GhArguments(r.words, F) = {i \in DOMAIN r.words : r.words[i].flag \in F}
<1>1. ASSUME NEW i \in DOMAIN r.words, r.words[i].flag \in F
      PROVE  i \in Starts(r.words, GhOption)
  <2>1. r.words[i].flag # "-" BY <1>1 DEF GhOption, RestOption
  <2>2. QED BY <2>1, OptionLooked
<1>2. QED BY <1>1 DEF GhArguments, Starts

(* With at most one method given, gh takes the one ozm takes it to be. *)
LEMMA SameMethod ==
    ASSUME NEW r \in Request, NormalShape(r.words), NEW data,
           Cardinality(GhArguments(r.words, {"-X"})) <= 1,
           data <=> GhArguments(r.words, {"-f", "--input"}) # {}
    PROVE  GhMethod(r.words) = MethodOf(r.words, GhArguments(r.words, {"-X"}), data)
<1> DEFINE X == GhArguments(r.words, {"-X"})
           words == r.words
<1>1. words \in Seq(Argument) BY RequestsAreTyped
<1>2. X \subseteq DOMAIN words BY DEF GhArguments, Starts
<1>3. CASE X = {} BY <1>3 DEF GhMethod, MethodOf
<1>4. CASE X # {}
  <2>0. Cardinality(X) \in Nat /\ Cardinality(X) # 0 BY <1>1, <1>2, <1>4, StartsCounted
  <2>1. Cardinality(X) = 1 BY <2>0
  <2>2. PICK k : X = {k} BY <1>1, <1>2, <2>1, StartsCounted
  <2>3. k \in Nat
    <3>1. DOMAIN words = 1..Len(words) BY <1>1, LenProperties, Zenon
    <3>2. k \in 1..Len(words) BY <1>2, <2>2, <3>1, Zenon
    <3>3. QED BY <3>2
  <2>4. (CHOOSE i \in X : \A j \in X : j <= i) = k
    <3>1. (CHOOSE i \in {k} : \A j \in {k} : j <= i) = k BY <2>3
    <3>2. QED BY <2>2, <3>1
  <2>5. (CHOOSE i \in X : TRUE) = k BY <2>2
  <2>6. words[k].join # "short=" BY <1>2, <2>2 DEF NormalShape
  <2>7. GhMethod(words) = Given(words, k).value BY <1>4, <2>4 DEF GhMethod
  <2>8. MethodOf(words, X, data) = MethodAt(words, k) BY <1>4, <2>5 DEF MethodOf
  <2>9. QED BY <2>6, <2>7, <2>8 DEF MethodAt
<1>5. QED BY <1>3, <1>4

(* A raw POST of a normal shape to an endpoint of a typed operation is     *)
(* recognized.                                                             *)
LEMMA RawPostFound ==
    ASSUME NEW r \in Request, r.verb = "api", Writes(r.words), NormalShape(r.words),
           Endpoint(r.words) \in Target, GhMethod(r.words) = "POST",
           Cardinality(GhArguments(r.words, {"-X"})) <= 1
    PROVE  RawWrite(r)
<1> DEFINE words == r.words
           e == Endpoint(words)
<1>1. words \in Seq(Argument) BY RequestsAreTyped
<1>2. RawMethods(words) = GhArguments(words, {"-X"})
  <2>1. ASSUME NEW i \in RawMethods(words) PROVE i \in GhArguments(words, {"-X"})
    <3>1. i \in DOMAIN words /\ words[i].flag = "-X" BY DEF RawMethods, Starts
    <3>2. i \in Starts(words, GhOption) BY <3>1, OptionLooked
    <3>3. QED BY <3>1, <3>2 DEF GhArguments
  <2>2. ASSUME NEW i \in GhArguments(words, {"-X"}) PROVE i \in RawMethods(words)
    <3>1. i \in DOMAIN words /\ i \in Starts(words, GhOption) /\ words[i].flag = "-X"
      BY DEF GhArguments, Starts
    <3>2. i \in Starts(words, {"-X"}) BY <3>1, OptionLooked DEF GhOption, RestOption
    <3>3. ~Bare(words, i, {"-X"})
      BY <3>1 DEF Writes, Accepted, Bare, Takes, GhOption, RestOption
    <3>4. words[i].join # "cluster" BY <3>1 DEF NormalShape
    <3>5. QED BY <3>1, <3>2, <3>3, <3>4 DEF RawMethods
  <2>3. QED BY <2>1, <2>2
<1>3. HasRequestData(words) <=> GhArguments(words, {"-f", "--input"}) # {}
  <2>1. GhArguments(words, {"-f", "--input"}) =
          {i \in DOMAIN words : words[i].flag \in {"-f", "--input"}}
    BY OptionsFound DEF GhOption, RestOption
  <2>2. QED BY <2>1 DEF HasRequestData, NormalShape
<1>4. MethodOf(words, RawMethods(words), HasRequestData(words)) = "POST"
  BY <1>2, <1>3, SameMethod
<1>5. OneMatches(words, e)
  <2>1. PICK k \in DOMAIN words : GhEndpoints(words) = {k} /\ IsEndpoint(words[k], e)
    BY EndpointKnown
  <2>2. ASSUME NEW j \in DOMAIN words, IsEndpoint(words[j], e) PROVE j = k
    <3>1. CASE j \in Starts(words, GhOption)
      <4>1. j \in GhEndpoints(words) BY <2>2, <3>1 DEF GhEndpoints, IsEndpoint
      <4>2. QED BY <2>1, <4>1
    <3>2. CASE j \notin Starts(words, GhOption)
      <4>1. j # 1 /\ Takes(words[j - 1], GhOption) BY <1>1, <3>2, Looked
      <4>2. j - 1 \in DOMAIN words /\ j - 1 < Len(words) /\ (j - 1) + 1 = j
        BY <1>1, <4>1, LenProperties
      <4>3. QED BY <2>2, <4>1, <4>2 DEF NormalShape
    <3>3. QED BY <3>1, <3>2
  <2>3. {i \in DOMAIN words : IsEndpoint(words[i], e)} = {k} BY <2>1, <2>2
  <2>4. Cardinality({k}) = 1 BY FS_Singleton
  <2>5. QED BY <2>3, <2>4 DEF OneMatches
<1>6. Cardinality(RawMethods(words)) <= 1 BY <1>2
<1>7. QED BY <1>4, <1>5, <1>6 DEF RawWrite

(* A reply or a sub-issue that is asked for in a normal shape never        *)
(* reaches GitHub as a raw POST, but for a request with several methods    *)
(* (github_operations.py:453-508).                                         *)
THEOREM RawNeverReaches == Spec => []RawNeverSent
<1>1. IInv => RawNeverSent
  <2> SUFFICES ASSUME IInv, NEW p \in Call, NEW i \in DOMAIN made[p],
                      made[p][i].op = "api", made[p][i].where \in Target,
                      ~(Cardinality(GhArguments(run[p].words, {"-X"})) > 1),
                      NormalShape(run[p].words)
               PROVE  GhMethod(run[p].words) # "POST"
      BY DEF RawNeverSent
  <2> DEFINE x == made[p][i]
             words == run[p].words
  <2>1. run[p] # None
    <3>1. Len(made[p]) + Underway(p) <= Len(agreed[p]) /\ x \in agreed[p][i]
          BY DEF IInv, CallInv, AgreementKept
    <3>2. made[p] \in Seq(Change) /\ agreed[p] \in Seq(SUBSET Change) /\ Underway(p) \in {0, 1}
          BY DEF IInv, TypeOK, Underway
    <3>3. i \in DOMAIN agreed[p] BY <3>1, <3>2
    <3>4. run[p] = None => x.op = "issue" BY <3>1, <3>3 DEF IInv, CallInv, AgreementKept
    <3>5. QED BY <3>4
  <2>2. x \in Fulfilling(run[p]) /\ Vetted(run[p]) BY <2>1, MadeByRun
  <2>3. /\ run[p].verb = "api" /\ Writes(words)
        /\ x.where = Endpoint(words)
    <3>1. run[p].verb \in Typed => x.op # "api"
          BY <2>2, FulfilledWhere DEF Typed
    <3>2. QED BY <2>2, <3>1, FulfilledWhere
  <2>4. run[p] \in Request /\ ~RawWrite(run[p]) BY <2>2 DEF Vetted
  <2>5. Cardinality(GhArguments(words, {"-X"})) \in Nat
    <3>1. words \in Seq(Argument) BY <2>4, RequestsAreTyped
    <3>2. GhArguments(words, {"-X"}) \subseteq DOMAIN words BY DEF GhArguments, Starts
    <3>3. QED BY <3>1, <3>2, StartsCounted
  <2>6. QED BY <2>3, <2>4, <2>5, RawPostFound
<1>2. QED BY <1>1, Invariance, PTL

(* What is taken for a REST read writes nothing. *)
LEMMA RestReadWritesNothing ==
    ASSUME NEW r \in Request, RestRequest(r), RestMethod(r) \in {"GET", "HEAD"},
           NormalShape(r.words)
    PROVE  ~Writes(r.words)
<1> DEFINE words == r.words
<1> SUFFICES ASSUME Writes(words) PROVE FALSE OBVIOUS
<1>1. words \in Seq(Argument) BY RequestsAreTyped
<1>2. ASSUME NEW j \in DOMAIN words PROVE words[j].flag # "--input"
  <2>1. ASSUME words[j].flag = "--input" PROVE FALSE
    <3>1. j \in Starts(words, RestOption) BY <2>1, OptionLooked DEF GhOption
    <3>2. QED BY <2>1, <3>1 DEF RestRequest, Unclear
  <2>2. QED BY <2>1
<1>3. Starts(words, GhOption) = Starts(words, RestOption)
  <2>1. \A j \in DOMAIN words : Takes(words[j], GhOption) <=> Takes(words[j], RestOption)
    BY <1>2 DEF Takes, GhOption
  <2>2. ASSUME NEW i \in DOMAIN words
        PROVE  {k \in 1..i - 1 : \A j \in k..i - 1 : Takes(words[j], GhOption)}
                  = {k \in 1..i - 1 : \A j \in k..i - 1 : Takes(words[j], RestOption)}
    <3>1. \A k \in 1..i - 1 : \A j \in k..i - 1 : j \in DOMAIN words BY <1>1, LenProperties
    <3>2. QED BY <2>1, <3>1
  <2>3. QED BY <2>2, Zenon DEF Starts
<1>4. \A F : GhArguments(words, F) = RestArguments(words, F)
  BY <1>3 DEF GhArguments, RestArguments
<1>5. GhArguments(words, {"-f", "--input"}) = RestArguments(words, {"-f"})
  BY <1>2, <1>3 DEF GhArguments, RestArguments, Starts
<1>6. GhMethod(words) = RestMethod(r)
  <2>1. Cardinality(GhArguments(words, {"-X"})) <= 1 BY <1>4 DEF RestRequest
  <2>2. GhMethod(words) =
          MethodOf(words, GhArguments(words, {"-X"}), RestArguments(words, {"-f"}) # {})
    BY <1>5, <2>1, SameMethod
  <2>3. QED BY <1>4, <2>2 DEF RestMethod
<1>7. Endpoint(words) # "graphql"
  <2>1. PICK k \in DOMAIN words : GhEndpoints(words) = {k} /\ Endpoint(words) = words[k].value
    BY EndpointKnown DEF RestRequest
  <2>2. k \in RestEndpoints(words) BY <1>3, <2>1 DEF GhEndpoints, RestEndpoints
  <2>3. QED BY <2>1, <2>2 DEF RestRequest
<1>8. ASSUME NEW i \in GhArguments(words, {"-H"}) PROVE Given(words, i).value # "override"
  <2>1. i \in Starts(words, RestOption) /\ i \in DOMAIN words /\ words[i].flag = "-H"
    BY <1>3 DEF GhArguments, Starts
  <2>2. ~Unclear(words, i) /\ words[i].join # "short="
    BY <2>1 DEF RestRequest, NormalShape
  <2>3. QED BY <2>1, <2>2 DEF Unclear
<1>9. QED BY <1>6, <1>7, <1>8 DEF Writes

-------------------------------------------------------------------------------
(* GraphQL documents: the end of a definition, and the recursion over the *)
(* definitions.                                                            *)

(* What a definition that ends later is made of is known when it begins.   *)
LEMMA EndsLater ==
    ASSUME NEW ts \in Seq(STRING), NEW i \in 1..Len(ts), NEW e \in DefinitionEnd(ts, i)
    PROVE  e \in i..Len(ts)
<1>1. \A j \in Nat : SelectionStart(ts, j) \subseteq j..Len(ts)
  BY DEF SelectionStart, First
<1>2. \A j \in Nat : SelectionEnd(ts, j) \subseteq j..Len(ts)
  BY DEF SelectionEnd, First
<1> DEFINE start == CASE ts[i] = "{" -> {i}
                      [] ts[i] = "fragment" -> SelectionStart(ts, i + 1)
                      [] ts[i] \in OperationKind ->
                            SelectionStart(ts, IF Named(ts, i) THEN i + 2 ELSE i + 1)
                      [] OTHER -> {}
<1>3. Len(ts) \in Nat /\ i \in Nat BY LenProperties
<1>4. DefinitionEnd(ts, i) = UNION {SelectionEnd(ts, s) : s \in start} BY DEF DefinitionEnd
<1>5. start \subseteq i..Len(ts)
  <2>1. CASE ts[i] = "{"
    <3>1. start = {i} BY <2>1 DEF OperationKind
    <3> HIDE DEF start
    <3>2. QED BY <1>3, <3>1
  <2>2. CASE ts[i] = "fragment"
    <3>1. start = SelectionStart(ts, i + 1) BY <2>2 DEF OperationKind
    <3> HIDE DEF start
    <3>2. start \subseteq i + 1..Len(ts) BY <1>1, <1>3, <3>1
    <3>3. QED BY <1>3, <3>2
  <2>3. CASE ts[i] \in OperationKind
    <3>1. start \in {SelectionStart(ts, i + 1), SelectionStart(ts, i + 2)}
      BY <2>3 DEF OperationKind
    <3> HIDE DEF start
    <3>2. start \subseteq i + 1..Len(ts) \/ start \subseteq i + 2..Len(ts) BY <1>1, <1>3, <3>1
    <3>3. QED BY <1>3, <3>2
  <2>4. CASE ts[i] \notin OperationKind \cup {"{", "fragment"}
    <3>1. start = {} BY <2>4
    <3> HIDE DEF start
    <3>2. QED BY <3>1
  <2>5. QED BY <2>1, <2>2, <2>3, <2>4
<1> HIDE DEF start
<1>6. PICK s \in start : e \in SelectionEnd(ts, s) BY <1>4
<1>7. s \in i..Len(ts) BY <1>5
<1>8. s \in Nat /\ i <= s BY <1>3, <1>7
<1>9. e \in s..Len(ts) BY <1>2, <1>6, <1>8
<1>10. QED BY <1>3, <1>8, <1>9

(* OperationsFrom is defined: from the end backwards. *)
LEMMA OperationsFromIs ==
    ASSUME NEW ts \in Seq(STRING)
    PROVE  /\ OperationsFrom(ts)[Len(ts) + 1] = {<<>>}
           /\ \A i \in 1..Len(ts) :
                 OperationsFrom(ts)[i] =
                    {OperationAt(ts, i) \o rest :
                       rest \in UNION {OperationsFrom(ts)[e + 1] : e \in DefinitionEnd(ts, i)}}
<1> DEFINE N == Len(ts) + 1
           Body(f, i) == IF i = N THEN {<<>>}
                         ELSE {OperationAt(ts, i) \o rest :
                                 rest \in UNION {f[e + 1] : e \in DefinitionEnd(ts, i)}}
           Loop(k, f) == f = [i \in N - k..N |-> Body(f, i)]
           S == {k \in Nat : k <= Len(ts) => \E f : Loop(k, f)}
<1>1. Len(ts) \in Nat BY LenProperties
<1>2. 0 \in S
  <2>1. Loop(0, [i \in N..N |-> {<<>>}]) BY <1>1
  <2> HIDE DEF Loop
  <2>2. QED BY <2>1
<1>3. ASSUME NEW k \in Nat, k \in S PROVE k + 1 \in S
  <2> SUFFICES ASSUME k + 1 <= Len(ts) PROVE \E f : Loop(k + 1, f)
    <3> HIDE DEF Loop
    <3>1. QED OBVIOUS
  <2>1. PICK f : Loop(k, f)
    <3> HIDE DEF Loop
    <3>1. QED BY <1>1, <1>3
  <2> DEFINE m == N - (k + 1)
             g == [i \in m..N |-> IF i = m THEN Body(f, m) ELSE f[i]]
  <2>2. m \in 1..Len(ts) /\ m + 1 = N - k BY <1>1
  <2>3. \A i \in m + 1..N : g[i] = f[i] BY <1>1
  <2>4. DOMAIN g = m..N /\ g = [i \in m..N |-> g[i]] OBVIOUS
  <2>5. g[m] = Body(f, m) BY <1>1
  <2>6. \A i \in m + 1..N : f[i] = Body(f, i) BY <2>1, <2>2
  <2> HIDE DEF g
  <2>7. ASSUME NEW i \in m..N PROVE Body(g, i) = Body(f, i)
    <3>1. CASE i = N BY <3>1
    <3>2. CASE i # N
      <4>1. i \in 1..Len(ts) BY <1>1, <2>2, <3>2
      <4>2. ASSUME NEW e \in DefinitionEnd(ts, i) PROVE g[e + 1] = f[e + 1]
        <5>1. e \in i..Len(ts) BY <4>1, <4>2, EndsLater
        <5>2. e + 1 \in m + 1..N BY <1>1, <2>2, <4>1, <5>1
        <5>3. QED BY <2>3, <5>2
      <4>3. {g[e + 1] : e \in DefinitionEnd(ts, i)} = {f[e + 1] : e \in DefinitionEnd(ts, i)}
        BY <4>2
      <4>4. QED BY <3>2, <4>3
    <3>3. QED BY <3>1, <3>2
  <2> HIDE DEF Body
  <2>8. ASSUME NEW i \in m..N PROVE g[i] = Body(g, i)
    <3>1. i = m \/ i \in m + 1..N BY <1>1, <2>2
    <3>2. g[i] = Body(f, i) BY <2>3, <2>5, <2>6, <3>1
    <3>3. QED BY <2>7, <3>2
  <2>9. Loop(k + 1, g) BY <2>4, <2>8
  <2> HIDE DEF Loop
  <2>10. QED BY <2>9
<1>4. \E f : Loop(Len(ts), f)
  <2>1. Len(ts) \in S
    <3> HIDE DEF S
    <3>1. QED BY <1>1, <1>2, <1>3, Induct
  <2> HIDE DEF Loop
  <2>2. QED BY <1>1, <2>1
<1>5. OperationsFrom(ts) = CHOOSE f : f = [i \in 1..N |-> Body(f, i)] BY DEF OperationsFrom
<1>6. N - Len(ts) = 1 BY <1>1
<1>7. \E f : f = [i \in 1..N |-> Body(f, i)]
  <2> HIDE DEF Body
  <2>1. QED BY <1>4, <1>6
<1>8. OperationsFrom(ts) = [i \in 1..N |-> Body(OperationsFrom(ts), i)]
  <2> HIDE DEF Body
  <2>1. QED BY <1>5, <1>7
<1>9. \A i \in 1..N : OperationsFrom(ts)[i] = Body(OperationsFrom(ts), i)
  <2> HIDE DEF Body
  <2>1. QED BY <1>8
<1>10. N \in 1..N /\ \A i \in 1..Len(ts) : i \in 1..N /\ i # N BY <1>1
<1>11. QED BY <1>9, <1>10


(* The tokens of a definition. *)
Pieces(kind, name, head, fields) == Word(kind) \o Word(name) \o head \o fields
Piece(d) == Pieces(d.kind, d.name, d.head, d.fields)

(* RenderedFrom is defined, likewise. *)
LEMMA RenderedFromIs ==
    ASSUME NEW D \in Seq(Definition)
    PROVE  /\ RenderedFrom(D)[Len(D) + 1] = <<>>
           /\ \A i \in 1..Len(D) : RenderedFrom(D)[i] = Piece(D[i]) \o RenderedFrom(D)[i + 1]
<1> DEFINE N == Len(D) + 1
           Body(f, i) == IF i = N THEN <<>> ELSE Piece(D[i]) \o f[i + 1]
           Loop(k, f) == f = [i \in N - k..N |-> Body(f, i)]
           S == {k \in Nat : k <= Len(D) => \E f : Loop(k, f)}
<1>1. Len(D) \in Nat BY LenProperties
<1>2. 0 \in S
  <2>1. Loop(0, [i \in N..N |-> <<>>]) BY <1>1
  <2> HIDE DEF Loop
  <2>2. QED BY <2>1
<1>3. ASSUME NEW k \in Nat, k \in S PROVE k + 1 \in S
  <2> SUFFICES ASSUME k + 1 <= Len(D) PROVE \E f : Loop(k + 1, f)
    <3> HIDE DEF Loop
    <3>1. QED OBVIOUS
  <2>1. PICK f : Loop(k, f)
    <3> HIDE DEF Loop
    <3>1. QED BY <1>1, <1>3
  <2> DEFINE m == N - (k + 1)
             g == [i \in m..N |-> IF i = m THEN Body(f, m) ELSE f[i]]
  <2>2. m \in 1..Len(D) /\ m + 1 = N - k BY <1>1
  <2>3. \A i \in m + 1..N : g[i] = f[i] BY <1>1
  <2>4. DOMAIN g = m..N /\ g = [i \in m..N |-> g[i]] OBVIOUS
  <2>5. g[m] = Body(f, m) BY <1>1
  <2>6. \A i \in m + 1..N : f[i] = Body(f, i) BY <2>1, <2>2
  <2> HIDE DEF g
  <2>7. ASSUME NEW i \in m..N PROVE Body(g, i) = Body(f, i)
    <3>1. CASE i = N BY <3>1
    <3>2. CASE i # N
      <4>1. i + 1 \in m + 1..N BY <1>1, <2>2, <3>2
      <4>2. QED BY <2>3, <3>2, <4>1
    <3>3. QED BY <3>1, <3>2
  <2> HIDE DEF Body
  <2>8. ASSUME NEW i \in m..N PROVE g[i] = Body(g, i)
    <3>1. i = m \/ i \in m + 1..N BY <1>1, <2>2
    <3>2. g[i] = Body(f, i) BY <2>3, <2>5, <2>6, <3>1
    <3>3. QED BY <2>7, <3>2
  <2>9. Loop(k + 1, g) BY <2>4, <2>8
  <2> HIDE DEF Loop
  <2>10. QED BY <2>9
<1>4. \E f : Loop(Len(D), f)
  <2>1. Len(D) \in S
    <3> HIDE DEF S
    <3>1. QED BY <1>1, <1>2, <1>3, Induct
  <2> HIDE DEF Loop
  <2>2. QED BY <1>1, <2>1
<1>5. RenderedFrom(D) = CHOOSE f : f = [i \in 1..N |-> Body(f, i)]
  BY DEF RenderedFrom, Piece, Pieces
<1>6. N - Len(D) = 1 BY <1>1
<1>7. \E f : f = [i \in 1..N |-> Body(f, i)]
  <2> HIDE DEF Body
  <2>1. QED BY <1>4, <1>6
<1>8. RenderedFrom(D) = [i \in 1..N |-> Body(RenderedFrom(D), i)]
  <2> HIDE DEF Body
  <2>1. QED BY <1>5, <1>7
<1>9. \A i \in 1..N : RenderedFrom(D)[i] = Body(RenderedFrom(D), i)
  <2> HIDE DEF Body
  <2>1. QED BY <1>8
<1>10. N \in 1..N /\ \A i \in 1..Len(D) : i \in 1..N /\ i # N BY <1>1
<1>11. QED BY <1>9, <1>10

(* From a on, ts goes on with h.  *)
At(ts, a, h) ==
    /\ a + Len(h) <= Len(ts)
    /\ \A k \in 1..Len(h) : ts[a + k] = h[k]

LEMMA AtSplit ==
    ASSUME NEW ts \in Seq(STRING), NEW a \in Nat, NEW h \in Seq(STRING), NEW g \in Seq(STRING),
           At(ts, a, h \o g)
    PROVE  At(ts, a, h) /\ At(ts, a + Len(h), g)
<1>1. Len(h) \in Nat /\ Len(g) \in Nat /\ Len(ts) \in Nat BY LenProperties
<1>2. Len(h \o g) = Len(h) + Len(g) BY ConcatProperties
<1>3. ASSUME NEW k \in 1..Len(h) PROVE ts[a + k] = h[k]
  <2>1. (h \o g)[k] = h[k] BY <1>1, ConcatProperties
  <2>2. QED BY <1>1, <1>2, <2>1 DEF At
<1>4. ASSUME NEW k \in 1..Len(g) PROVE ts[a + Len(h) + k] = g[k]
  <2>1. (h \o g)[Len(h) + k] = g[k] BY <1>1, ConcatProperties
  <2>2. Len(h) + k \in 1..Len(h \o g) BY <1>1, <1>2
  <2>3. ts[a + (Len(h) + k)] = (h \o g)[Len(h) + k] BY <2>2 DEF At
  <2>4. a + (Len(h) + k) = a + Len(h) + k BY <1>1
  <2>5. QED BY <2>1, <2>3, <2>4
<1>5. a + (Len(h) + Len(g)) <= Len(ts) BY <1>2 DEF At
<1>6. QED BY <1>1, <1>3, <1>4, <1>5 DEF At

-------------------------------------------------------------------------------
(* Counting. *)

LEMMA CountType ==
    ASSUME NEW ts, NEW t, NEW i \in Nat, NEW j \in Nat
    PROVE  Count(ts, t, i, j) \in Nat
<1>1. IsFiniteSet(i..j) BY FS_Interval
<1>2. {k \in i..j : ts[k] = t} \in SUBSET (i..j) OBVIOUS
<1>3. IsFiniteSet({k \in i..j : ts[k] = t}) BY <1>1, <1>2, FS_Subset
<1>4. QED BY <1>3, FS_CardinalityType DEF Count

(* Another token adds nothing.  *)
LEMMA CountSkips ==
    ASSUME NEW ts, NEW t, NEW i \in Nat, NEW j \in Nat, ts[j + 1] # t
    PROVE  Count(ts, t, i, j + 1) = Count(ts, t, i, j)
<1>1. \A k : k \in i..j + 1 /\ ts[k] = t <=> k \in i..j /\ ts[k] = t
  <2>1. \A k \in i..j + 1 : k # j + 1 => k \in i..j BY SMT
  <2>2. i..j \subseteq i..j + 1 BY SMT
  <2>3. QED BY <2>1, <2>2
<1>2. {k \in i..j + 1 : ts[k] = t} = {k \in i..j : ts[k] = t} BY <1>1
<1>3. QED BY <1>2 DEF Count

(* Tokens are counted alike in h and where ts goes on with it. *)
LEMMA CountMoves ==
    ASSUME NEW ts \in Seq(STRING), NEW a \in Nat, NEW h \in Seq(STRING), At(ts, a, h),
           NEW t, NEW m \in 0..Len(h)
    PROVE  Count(ts, t, a + 1, a + m) = Count(h, t, 1, m)
<1> DEFINE X == {k \in 1..m : h[k] = t}
           Y == {k \in a + 1..a + m : ts[k] = t}
           f == [k \in X |-> a + k]
<1>1. Len(h) \in Nat /\ m \in Nat BY LenProperties
<1>2. IsFiniteSet(X)
  <2>1. IsFiniteSet(1..m) /\ X \in SUBSET (1..m) BY <1>1, FS_Interval
  <2>2. QED BY <2>1, FS_Subset
<1>3. \A k \in 1..m : ts[a + k] = h[k]
  <2>1. 1..m \subseteq 1..Len(h) BY <1>1, SMT
  <2>2. QED BY <2>1 DEF At
<1>4. f \in [X -> Y] BY <1>1, <1>3
<1>5. \A k, l \in X : f[k] = f[l] => k = l BY <1>1
<1>6. ASSUME NEW l \in Y PROVE \E k \in X : f[k] = l
  <2>1. l - a \in 1..m /\ a + (l - a) = l BY <1>1
  <2>2. l - a \in X BY <1>3, <2>1
  <2>3. QED BY <2>1, <2>2
<1> HIDE DEF X, Y, f
<1>7. f \in Bijection(X, Y) BY <1>4, <1>5, <1>6 DEF Bijection, Injection, Surjection, IsInjective
<1>8. Cardinality(Y) = Cardinality(X) BY <1>2, <1>7, FS_Bijection DEF ExistsBijection
<1>9. QED BY <1>8 DEF Count, X, Y

-------------------------------------------------------------------------------
(* Where a definition ends. *)

(* A selection set that follows a balanced head is found behind it. *)
LEMMA StartFound ==
    ASSUME NEW ts \in Seq(STRING), NEW a \in Nat, NEW h \in Seq(STRING), NEW g \in Seq(STRING),
           At(ts, a, h), At(ts, a + Len(h), g), Balanced(h), Selection(g)
    PROVE  SelectionStart(ts, a + 1) = {a + Len(h) + 1}
<1> DEFINE b == a + Len(h) + 1
           C(t, j) == Count(ts, t, a + 1, j)
           Brace == {j \in a + 1..Len(ts) :
                       ts[j] = "{" /\ ~(C("(", j) > C(")", j)) /\ ~(C("[", j) > C("]", j))}
           Fault == {j \in a + 1..Len(ts) : C("(", j) < C(")", j) \/ C("[", j) < C("]", j)}
<1>1. Len(h) \in Nat /\ Len(g) \in Nat /\ Len(ts) \in Nat /\ Len(g) # 0
  <2>1. Len(h) \in Nat /\ Len(g) \in Nat /\ Len(ts) \in Nat BY LenProperties
  <2>2. Len(g) # 0 BY EmptySeq DEF Selection
  <2>3. QED BY <2>1, <2>2
<1>2. b \in a + 1..Len(ts) /\ ts[b] = "{"
  <2>1. 1 \in 1..Len(g) BY <1>1
  <2>2. ts[a + Len(h) + 1] = g[1] BY <2>1 DEF At
  <2>3. a + Len(h) + Len(g) <= Len(ts) BY DEF At
  <2>4. g[1] = "{" BY DEF Selection
  <2>5. a + 1 <= b /\ b <= Len(ts) /\ b \in Int BY <1>1, <2>3
  <2>6. b \in a + 1..Len(ts) BY <1>1, <2>5
  <2>7. QED BY <2>2, <2>4, <2>6
<1>3. ASSUME NEW t, NEW j \in Nat PROVE C(t, j) \in Nat BY <1>3, CountType
<1>4. ASSUME NEW t, NEW m \in 0..Len(h) PROVE C(t, a + m) = Count(h, t, 1, m)
  BY CountMoves
<1>5. ASSUME NEW t, t # "{" PROVE C(t, b) = Count(h, t, 1, Len(h))
  <2>1. Count(ts, t, a + 1, a + Len(h) + 1) = Count(ts, t, a + 1, a + Len(h))
    <3>1. ts[b] # t
      <4> HIDE DEF b
      <4>1. QED BY <1>2, <1>5
    <3>2. a + 1 \in Nat /\ a + Len(h) \in Nat BY <1>1
    <3>3. QED BY <3>1, <3>2, CountSkips
  <2>2. Len(h) \in 0..Len(h) BY <1>1
  <2>3. C(t, a + Len(h)) = Count(h, t, 1, Len(h)) BY <1>4, <2>2
  <2>4. QED BY <2>1, <2>3
<1> HIDE DEF C
<1>6. C("(", b) = C(")", b) /\ C("[", b) = C("]", b)
  <2>1. /\ C("(", b) = Count(h, "(", 1, Len(h)) /\ C(")", b) = Count(h, ")", 1, Len(h))
        /\ C("[", b) = Count(h, "[", 1, Len(h)) /\ C("]", b) = Count(h, "]", 1, Len(h))
    BY <1>5
  <2>2. QED BY <2>1 DEF Balanced
<1>7. ASSUME NEW j \in a + 1..a + Len(h)
      PROVE  /\ C("(", j) >= C(")", j) /\ C("[", j) >= C("]", j)
             /\ ts[j] = "{" => C("(", j) > C(")", j)
  <2>1. j - a \in 1..Len(h) /\ j - a \in 0..Len(h) /\ a + (j - a) = j BY <1>1
  <2>2. ts[j] = h[j - a] BY <2>1 DEF At
  <2>3. ASSUME NEW t PROVE C(t, j) = Count(h, t, 1, j - a) BY <1>4, <2>1
  <2>4. /\ Count(h, "(", 1, j - a) >= Count(h, ")", 1, j - a)
        /\ Count(h, "[", 1, j - a) >= Count(h, "]", 1, j - a)
        /\ h[j - a] = "{" => Count(h, "(", 1, j - a) > Count(h, ")", 1, j - a)
    BY <2>1 DEF Balanced
  <2>5. /\ C("(", j) = Count(h, "(", 1, j - a) /\ C(")", j) = Count(h, ")", 1, j - a)
        /\ C("[", j) = Count(h, "[", 1, j - a) /\ C("]", j) = Count(h, "]", 1, j - a)
    BY <2>3
  <2>6. QED BY <2>2, <2>4, <2>5
<1>8. \A j : j \in Brace <=> /\ j \in a + 1..Len(ts) /\ ts[j] = "{"
                             /\ ~(C("(", j) > C(")", j)) /\ ~(C("[", j) > C("]", j))
  OBVIOUS
<1>9. \A j : j \in Fault <=> /\ j \in a + 1..Len(ts)
                             /\ C("(", j) < C(")", j) \/ C("[", j) < C("]", j)
  OBVIOUS
<1>10. SelectionStart(ts, a + 1) = First(Brace \cup Fault) \ Fault BY DEF SelectionStart, C
<1> HIDE DEF Brace, Fault
<1>11. \A j \in Brace \cup Fault : j \in Int /\ b <= j
  <2> SUFFICES ASSUME NEW j \in Brace \cup Fault PROVE j \in Int /\ b <= j OBVIOUS
  <2>1. j \in a + 1..Len(ts) BY <1>8, <1>9
  <2>2. CASE j < b
    <3>1. j \in a + 1..a + Len(h) BY <1>1, <2>1, <2>2
    <3>2. j \in Nat BY <1>1, <2>1
    <3>3. C("(", j) \in Nat /\ C(")", j) \in Nat BY <1>3, <3>2
    <3>4. C("[", j) \in Nat /\ C("]", j) \in Nat BY <1>3, <3>2
    <3>5. j \notin Brace BY <1>7, <1>8, <3>1
    <3>6. j \notin Fault
      <4>1. C("(", j) >= C(")", j) /\ C("[", j) >= C("]", j) BY <1>7, <3>1
      <4>2. ~(C("(", j) < C(")", j)) /\ ~(C("[", j) < C("]", j)) BY <3>3, <3>4, <4>1
      <4>3. QED BY <1>9, <4>2
    <3>7. QED BY <3>5, <3>6
  <2>3. QED BY <1>1, <2>1, <2>2
<1>12. b \in Brace /\ b \notin Fault
  <2>1. b \in Nat BY <1>1
  <2>2. C("(", b) \in Nat /\ C("[", b) \in Nat BY <1>3, <2>1
  <2>3. ~(C("(", b) > C(")", b)) /\ ~(C("[", b) > C("]", b)) BY <1>6, <2>2
  <2>4. b \notin Fault BY <1>6, <1>9, <2>2
  <2>5. b \in Brace BY <1>2, <1>8, <2>3
  <2>6. QED BY <2>4, <2>5
<1>13. First(Brace \cup Fault) = {b}
  <2>1. b \in Int BY <1>1
  <2> HIDE DEF b
  <2>2. \A j \in First(Brace \cup Fault) : j <= b BY <1>12 DEF First
  <2>3. \A j \in First(Brace \cup Fault) : j \in Int /\ b <= j BY <1>11 DEF First
  <2>4. ASSUME NEW j \in First(Brace \cup Fault) PROVE j = b
    <3>1. j \in Int /\ b <= j /\ j <= b BY <2>2, <2>3
    <3>2. QED BY <2>1, <3>1
  <2>5. b \in First(Brace \cup Fault) BY <1>11, <1>12 DEF First
  <2>6. QED BY <2>4, <2>5
<1>14. QED BY <1>10, <1>12, <1>13

(* A selection set ends where its first brace is matched. *)
LEMMA EndFound ==
    ASSUME NEW ts \in Seq(STRING), NEW a \in Nat, NEW g \in Seq(STRING),
           At(ts, a, g), Selection(g)
    PROVE  SelectionEnd(ts, a + 1) = {a + Len(g)}
<1> DEFINE e == a + Len(g)
           Match == {j \in a + 1..Len(ts) : Count(ts, "{", a + 1, j) = Count(ts, "}", a + 1, j)}
<1>1. Len(g) \in Nat /\ Len(ts) \in Nat /\ Len(g) # 0
  <2>1. Len(g) \in Nat /\ Len(ts) \in Nat BY LenProperties
  <2>2. Len(g) # 0 BY EmptySeq DEF Selection
  <2>3. QED BY <2>1, <2>2
<1>2. ASSUME NEW j \in a + 1..e PROVE j \in Match <=> j = e
  <2>1. j - a \in 1..Len(g) /\ j - a \in 0..Len(g) /\ a + (j - a) = j BY <1>1
  <2>2. \A t : Count(ts, t, a + 1, j) = Count(g, t, 1, j - a) BY <2>1, CountMoves
  <2>3. j - a = Len(g) <=> j = e BY <1>1
  <2>4. j \in a + 1..Len(ts) BY <1>1 DEF At
  <2>5. Count(g, "{", 1, j - a) = Count(g, "}", 1, j - a) <=> j - a = Len(g)
    BY <2>1 DEF Selection
  <2>6. QED BY <2>2, <2>3, <2>4, <2>5
<1>3. \A j \in Match : j \in Int /\ a + 1 <= j
  <2>1. Match \subseteq a + 1..Len(ts) OBVIOUS
  <2> HIDE DEF Match
  <2>2. QED BY <1>1, <2>1
<1>4. SelectionEnd(ts, a + 1) = First(Match) BY DEF SelectionEnd
<1> HIDE DEF Match
<1>5. e \in a + 1..e BY <1>1
<1>6. e \in Match BY <1>2, <1>5
<1>7. ASSUME NEW j \in Match, j < e PROVE FALSE
  <2>1. j \in a + 1..e BY <1>1, <1>3, <1>7
  <2>2. QED BY <1>1, <1>2, <1>7, <2>1
<1>8. \A j \in Match : e <= j BY <1>1, <1>3, <1>7
<1>9. First(Match) = {e}
  <2>1. \A j \in First(Match) : j <= e BY <1>6 DEF First
  <2>2. \A j \in First(Match) : j = e BY <1>1, <1>3, <1>8, <2>1 DEF First
  <2>3. e \in First(Match) BY <1>6, <1>8 DEF First
  <2>4. QED BY <2>2, <2>3
<1>10. QED BY <1>4, <1>9

LEMMA WordIs ==
    ASSUME NEW w \in STRING
    PROVE  /\ Word(w) \in Seq(STRING) /\ Len(Word(w)) \in Nat
           /\ w = "" => Len(Word(w)) = 0
           /\ w # "" => Len(Word(w)) = 1 /\ Word(w)[1] = w
<1>1. <<>> \in Seq(STRING) /\ Len(<<>>) = 0 OBVIOUS
<1>2. <<w>> \in Seq(STRING) /\ Len(<<w>>) = 1 /\ <<w>>[1] = w
  <2>1. \A S : \A x \in S : <<x>> \in Seq(S) /\ Len(<<x>>) = 1 /\ <<x>>[1] = x OBVIOUS
  <2>2. QED BY <2>1
<1>3. w = "" => Word(w) = <<>> BY DEF Word
<1>4. w # "" => Word(w) = <<w>> BY DEF Word
<1>5. w = "" => Word(w) \in Seq(STRING) /\ Len(Word(w)) = 0 BY <1>1, <1>3
<1>6. w # "" => Word(w) \in Seq(STRING) /\ Len(Word(w)) = 1 /\ Word(w)[1] = w BY <1>2, <1>4
<1>7. 0 \in Nat /\ 1 \in Nat OBVIOUS
<1>8. QED BY <1>5, <1>6, <1>7

(* IsDefinition, of the parts of a definition. *)
Parts(kind, name, head, fields) ==
    /\ kind \in STRING /\ name \in STRING
    /\ kind \in OperationKind \cup {"fragment", ""}
    /\ name \notin Punctuators
    /\ kind \notin OperationKind => name = ""
    /\ kind = "" => head = <<>>
    /\ kind \in OperationKind /\ name = "" /\ head # <<>> => head[1] \in Punctuators
    /\ Balanced(head)
    /\ Selection(fields)

(* The operation that a definition defines, if any. *)
Op(kind, name) == [kind |-> IF kind = "" THEN "query" ELSE kind, name |-> name]
Defined(kind, name) == IF kind = "fragment" THEN <<>> ELSE <<Op(kind, name)>>

(* What _parse_operations makes of a definition where it begins. *)
LEMMA DefinitionFound ==
    ASSUME NEW ts \in Seq(STRING), NEW a \in Nat,
           NEW kind, NEW name,
           NEW h \in Seq(STRING), NEW g \in Seq(STRING), Parts(kind, name, h, g),
           At(ts, a, Pieces(kind, name, h, g))
    PROVE  /\ a + 1 \in 1..Len(ts)
           /\ DefinitionEnd(ts, a + 1) = {a + Len(Pieces(kind, name, h, g))}
           /\ OperationAt(ts, a + 1) = Defined(kind, name)
<1> DEFINE K == Word(kind)
           N == Word(name)
           c == a + Len(K \o N)
           i == a + 1
           p == Pieces(kind, name, h, g)
<1> kind \in STRING /\ name \in STRING BY Zenon DEF Parts
<1>1. K \in Seq(STRING) /\ N \in Seq(STRING) /\ Len(K) \in Nat /\ Len(N) \in Nat BY WordIs
<1>2. kind # "" => Len(K) = 1 /\ K[1] = kind BY WordIs
<1>3. name # "" => Len(N) = 1 /\ N[1] = name BY WordIs
<1>4. (kind = "" => Len(K) = 0) /\ (name = "" => Len(N) = 0) BY WordIs
<1>5. p = K \o N \o h \o g /\ At(ts, a, p) BY DEF Pieces
<1> HIDE DEF K, N, p
<1>6. K \o N \in Seq(STRING) /\ Len(K \o N) = Len(K) + Len(N) BY <1>1, ConcatProperties
<1>7. K \o N \o h \in Seq(STRING) /\ Len(K \o N \o h) = Len(K \o N) + Len(h)
  BY <1>6, ConcatProperties
<1>8. p \in Seq(STRING) /\ Len(p) = Len(K \o N \o h) + Len(g)
  BY <1>5, <1>7, ConcatProperties
<1>9. Len(h) \in Nat /\ Len(g) \in Nat /\ Len(ts) \in Nat BY LenProperties
<1>10. Balanced(h) /\ Selection(g) BY DEF Parts
<1>11. g # <<>> /\ g[1] = "{" BY <1>10 DEF Selection
<1>12. g # <<>> BY <1>11
<1>13. Len(g) # 0 BY <1>12, EmptySeq
<1>14. At(ts, a, K \o N \o h) /\ At(ts, a + Len(K \o N \o h), g) BY <1>5, <1>7, AtSplit
<1>15. At(ts, a, K \o N) /\ At(ts, c, h) BY <1>6, <1>14, AtSplit
<1>16. At(ts, a, K) /\ At(ts, a + Len(K), N) BY <1>1, <1>15, AtSplit
<1>17. c \in Nat /\ c = a + Len(K) + Len(N) BY <1>1, <1>6
<1>18. a + Len(K \o N \o h) = c + Len(h) BY <1>6, <1>7, <1>9
<1> HIDE DEF c
<1>19. At(ts, c + Len(h), g) BY <1>14, <1>18
<1>20. c + Len(h) + Len(g) = a + Len(p) BY <1>8, <1>9, <1>17, <1>18
<1>21. c + Len(h) + Len(g) <= Len(ts) BY <1>19 DEF At
<1>22. SelectionStart(ts, c + 1) = {c + Len(h) + 1} BY <1>10, <1>15, <1>17, <1>19, StartFound
<1>23. SelectionEnd(ts, c + Len(h) + 1) = {a + Len(p)}
  <2>1. c + Len(h) \in Nat BY <1>9, <1>17
  <2>2. SelectionEnd(ts, c + Len(h) + 1) = {c + Len(h) + Len(g)}
    BY <1>10, <1>19, <2>1, EndFound
  <2>3. QED BY <1>20, <2>2
<1>24. UNION {SelectionEnd(ts, s) : s \in {c + Len(h) + 1}} = {a + Len(p)} BY <1>23
<1>25. i \in 1..Len(ts) BY <1>1, <1>9, <1>13, <1>17, <1>21
<1>26. ts[c + Len(h) + 1] = "{"
  <2>1. 1 \in 1..Len(g) BY <1>9, <1>13
  <2>2. ts[c + Len(h) + 1] = g[1] BY <1>19, <2>1 DEF At
  <2>3. QED BY <1>11, <2>2
<1>27. Len(K) = 1 => ts[i] = K[1]
  <2>1. Len(K) = 1 => 1 \in 1..Len(K) OBVIOUS
  <2>2. QED BY <1>16, <2>1 DEF At
<1>28. CASE kind = ""
  <2>1. name = "" /\ h = <<>> BY <1>28 DEF Parts, OperationKind
  <2>2. h = <<>> /\ Len(K) = 0 /\ Len(N) = 0 BY <1>4, <1>28, <2>1
  <2>3. c + Len(h) + 1 = i BY <1>17, <2>2
  <2>4. ts[i] = "{" BY <1>26, <2>3
  <2>5. DefinitionEnd(ts, i) = UNION {SelectionEnd(ts, s) : s \in {i}}
    <3> HIDE DEF i
    <3>1. QED BY <2>4, Zenon DEF DefinitionEnd, OperationKind
  <2>6. OperationAt(ts, i) = Defined(kind, name)
    <3> HIDE DEF i
    <3>1. QED BY <1>28, <2>1, <2>4, Zenon DEF OperationAt, Defined, Op
  <2>7. QED BY <1>24, <1>25, <2>3, <2>5, <2>6 DEF p
<1>29. CASE kind = "fragment"
  <2>1. kind # "" /\ name = "" BY <1>29 DEF Parts, OperationKind
  <2>2. Len(K) = 1 /\ Len(N) = 0 /\ K[1] = kind BY <1>2, <1>4, <2>1
  <2>3. c + 1 = i + 1 BY <1>17, <2>2
  <2>4. ts[i] = "fragment" BY <1>27, <1>29, <2>2
  <2>5. DefinitionEnd(ts, i) = UNION {SelectionEnd(ts, s) : s \in SelectionStart(ts, i + 1)}
    <3> HIDE DEF i
    <3>1. QED BY <2>4, Zenon DEF DefinitionEnd, OperationKind
  <2>6. OperationAt(ts, i) = Defined(kind, name)
    <3> HIDE DEF i
    <3>1. QED BY <1>29, <2>4, Zenon DEF OperationAt, Defined, Op
  <2>7. QED BY <1>22, <1>24, <1>25, <2>3, <2>5, <2>6 DEF p
<1>30. CASE kind \in OperationKind
  <2>1. kind # "" /\ kind # "{" /\ kind # "fragment" BY <1>30 DEF OperationKind
  <2>2. Len(K) = 1 /\ K[1] = kind BY <1>2, <2>1
  <2>3. ts[i] = kind BY <1>27, <2>2
  <2> DEFINE next == IF Named(ts, i) THEN i + 2 ELSE i + 1
             word == IF Named(ts, i) THEN ts[i + 1] ELSE ""
  <2>4. DefinitionEnd(ts, i) = UNION {SelectionEnd(ts, s) : s \in SelectionStart(ts, next)}
    <3> HIDE DEF i
    <3>1. QED BY <1>30, <2>1, <2>3, Zenon DEF DefinitionEnd
  <2>5. OperationAt(ts, i) = <<[kind |-> kind, name |-> word]>>
    <3> HIDE DEF i
    <3>1. QED BY <2>1, <2>3, Zenon DEF OperationAt
  <2>6. Defined(kind, name) = <<[kind |-> kind, name |-> name]>> BY <2>1, Zenon DEF Defined, Op
  <2>7. next = c + 1 /\ word = name
    <3>1. CASE name # ""
      <4>1. Len(N) = 1 /\ N[1] = name BY <1>3, <3>1
      <4>2. 1 \in 1..Len(N) BY <4>1
      <4>3. ts[i + 1] = N[1] BY <1>16, <2>2, <4>2 DEF At
      <4>4. i < Len(ts) BY <1>9, <1>13, <1>17, <1>21, <2>2, <4>1
      <4>5. name \notin Punctuators BY DEF Parts
      <4>6. Named(ts, i) BY <4>1, <4>3, <4>4, <4>5 DEF Named
      <4>7. i + 2 = c + 1 BY <1>17, <2>2, <4>1
      <4>8. QED BY <4>1, <4>3, <4>6, <4>7
    <3>2. CASE name = ""
      <4>1. Len(N) = 0 BY <1>4, <3>2
      <4>2. i + 1 = c + 1 BY <1>17, <2>2, <4>1
      <4>3. ts[c + 1] \in Punctuators
        <5>1. CASE h = <<>>
          <6>1. c + Len(h) + 1 = c + 1 BY <1>17, <5>1
          <6>2. QED BY <1>26, <6>1 DEF Punctuators
        <5>2. CASE h # <<>>
          <6>1. Len(h) # 0 BY <5>2, EmptySeq
          <6>2. 1 \in 1..Len(h) BY <1>9, <6>1
          <6>3. ts[c + 1] = h[1] BY <1>15, <6>2 DEF At
          <6>4. h[1] \in Punctuators BY <1>30, <3>2, <5>2 DEF Parts
          <6>5. QED BY <6>3, <6>4
        <5>3. QED BY <5>1, <5>2
      <4>4. ~Named(ts, i) BY <4>2, <4>3 DEF Named
      <4>5. QED BY <3>2, <4>2, <4>4
    <3>3. QED BY <3>1, <3>2
  <2> HIDE DEF next, word
  <2>8. QED BY <1>22, <1>24, <1>25, <2>4, <2>5, <2>6, <2>7 DEF p
<1>31. kind \in OperationKind \cup {"fragment", ""} BY DEF Parts
<1>32. QED BY <1>28, <1>29, <1>30, <1>31

LEMMA DefinitionIs ==
    ASSUME NEW d, IsDefinition(d)
    PROVE  /\ d.kind \in STRING /\ d.name \in STRING
           /\ d.head \in Seq(STRING) /\ d.fields \in Seq(STRING)
           /\ Parts(d.kind, d.name, d.head, d.fields)
           /\ Piece(d) \in Seq(STRING)
<1>1. d \in Definition BY DEF IsDefinition
<1>2. d.kind \in STRING /\ d.name \in STRING BY <1>1, Zenon DEF Definition
<1>3. d.head \in Seq(STRING) /\ d.fields \in Seq(STRING) BY <1>1, Zenon DEF Definition
<1>5. Parts(d.kind, d.name, d.head, d.fields) BY <1>2, Zenon DEF IsDefinition, Parts
<1>6. Word(d.kind) \in Seq(STRING) /\ Word(d.name) \in Seq(STRING) BY <1>2, WordIs
<1>7. Word(d.kind) \o Word(d.name) \in Seq(STRING) BY <1>6, ConcatProperties
<1>8. Word(d.kind) \o Word(d.name) \o d.head \in Seq(STRING) BY <1>3, <1>7, ConcatProperties
<1>9. Piece(d) \in Seq(STRING) BY <1>3, <1>8, ConcatProperties DEF Piece, Pieces
<1>10. QED BY <1>2, <1>3, <1>5, <1>9

LEMMA PieceFound ==
    ASSUME NEW ts \in Seq(STRING), NEW a \in Nat, NEW d, IsDefinition(d), At(ts, a, Piece(d))
    PROVE  /\ a + 1 \in 1..Len(ts)
           /\ DefinitionEnd(ts, a + 1) = {a + Len(Piece(d))}
           /\ OperationAt(ts, a + 1) = Defined(d.kind, d.name)
<1>1. /\ d.kind \in STRING /\ d.name \in STRING
      /\ d.head \in Seq(STRING) /\ d.fields \in Seq(STRING)
      /\ Parts(d.kind, d.name, d.head, d.fields)
  BY DefinitionIs
<1>2. QED BY <1>1, DefinitionFound DEF Piece

-------------------------------------------------------------------------------
(* Documents. *)

(* What stands behind the definitions before k is the end of the document. *)
LEMMA Placed ==
    ASSUME NEW D, IsDocument(D), NEW k \in 1..Len(D) + 1
    PROVE  /\ RenderedFrom(D)[k] \in Seq(STRING)
           /\ Len(Rendered(D)) - Len(RenderedFrom(D)[k]) \in Nat
           /\ At(Rendered(D), Len(Rendered(D)) - Len(RenderedFrom(D)[k]), RenderedFrom(D)[k])
<1> DEFINE r == RenderedFrom(D)
           n == Len(D)
           ts == Rendered(D)
<1>1. D \in Seq(Definition) /\ n \in Nat BY LenProperties DEF IsDocument
<1>2. r[n + 1] = <<>> /\ \A i \in 1..n : r[i] = Piece(D[i]) \o r[i + 1] BY <1>1, RenderedFromIs
<1>3. \A i \in 1..n : Piece(D[i]) \in Seq(STRING) BY <1>1, DefinitionIs DEF IsDocument
<1>4. ts = r[1] BY DEF Rendered
<1> HIDE DEF r, n, ts
<1> DEFINE S == {m \in Nat : m <= n => r[n + 1 - m] \in Seq(STRING)}
<1>5. 0 \in S
  <2>1. <<>> \in Seq(STRING) /\ n + 1 - 0 = n + 1 BY <1>1
  <2>2. QED BY <1>2, <2>1
<1>6. ASSUME NEW m \in Nat, m \in S PROVE m + 1 \in S
  <2> SUFFICES ASSUME m + 1 <= n PROVE r[n + 1 - (m + 1)] \in Seq(STRING) OBVIOUS
  <2>1. n + 1 - (m + 1) \in 1..n /\ (n + 1 - (m + 1)) + 1 = n + 1 - m /\ m <= n BY <1>1
  <2>2. r[n + 1 - m] \in Seq(STRING) BY <1>6, <2>1
  <2> DEFINE i == n + 1 - (m + 1)
  <2>3. r[i] = Piece(D[i]) \o r[i + 1] /\ Piece(D[i]) \in Seq(STRING) BY <1>2, <1>3, <2>1
  <2>4. r[i + 1] \in Seq(STRING) BY <2>1, <2>2
  <2> HIDE DEF i
  <2>5. r[i] \in Seq(STRING) BY <2>3, <2>4, ConcatProperties
  <2>6. QED BY <2>5 DEF i
<1>7. Nat \subseteq S
  <2> HIDE DEF S
  <2>1. QED BY <1>5, <1>6, Induct
<1>8. ASSUME NEW i \in 1..n + 1 PROVE r[i] \in Seq(STRING) /\ Len(r[i]) \in Nat
  <2>1. n + 1 - i \in Nat /\ n + 1 - i <= n /\ n + 1 - (n + 1 - i) = i BY <1>1
  <2>2. r[i] \in Seq(STRING) BY <1>7, <2>1
  <2>3. QED BY <2>2, LenProperties
<1>9. ts \in Seq(STRING) /\ Len(ts) \in Nat
  <2>1. 1 \in 1..n + 1 BY <1>1
  <2>2. QED BY <1>4, <1>8, <2>1
<1> DEFINE Good(i) == Len(ts) - Len(r[i]) \in Nat /\ At(ts, Len(ts) - Len(r[i]), r[i])
           T == {m \in Nat : m <= n => Good(m + 1)}
<1>10. 0 \in T
  <2>1. 1 \in 1..n + 1 /\ 0 + 1 = 1 BY <1>1
  <2>2. Len(ts) - Len(r[1]) = 0 BY <1>4, <1>9
  <2>3. At(ts, 0, r[1]) BY <1>4, <1>9 DEF At
  <2>4. QED BY <2>1, <2>2, <2>3
<1>11. ASSUME NEW m \in Nat, m \in T PROVE m + 1 \in T
  <2> SUFFICES ASSUME m + 1 <= n PROVE Good((m + 1) + 1)
    <3> HIDE DEF Good
    <3>1. QED OBVIOUS
  <2> DEFINE i == m + 1
             p == Piece(D[i])
             a == Len(ts) - Len(r[i])
  <2>1. i \in 1..n /\ i \in 1..n + 1 /\ i + 1 \in 1..n + 1 /\ m <= n BY <1>1
  <2>2. Good(i)
    <3> HIDE DEF Good
    <3>1. QED BY <1>11, <2>1
  <2>3. r[i] = p \o r[i + 1] /\ p \in Seq(STRING) /\ Len(p) \in Nat
    BY <1>2, <1>3, <2>1, LenProperties
  <2>4. r[i + 1] \in Seq(STRING) /\ Len(r[i + 1]) \in Nat BY <1>8, <2>1
  <2>5. Len(r[i]) = Len(p) + Len(r[i + 1]) BY <2>3, <2>4, ConcatProperties
  <2>6. a \in Nat /\ At(ts, a, p \o r[i + 1]) BY <2>2, <2>3
  <2>7. a + Len(p) = Len(ts) - Len(r[i + 1]) BY <1>9, <2>3, <2>4, <2>5
  <2> HIDE DEF i, p, a
  <2>8. At(ts, a + Len(p), r[i + 1]) BY <1>9, <2>3, <2>4, <2>6, AtSplit
  <2>9. a + Len(p) \in Nat BY <2>3, <2>6
  <2>10. Good(i + 1) BY <2>7, <2>8, <2>9
  <2>11. QED BY <2>10 DEF i
<1>12. Nat \subseteq T
  <2> HIDE DEF T
  <2>1. QED BY <1>10, <1>11, Induct
<1>13. Good(k)
  <2>1. k - 1 \in Nat /\ k - 1 <= n /\ (k - 1) + 1 = k BY <1>1 DEF n
  <2> HIDE DEF Good
  <2>2. QED BY <1>12, <2>1
<1>14. k \in 1..n + 1 BY DEF n
<1>15. QED BY <1>8, <1>13, <1>14 DEF r, ts

(* ops are the operations of D from its kth definition on, in their order. *)
Lists(ops, D, k) ==
    \E at \in [1..Len(ops) -> k..Len(D)] :
        /\ \A i, j \in 1..Len(ops) : i < j => at[i] < at[j]
        /\ \A i \in 1..Len(ops) :
              D[at[i]].kind # "fragment" /\ ops[i] = Op(D[at[i]].kind, D[at[i]].name)
        /\ \A l \in k..Len(D) : D[l].kind # "fragment" => \E i \in 1..Len(ops) : at[i] = l

LEMMA ListsMore ==
    ASSUME NEW D, Len(D) \in Nat, NEW k \in 1..Len(D), NEW S, NEW rest \in Seq(S),
           Lists(rest, D, k + 1)
    PROVE  Lists(Defined(D[k].kind, D[k].name) \o rest, D, k)
<1> DEFINE n == Len(D)
           o == Op(D[k].kind, D[k].name)
           Is(x, i) == D[i].kind # "fragment" /\ x = Op(D[i].kind, D[i].name)
           Ordinary(i) == D[i].kind # "fragment"
<1>1. PICK at \in [1..Len(rest) -> k + 1..n] :
         /\ \A i, j \in 1..Len(rest) : i < j => at[i] < at[j]
         /\ \A i \in 1..Len(rest) : Is(rest[i], at[i])
         /\ \A l \in k + 1..n : Ordinary(l) => \E i \in 1..Len(rest) : at[i] = l
  BY DEF Lists
<1>2. n \in Nat /\ k \in Nat /\ Len(rest) \in Nat BY LenProperties
<1>3. CASE D[k].kind = "fragment"
  <2>1. Defined(D[k].kind, D[k].name) \o rest = rest
    <3>1. Defined(D[k].kind, D[k].name) = <<>> BY <1>3, Zenon DEF Defined
    <3>2. QED BY <3>1, ConcatEmptySeq
  <2>2. at \in [1..Len(rest) -> k..n]
    <3>1. k + 1..n \subseteq k..n BY <1>2
    <3>2. QED BY <3>1
  <2>3. \A l \in k..n : Ordinary(l) => \E i \in 1..Len(rest) : at[i] = l
    <3>1. \A l \in k..n : l = k \/ l \in k + 1..n BY <1>2
    <3>2. ~Ordinary(k) BY <1>3
    <3> HIDE DEF Ordinary
    <3>3. QED BY <1>1, <3>1, <3>2
  <2>4. Lists(rest, D, k) BY <1>1, <2>2, <2>3, Zenon DEF Lists
  <2>5. QED BY <2>1, <2>4
<1>4. CASE D[k].kind # "fragment"
  <2> DEFINE ops == <<o>> \o rest
             to == [i \in 1..Len(rest) + 1 |-> IF i = 1 THEN k ELSE at[i - 1]]
  <2>1. Defined(D[k].kind, D[k].name) = <<o>> BY <1>4, Zenon DEF Defined
  <2>2. Is(o, k) BY <1>4
  <2> HIDE DEF o, Is
  <2>3. /\ Len(ops) = Len(rest) + 1 /\ ops[1] = o
        /\ \A i \in 2..Len(rest) + 1 : ops[i] = rest[i - 1]
    <3>1. rest \in Seq(S \cup {o}) /\ <<o>> \in Seq(S \cup {o}) /\ Len(<<o>>) = 1 /\ <<o>>[1] = o
      OBVIOUS
    <3>2. QED BY <1>2, <3>1, ConcatProperties
  <2> HIDE DEF ops
  <2>4. \A i \in 1..Len(rest) : at[i] \in k + 1..n OBVIOUS
  <2>5. to \in [1..Len(rest) + 1 -> k..n]
    <3>1. ASSUME NEW i \in 1..Len(rest) + 1 PROVE to[i] \in k..n
      <4>1. CASE i = 1 BY <1>2, <4>1
      <4>2. CASE i # 1
        <5>1. i - 1 \in 1..Len(rest) BY <1>2, <4>2
        <5>2. QED BY <1>2, <2>4, <4>2, <5>1
      <4>3. QED BY <4>1, <4>2
    <3>2. QED BY <3>1
  <2>6. ASSUME NEW i \in 1..Len(rest) + 1
        PROVE  \/ i = 1 /\ to[i] = k
               \/ i - 1 \in 1..Len(rest) /\ i \in 2..Len(rest) + 1 /\ to[i] = at[i - 1]
    BY <1>2
  <2>7. \A l \in 1..Len(rest) : l + 1 \in 1..Len(rest) + 1 /\ to[l + 1] = at[l] BY <1>2
  <2>8. 1 \in 1..Len(rest) + 1 /\ to[1] = k BY <1>2
  <2> HIDE DEF to
  <2>9. ASSUME NEW i \in 1..Len(rest) + 1, NEW j \in 1..Len(rest) + 1, i < j
        PROVE  to[i] < to[j]
    <3>1. j - 1 \in 1..Len(rest) /\ to[j] = at[j - 1] BY <1>2, <2>6, <2>9
    <3>2. CASE i = 1
      <4>1. to[i] = k /\ at[j - 1] \in k + 1..n BY <2>4, <2>8, <3>1, <3>2
      <4>2. QED BY <1>2, <3>1, <4>1
    <3>3. CASE i # 1
      <4>1. i - 1 \in 1..Len(rest) /\ to[i] = at[i - 1] /\ i - 1 < j - 1
        BY <1>2, <2>6, <2>9, <3>3
      <4>2. QED BY <1>1, <3>1, <4>1
    <3>4. QED BY <3>2, <3>3
  <2>10. ASSUME NEW i \in 1..Len(rest) + 1 PROVE Is(ops[i], to[i])
    <3>1. CASE i = 1 BY <2>2, <2>3, <2>8, <3>1
    <3>2. CASE i # 1 BY <1>1, <2>3, <2>6, <3>2
    <3>3. QED BY <3>1, <3>2
  <2>11. ASSUME NEW l \in k..n, Ordinary(l) PROVE \E i \in 1..Len(rest) + 1 : to[i] = l
    <3>1. CASE l = k BY <2>8, <3>1
    <3>2. CASE l # k
      <4>1. l \in k + 1..n BY <1>2, <3>2
      <4> HIDE DEF Ordinary
      <4>2. PICK i \in 1..Len(rest) : at[i] = l BY <1>1, <2>11, <4>1
      <4>3. QED BY <2>7, <4>2
    <3>3. QED BY <3>1, <3>2
  <2>12. /\ to \in [1..Len(ops) -> k..n]
         /\ \A i, j \in 1..Len(ops) : i < j => to[i] < to[j]
         /\ \A i \in 1..Len(ops) : Is(ops[i], to[i])
         /\ \A l \in k..n : Ordinary(l) => \E i \in 1..Len(ops) : to[i] = l
    <3> HIDE DEF Ordinary
    <3>1. Len(ops) = Len(rest) + 1 BY <2>3
    <3>2. QED BY <2>5, <2>9, <2>10, <2>11, <3>1
  <2>13. Lists(ops, D, k) BY <2>12, Zenon DEF Lists, Is
  <2>14. QED BY <2>1, <2>13 DEF ops
<1>5. QED BY <1>3, <1>4

(* The operations of a document, as it is parsed, are those it was written *)
(* with, in their order: OperationsIn has one value.                       *)
THEOREM DocumentsParse ==
    ASSUME NEW D, IsDocument(D)
    PROVE  \E S : \E ops \in Seq(S) : OperationsIn(Rendered(D)) = {ops} /\ Lists(ops, D, 1)
<1> DEFINE n == Len(D)
           r == RenderedFrom(D)
           ts == Rendered(D)
           from == OperationsFrom(ts)
           a(k) == Len(ts) - Len(r[k])
           S == {Op(D[i].kind, D[i].name) : i \in 1..n}
           Good(k) == \E ops \in Seq(S) : from[a(k) + 1] = {ops} /\ Lists(ops, D, k)
           T == {m \in Nat : m <= n => Good(n + 1 - m)}
<1>1. D \in Seq(Definition) /\ n \in Nat BY LenProperties DEF IsDocument
<1>2. r[n + 1] = <<>> /\ \A i \in 1..n : r[i] = Piece(D[i]) \o r[i + 1] BY <1>1, RenderedFromIs
<1>3. \A k \in 1..n + 1 : r[k] \in Seq(STRING) /\ a(k) \in Nat /\ At(ts, a(k), r[k]) BY Placed
<1>4. ts = r[1] BY DEF Rendered
<1>5. ts \in Seq(STRING) /\ Len(ts) \in Nat
  <2>1. 1 \in 1..n + 1 BY <1>1
  <2> HIDE DEF r, ts
  <2>2. ts \in Seq(STRING) BY <1>3, <1>4, <2>1
  <2>3. QED BY <2>2, LenProperties
<1> HIDE DEF ts, r
<1>6. /\ from[Len(ts) + 1] = {<<>>}
      /\ \A i \in 1..Len(ts) :
            from[i] = {OperationAt(ts, i) \o rest :
                         rest \in UNION {from[e + 1] : e \in DefinitionEnd(ts, i)}}
  BY <1>5, OperationsFromIs
<1> HIDE DEF from
<1>7. ASSUME NEW i \in 1..n PROVE Defined(D[i].kind, D[i].name) \in Seq(S)
  <2>1. Op(D[i].kind, D[i].name) \in S OBVIOUS
  <2>2. \A V : <<>> \in Seq(V) /\ \A x \in V : <<x>> \in Seq(V) OBVIOUS
  <2> HIDE DEF S
  <2>3. QED BY <2>1, <2>2, Zenon DEF Defined
<1> HIDE DEF S
<1>8. 0 \in T
  <2>1. Len(r[n + 1]) = 0 BY <1>2
  <2>2. a(n + 1) + 1 = Len(ts) + 1 BY <1>5, <2>1
  <2>3. <<>> \in Seq(S) OBVIOUS
  <2>4. Lists(<<>>, D, n + 1)
    <3> DEFINE at == [i \in 1..0 |-> 0]
    <3>1. 1..Len(<<>>) = {} /\ n + 1..n = {} BY <1>1
    <3>2. at \in [1..Len(<<>>) -> n + 1..n] BY <3>1
    <3> HIDE DEF at
    <3>3. QED BY <3>1, <3>2, Zenon DEF Lists
  <2>5. Good(n + 1) BY <1>6, <2>2, <2>3, <2>4
  <2>6. n + 1 - 0 = n + 1 BY <1>1
  <2> HIDE DEF Good
  <2>7. QED BY <2>5, <2>6
<1>9. ASSUME NEW m \in Nat, m \in T PROVE m + 1 \in T
  <2> DEFINE i == n + 1 - (m + 1)
             p == Piece(D[i])
  <2> SUFFICES ASSUME m + 1 <= n PROVE Good(i)
    <3> HIDE DEF Good
    <3>1. QED OBVIOUS
  <2>1. /\ i \in 1..n /\ i \in 1..n + 1 /\ i + 1 \in 1..n + 1
        /\ i + 1 = n + 1 - m /\ m <= n
    BY <1>1
  <2>2. Good(i + 1)
    <3> HIDE DEF Good
    <3>1. QED BY <1>9, <2>1
  <2> HIDE DEF i
  <2>3. PICK rest \in Seq(S) : from[a(i + 1) + 1] = {rest} /\ Lists(rest, D, i + 1) BY <2>2
  <2>4. IsDefinition(D[i]) BY <2>1 DEF IsDocument
  <2>5. p \in Seq(STRING) BY <2>4, DefinitionIs
  <2>7. r[i] = p \o r[i + 1] BY <1>2, <2>1
  <2>6. At(ts, a(i), p) => At(ts, a(i), Piece(D[i])) OBVIOUS
  <2> HIDE DEF p
  <2>8. /\ r[i] \in Seq(STRING) /\ a(i) \in Nat /\ At(ts, a(i), r[i])
        /\ r[i + 1] \in Seq(STRING)
    BY <1>3, <2>1
  <2>9. Len(p) \in Nat /\ Len(r[i + 1]) \in Nat BY <2>5, <2>8, LenProperties
  <2>10. Len(r[i]) = Len(p) + Len(r[i + 1]) BY <2>5, <2>7, <2>8, ConcatProperties
  <2>11. a(i + 1) = a(i) + Len(p) BY <1>5, <2>9, <2>10
  <2>12. At(ts, a(i), p \o r[i + 1]) BY <2>7, <2>8
  <2>13. a(i) \in Nat BY <2>8
  <2> HIDE DEF a
  <2>14. At(ts, a(i), p) BY <1>5, <2>5, <2>8, <2>12, <2>13, AtSplit
  <2>15. /\ a(i) + 1 \in 1..Len(ts)
         /\ DefinitionEnd(ts, a(i) + 1) = {a(i) + Len(p)}
         /\ OperationAt(ts, a(i) + 1) = Defined(D[i].kind, D[i].name)
    <3>1. /\ a(i) + 1 \in 1..Len(ts)
          /\ DefinitionEnd(ts, a(i) + 1) = {a(i) + Len(Piece(D[i]))}
          /\ OperationAt(ts, a(i) + 1) = Defined(D[i].kind, D[i].name)
      BY <1>5, <2>4, <2>6, <2>13, <2>14, PieceFound, Zenon
    <3>2. QED BY <3>1 DEF p
  <2> DEFINE o == Defined(D[i].kind, D[i].name)
  <2>16. from[a(i) + 1] = {o \o rest}
    <3>1. UNION {from[e + 1] : e \in {a(i + 1)}} = {rest} BY <2>3
    <3>2. DefinitionEnd(ts, a(i) + 1) = {a(i + 1)} BY <2>11, <2>15
    <3>3. from[a(i) + 1] = {OperationAt(ts, a(i) + 1) \o x :
                              x \in UNION {from[e + 1] : e \in DefinitionEnd(ts, a(i) + 1)}}
      BY <1>6, <2>15, Zenon
    <3>4. from[a(i) + 1] = {o \o x : x \in UNION {from[e + 1] : e \in {a(i + 1)}}}
      BY <2>15, <3>2, <3>3, Zenon
    <3> HIDE DEF o
    <3>5. QED BY <3>1, <3>4
  <2>17. o \o rest \in Seq(S) BY <1>7, <2>1, ConcatProperties
  <2>18. Lists(o \o rest, D, i) BY <1>1, <2>1, <2>3, ListsMore
  <2>19. QED BY <2>16, <2>17, <2>18
<1>10. Nat \subseteq T
  <2> HIDE DEF T
  <2>1. QED BY <1>8, <1>9, Induct
<1>11. Good(1)
  <2>1. n + 1 - n = 1 BY <1>1
  <2> HIDE DEF Good
  <2>2. QED BY <1>1, <1>10, <2>1
<1>12. a(1) + 1 = 1 BY <1>4, <1>5
<1>13. from[1] = OperationsIn(ts) BY DEF from, OperationsIn
<1>14. QED BY <1>11, <1>12, <1>13 DEF ts

(* Valid: an operation without a name is the only one. *)
LoneAnonymous(D) ==
    \A i, j \in DOMAIN D :
        i # j /\ D[i].kind # "fragment" /\ D[j].kind # "fragment" => D[i].name # ""

(* What is executed, of the definitions E, where name is given. *)
LEMMA ExecutedIs ==
    ASSUME NEW D, NEW name, NEW E, IsFiniteSet(E),
           E = {i \in DOMAIN D : D[i].kind # "fragment" /\ name \in {"", D[i].name}}
    PROVE  /\ \A l : E = {l} => Executed(D, name) = IF D[l].kind = "" THEN "query" ELSE D[l].kind
           /\ (~ \E l : E = {l}) => Executed(D, name) = "error"
<1> DEFINE X == {i \in DOMAIN D : D[i].kind # "fragment" /\ name \in {"", D[i].name}}
           kind == D[CHOOSE i \in X : TRUE].kind
<1>1. Executed(D, name) =
        IF Cardinality(X) # 1 THEN "error" ELSE IF kind = "" THEN "query" ELSE kind
  BY Zenon DEF Executed
<1>2. X = E OBVIOUS
<1> HIDE DEF X
<1>3. Executed(D, name) = IF Cardinality(E) # 1 THEN "error"
                          ELSE IF D[CHOOSE i \in E : TRUE].kind = "" THEN "query"
                               ELSE D[CHOOSE i \in E : TRUE].kind
  BY <1>1, <1>2, Zenon
<1>4. Cardinality(E) = 1 <=> \E l : E = {l} BY FS_Singleton
<1>5. \A l : E = {l} => (CHOOSE i \in E : TRUE) = l OBVIOUS
<1>6. QED BY <1>3, <1>4, <1>5, Zenon

LEMMA OpIs ==
    ASSUME NEW kind, NEW name
    PROVE  /\ Op(kind, name).name = name
           /\ Op(kind, name).kind = "query" <=> kind = "" \/ kind = "query"
<1>1. \A k, x : [kind |-> k, name |-> x].kind = k /\ [kind |-> k, name |-> x].name = x OBVIOUS
<1>2. CASE kind = ""
  <2>1. Op(kind, name) = [kind |-> "query", name |-> name] BY <1>2, Zenon DEF Op
  <2>2. Op(kind, name).kind = "query" /\ Op(kind, name).name = name BY <1>1, <2>1
  <2>3. QED BY <1>2, <2>2, Zenon
<1>3. CASE kind # ""
  <2>1. Op(kind, name) = [kind |-> kind, name |-> name] BY <1>3, Zenon DEF Op
  <2>2. Op(kind, name).kind = kind /\ Op(kind, name).name = name BY <1>1, <2>1
  <2>3. QED BY <1>3, <2>2, Zenon
<1>4. QED BY <1>2, <1>3

(* What _selected_operation_kind takes for a query GitHub executes as one, *)
(* and where no name was seen, GitHub executes no mutation, whichever name *)
(* it is given; and in a valid document every query is taken for one.      *)
THEOREM QueriesRecognized ==
    ASSUME NEW D, IsDocument(D), NEW name
    PROVE  /\ SelectedQuery(Rendered(D), name)
                  => /\ Executed(D, name) = "query"
                     /\ name = "" => \A other : Executed(D, other) # "mutation"
           /\ LoneAnonymous(D) /\ Executed(D, name) = "query"
                  => SelectedQuery(Rendered(D), name)
<1> DEFINE n == Len(D)
           Any == name = ""
           Ordinary(l) == D[l].kind # "fragment"
           Reads(l) == D[l].kind = "" \/ D[l].kind = "query"
           E == {l \in DOMAIN D : D[l].kind # "fragment" /\ name \in {"", D[l].name}}
<1>1. D \in Seq(Definition) /\ n \in Nat /\ DOMAIN D = 1..n BY LenProperties DEF IsDocument
<1>2. PICK S : \E ops \in Seq(S) : OperationsIn(Rendered(D)) = {ops} /\ Lists(ops, D, 1)
  BY DocumentsParse
<1>3. PICK ops \in Seq(S) : OperationsIn(Rendered(D)) = {ops} /\ Lists(ops, D, 1) BY <1>2
<1> DEFINE m == Len(ops)
           C == {i \in DOMAIN ops : name = "" \/ ops[i].name = name}
           Unnamed(i) == ops[i].name = ""
<1>4. m \in Nat /\ DOMAIN ops = 1..m BY LenProperties
<1>5. PICK at \in [1..m -> 1..n] :
         /\ \A i, j \in 1..m : i < j => at[i] < at[j]
         /\ \A i \in 1..m :
               D[at[i]].kind # "fragment" /\ ops[i] = Op(D[at[i]].kind, D[at[i]].name)
         /\ \A l \in 1..n : D[l].kind # "fragment" => \E i \in 1..m : at[i] = l
  BY <1>3, Zenon DEF Lists
<1>6. \A i \in 1..m : /\ Ordinary(at[i]) /\ ops[i].name = D[at[i]].name
                      /\ ops[i].kind = "query" <=> Reads(at[i])
  <2>1. \A i \in 1..m : Ordinary(at[i]) BY <1>5
  <2>2. ASSUME NEW i \in 1..m
        PROVE  ops[i].name = D[at[i]].name /\ (ops[i].kind = "query" <=> Reads(at[i]))
    <3>1. ops[i] = Op(D[at[i]].kind, D[at[i]].name) BY <1>5, Zenon
    <3>2. /\ Op(D[at[i]].kind, D[at[i]].name).name = D[at[i]].name
          /\ Op(D[at[i]].kind, D[at[i]].name).kind = "query" <=> Reads(at[i])
      BY OpIs, Zenon
    <3>3. QED BY <3>1, <3>2, Zenon
  <2>3. QED BY <2>1, <2>2, Zenon
<1>7. \A i, j \in 1..m : i # j => at[i] # at[j]
  <2>1. ASSUME NEW i \in 1..m, NEW j \in 1..m, i < j PROVE at[i] # at[j]
    <3>1. at[i] < at[j] BY <1>5, <2>1, Zenon
    <3>2. at[i] \in 1..n /\ at[j] \in 1..n BY <1>5, Zenon
    <3> HIDE DEF n
    <3>3. QED BY <1>1, <3>1, <3>2
  <2>2. \A i, j \in 1..m : i # j => i < j \/ j < i BY <1>4
  <2>3. QED BY <2>1, <2>2, Zenon
<1>8. \A l \in 1..n : Ordinary(l) => \E i \in 1..m : at[i] = l BY <1>5
<1>9. SelectedQuery(Rendered(D), name) <=>
         /\ m > 1 => \A i \in 1..m : ~Unnamed(i)
         /\ Cardinality(C) = 1
         /\ \A i \in C : ops[i].kind = "query"
  <2>1. SelectedQuery(Rendered(D), name) <=>
           /\ m > 1 => \A i \in DOMAIN ops : ~Unnamed(i)
           /\ Cardinality(C) = 1
           /\ \A i \in C : ops[i].kind = "query"
    BY <1>3, Zenon DEF SelectedQuery
  <2>2. QED BY <1>4, <2>1, Zenon
<1>10. \A l : l \in E <=> l \in 1..n /\ Ordinary(l) /\ (Any \/ D[l].name = name)
  BY <1>1, Zenon
<1>11. \A i : i \in C <=> i \in 1..m /\ (Any \/ ops[i].name = name) BY <1>4, Zenon
<1>12. IsFiniteSet(E)
  <2>1. E \in SUBSET (1..n) /\ IsFiniteSet(1..n)
    <3> HIDE DEF E, Any, Ordinary, Reads
    <3>1. QED BY <1>1, <1>10, FS_Interval
  <2>2. QED BY <2>1, FS_Subset
<1>13. IsFiniteSet(C)
  <2>1. C \in SUBSET (1..m) /\ IsFiniteSet(1..m)
    <3> HIDE DEF E, C, Any, Ordinary, Reads, Unnamed
    <3>1. QED BY <1>4, <1>11, FS_Interval
  <2>2. QED BY <2>1, FS_Subset
<1>14. /\ \A l : E = {l} => Executed(D, name) = IF D[l].kind = "" THEN "query" ELSE D[l].kind
       /\ (~ \E l : E = {l}) => Executed(D, name) = "error"
  BY <1>12, ExecutedIs
<1>15. Executed(D, name) = "query" <=> \E l : E = {l} /\ Reads(l) BY <1>14, Zenon
<1>16. Cardinality(C) = 1 <=> \E i : C = {i} BY <1>13, FS_Singleton
<1>17. ASSUME NEW other, Any, NEW l, E = {l}, Reads(l) PROVE Executed(D, other) # "mutation"
  <2> DEFINE F == {i \in DOMAIN D : D[i].kind # "fragment" /\ other \in {"", D[i].name}}
  <2>1. \A i \in F : i \in E BY <1>17, Zenon
  <2>2. IsFiniteSet(F)
    <3>1. F \in SUBSET E BY <2>1, Zenon
    <3>2. QED BY <1>12, <3>1, FS_Subset
  <2>3. /\ \A i : F = {i} =>
               Executed(D, other) = IF D[i].kind = "" THEN "query" ELSE D[i].kind
        /\ (~ \E i : F = {i}) => Executed(D, other) = "error"
    BY <2>2, ExecutedIs
  <2>4. \A i : F = {i} => i = l
    <3> HIDE DEF F, E
    <3>1. QED BY <1>17, <2>1
  <2>5. "error" # "mutation" /\ "query" # "mutation" OBVIOUS
  <2>6. QED BY <1>17, <2>3, <2>4, <2>5, Zenon
<1> HIDE DEF E, C, Ordinary, Reads
<1>18. ASSUME NEW x, C = {x} PROVE E = {at[x]}
  <2>1. x \in 1..m /\ (Any \/ ops[x].name = name) BY <1>11, <1>18
  <2>2. at[x] \in E BY <1>6, <1>10, <2>1
  <2>3. ASSUME NEW l \in E PROVE l = at[x]
    <3>1. PICK i \in 1..m : at[i] = l BY <1>8, <1>10
    <3>2. i \in C BY <1>6, <1>10, <1>11, <3>1
    <3>3. QED BY <1>18, <3>1, <3>2
  <2>4. QED BY <2>2, <2>3
<1>19. ASSUME NEW l, E = {l} PROVE \E x \in 1..m : C = {x} /\ at[x] = l
  <2>1. l \in 1..n /\ Ordinary(l) /\ (Any \/ D[l].name = name) BY <1>10, <1>19
  <2>2. PICK x \in 1..m : at[x] = l BY <1>8, <2>1
  <2>3. x \in C BY <1>6, <1>11, <2>1, <2>2
  <2>4. ASSUME NEW i \in C PROVE i = x
    <3>1. i \in 1..m /\ at[i] \in E BY <1>6, <1>10, <1>11
    <3>2. at[i] = at[x] BY <1>19, <2>2, <3>1
    <3>3. QED BY <1>7, <3>1, <3>2
  <2>5. QED BY <2>2, <2>3, <2>4
<1>20. ASSUME SelectedQuery(Rendered(D), name) PROVE \E l : E = {l} /\ Reads(l)
  <2>1. PICK x : C = {x} BY <1>9, <1>16, <1>20
  <2>2. x \in 1..m /\ ops[x].kind = "query" BY <1>9, <1>11, <1>20, <2>1
  <2>3. QED BY <1>6, <1>18, <2>1, <2>2
<1>21. ASSUME LoneAnonymous(D), NEW l, E = {l}, Reads(l) PROVE SelectedQuery(Rendered(D), name)
  <2>1. PICK x \in 1..m : C = {x} /\ at[x] = l BY <1>19, <1>21
  <2>2. Cardinality(C) = 1 /\ \A i \in C : ops[i].kind = "query" BY <1>6, <1>16, <1>21, <2>1
  <2>3. ASSUME m > 1, NEW i \in 1..m PROVE ~Unnamed(i)
    <3>1. PICK j \in 1..m : j # i
      <4>1. 1 \in 1..m /\ 2 \in 1..m BY <1>4, <2>3
      <4>2. QED BY <4>1
    <3>2. at[i] \in DOMAIN D /\ at[j] \in DOMAIN D /\ at[i] # at[j] BY <1>1, <1>7, <3>1
    <3>3. D[at[i]].name # "" BY <1>6, <1>21, <3>2, Zenon DEF LoneAnonymous, Ordinary
    <3>4. QED BY <1>6, <3>3, Zenon
  <2>4. QED BY <1>9, <2>2, <2>3, Zenon
<1>22. QED BY <1>15, <1>17, <1>20, <1>21, Zenon

-------------------------------------------------------------------------------
(* What is written unasked. *)

(* In a text without \""" and carriage returns ozm finds the tokens that   *)
(* the GraphQL specification finds.                                        *)
LEMMA SameTokens ==
    ASSUME NEW text, \A k \in DOMAIN text : text[k] \notin {"escaped", "cr"}
    PROVE  Tokenized(text) = Lexical(text)
<1> DEFINE E == {text[i] : i \in DOMAIN text}
<1>1. \A e \in E : /\ e \in {"lf"} <=> e \in {"lf", "cr"}
                  /\ e \in {"triple", "escaped"} <=> e \in {"triple"}
  OBVIOUS
<1>2. Moves(text, {"lf"}, {"triple", "escaped"}) = Moves(text, {"lf", "cr"}, {"triple"})
  BY <1>1 DEF Moves
<1>3. QED BY <1>2, Zenon DEF Tokenized, Lexical

(* A request that the classifier takes for a GraphQL query changes nothing *)
(* on GitHub (github_graphql.py:23-94).                                    *)
LEMMA GraphQLReadWritesNothing ==
    ASSUME NEW r \in Request, GraphQLRead(r), NormalShape(r.words), PlainQueries(r.words)
    PROVE  ~Writes(r.words)
<1> DEFINE words == r.words
           Q == Scanned(words, "query")
           O == Scanned(words, "operationName")
           q == FieldOf(words, Q)
           D == Document(q)
           seen == NameOf(words, O)
           GQ == GhFields(words, "query")
           GO == GhFields(words, "operationName")
<1> SUFFICES ASSUME Writes(words) PROVE FALSE OBVIOUS
<1>1. words \in Seq(Argument) BY RequestsAreTyped
<1>2. Len(words) \in Nat /\ DOMAIN words = 1..Len(words) BY <1>1, LenProperties
<1>3. /\ words # <<>> /\ IsEndpoint(words[1], "graphql")
      /\ \A i \in Starts(words, {"-f"}) : words[i].flag # "--input"
      /\ Cardinality(Q) = 1 /\ ~FromFile(words, Q) /\ ~FromFile(words, O)
      /\ SelectedQuery(Tokenized(Source(q)), seen)
  BY DEF GraphQLRead
<1>4. Accepted(words) /\ r.verb = "api" BY DEF Writes, GraphQLRead
<1>5. Endpoint(words) = "graphql"
  <2>1. PICK k \in DOMAIN words : GhEndpoints(words) = {k} /\ Endpoint(words) = words[k].value
    BY <1>4, EndpointKnown
  <2>2. 1 \in DOMAIN words BY <1>1, <1>2, <1>3
  <2>3. 1 \in Starts(words, GhOption) BY <1>1, <2>2, Looked
  <2>4. 1 \in GhEndpoints(words) BY <1>3, <2>3 DEF GhEndpoints, IsEndpoint
  <2>5. QED BY <1>3, <2>1, <2>4 DEF IsEndpoint
<1>6. GhArguments(words, {"--input"}) = {}
  <2>1. ASSUME NEW i \in DOMAIN words, words[i].flag = "--input" PROVE FALSE
    <3>1. i \in Starts(words, {"-f"}) BY <2>1, OptionLooked DEF GhOption, RestOption
    <3>2. QED BY <1>3, <2>1, <3>1
  <2>2. QED BY <2>1 DEF GhArguments, Starts
(* gh takes no field twice, so that it takes the one ozm has seen. *)
<1>7. ASSUME NEW n \in {"query", "operationName"}, Scanned(words, n) # {}
      PROVE  GhFields(words, n) = Scanned(words, n) /\ \E i : Scanned(words, n) = {i}
  <2>1. Scanned(words, n) \subseteq GhFields(words, n)
    <3>1. ASSUME NEW i \in Scanned(words, n) PROVE i \in GhFields(words, n)
      <4>1. i \in DOMAIN words /\ words[i].flag = "-f" /\ Given(words, i).name = n
        BY DEF Scanned, Starts
      <4>2. i \in Starts(words, GhOption) BY <4>1, OptionLooked
      <4>3. QED BY <4>1, <4>2 DEF GhFields, GhArguments
    <3>2. QED BY <3>1
  <2>2. GhFields(words, n) \subseteq DOMAIN words BY DEF GhFields, GhArguments, Starts
  <2>3. Cardinality(GhFields(words, n)) <= 1 BY <1>4 DEF Accepted
  <2>4. /\ Cardinality(GhFields(words, n)) \in Nat
        /\ Cardinality(GhFields(words, n)) # 0
    BY <1>1, <1>7, <2>1, <2>2, StartsCounted
  <2>5. Cardinality(GhFields(words, n)) = 1 BY <2>3, <2>4
  <2>6. PICK i : GhFields(words, n) = {i} BY <1>1, <2>2, <2>5, StartsCounted
  <2>7. Scanned(words, n) = {i} BY <1>7, <2>1, <2>6
  <2>8. QED BY <2>6, <2>7
<1>8. Q # {}
  <2> HIDE DEF Q
  <2>1. Cardinality({}) = 0 BY FS_EmptySet
  <2>2. Cardinality(Q) = 1 BY <1>3, Zenon
  <2>3. QED BY <2>1, <2>2
<1>9. GQ = Q /\ \E i : Q = {i} BY <1>7, <1>8
<1>10. PICK j \in DOMAIN words : words[j].name = "query" /\ words[j].value = q
  <2>1. PICK i : Q = {i} BY <1>9
  <2>2. (CHOOSE x \in {i} : TRUE) = i OBVIOUS
  <2>3. q = Given(words, i).value BY <2>1, <2>2 DEF FieldOf
  <2>4. /\ i \in DOMAIN words /\ Given(words, i).name = "query"
        /\ i \in Starts(words, {"-f"}) /\ words[i].flag = "-f"
    BY <2>1 DEF Scanned, Starts
  <2>5. CASE words[i].join # "alone" BY <2>3, <2>4, <2>5 DEF Given
  <2>6. CASE words[i].join = "alone"
    <3>1. i # Len(words)
      <4>1. ~Bare(words, i, {"-f"}) BY <2>4 DEF GraphQLRead
      <4>2. QED BY <2>4, <2>6, <4>1 DEF Bare, Takes
    <3>2. i + 1 \in DOMAIN words BY <1>2, <2>4, <3>1
    <3>3. Given(words, i) \in {words[i + 1], Opaque} BY <2>6 DEF Given
    <3>4. Opaque.name # "query" BY DEF Opaque
    <3>5. QED BY <2>3, <2>4, <3>2, <3>3, <3>4
  <2>7. QED BY <2>5, <2>6
<1>11. O # {} => GO = O BY <1>7
<1> HIDE DEF words, Q, O, q, seen, GQ, GO
<1>12. PICK name : Executed(D, name) = "mutation" /\ (O # {} => name = seen)
  <2>1. ~FromFile(words, GQ) BY <1>3, <1>9
  <2>2. \E name \in IF FromFile(words, GO) THEN {D[i].name : i \in DOMAIN D}
                     ELSE {NameOf(words, GO)} :
           Executed(D, name) = "mutation"
    BY <1>5, <1>6, <1>9, <2>1, Zenon DEF Writes, GQ, GO, q, Q
  <2>3. O # {} => NameOf(words, GO) = seen /\ ~FromFile(words, GO) BY <1>3, <1>11 DEF seen
  <2>4. QED BY <2>2, <2>3
<1>13. O = {} => seen = "" BY Zenon DEF NameOf, seen
<1>14. CASE D = <<>>
  <2>1. {l \in DOMAIN D : D[l].kind # "fragment" /\ name \in {"", D[l].name}} = {}
    <3>1. DOMAIN D = {} BY <1>14
    <3>2. QED BY <3>1, Zenon
  <2>2. Cardinality({}) = 0 BY FS_EmptySet
  <2>3. Cardinality({}) # 1 BY <2>2
  <2>4. Executed(D, name) = "error" BY <2>1, <2>3, Zenon DEF Executed
  <2>5. QED BY <1>12, <2>4
<1>15. CASE D # <<>>
  <2>1. IsDocument(D) /\ Lexical(Source(q)) = Rendered(D)
    BY <1>10, <1>15, DocumentsAreGraphQL DEF words
  <2>2. \A k \in DOMAIN Source(q) : Source(q)[k] \notin {"escaped", "cr"}
    BY <1>10 DEF PlainQueries, words
  <2>3. Tokenized(Source(q)) = Rendered(D)
    <3>1. Tokenized(Source(q)) = Lexical(Source(q)) BY <2>2, SameTokens
    <3>2. QED BY <2>1, <3>1
  <2>4. SelectedQuery(Rendered(D), seen) BY <1>3, <2>3
  <2>5. /\ Executed(D, seen) = "query"
        /\ seen = "" => \A other : Executed(D, other) # "mutation"
    BY <2>1, <2>4, QueriesRecognized, Zenon
  <2>6. "query" # "mutation" OBVIOUS
  <2>7. QED BY <1>12, <1>13, <2>5, <2>6, Zenon
<1>16. QED BY <1>14, <1>15

(* Nothing is written unasked but what a rule file authorizes: neither by  *)
(* a known read nor by a document taken for a query, where the arguments   *)
(* have a normal shape and the query has no \""" and no carriage return    *)
(* (cmd.py:851-890, config.py:327-348, github_graphql.py:23-134).          *)
THEOREM UnaskedAuthorized == Spec => []UnaskedIsAuthorized
<1>1. IInv => UnaskedIsAuthorized
  <2> SUFFICES ASSUME IInv, NEW p \in Call, logged[p].action \in {"operation", "semantic"},
                      logged[p].action = "semantic" =>
                         NormalShape(run[p].words) /\ PlainQueries(run[p].words),
                      NEW i \in DOMAIN made[p]
               PROVE  [operation |-> made[p][i].op, repository |-> Folded(made[p][i].where)]
                          \in authorized[p]
      BY DEF UnaskedIsAuthorized
  <2>1. run[p] # None BY DEF IInv, CallInv, EntryTrue
  <2>2. made[p][i] \in Fulfilling(run[p]) /\ Vetted(run[p]) BY <2>1, MadeByRun
  <2>3. CASE logged[p].action = "semantic"
    <3>1. KnownRead(run[p]) BY <2>3 DEF IInv, CallInv, EntryTrue
    <3>2. run[p].verb \notin Typed /\ ~(run[p].verb = "api" /\ Writes(run[p].words))
      <4>1. CASE run[p].verb = "view" BY <4>1 DEF Typed
      <4>2. CASE RestRequest(run[p]) /\ RestMethod(run[p]) \in {"GET", "HEAD"}
            BY <2>2, <2>3, <4>2, RestReadWritesNothing DEF Vetted, RestRequest, Typed
      <4>3. CASE GraphQLRead(run[p])
            BY <2>2, <2>3, <4>3, GraphQLReadWritesNothing DEF Vetted, GraphQLRead, Typed
      <4>4. QED BY <3>1, <4>1, <4>2, <4>3 DEF KnownRead
    <3>3. Fulfilling(run[p]) = {} BY <3>2 DEF Fulfilling, Typed
    <3>4. QED BY <2>2, <3>3
  <2>4. CASE logged[p].action = "operation"
    <3>1. run[p].verb \in Typed /\ Permits(authorized[p], run[p])
          BY <2>4 DEF IInv, CallInv, EntryTrue
    <3>2. made[p][i].op = run[p].verb /\ made[p][i].where = ValueOf(run[p].words, "--repo")
          BY <2>2, <3>1, FulfilledWhere DEF Typed
    <3>3. QED BY <3>1, <3>2 DEF Permits
  <2>5. QED BY <2>3, <2>4
<1>2. QED BY <1>1, Invariance, PTL
================================================================================
