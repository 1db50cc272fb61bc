-------------------------------- MODULE GraphQL --------------------------------
(***************************************************************************)
(* How ozm recognizes a GraphQL document that only reads (_tokenize,       *)
(* _parse_operations and _selected_operation_kind of                       *)
(* src/ozm/github_graphql.py); and, external, what a document is and which *)
(* of its operations GitHub would execute.                                 *)
(*                                                                         *)
(* The text of a query is the sequence of the elements below and of its    *)
(* names and punctuators, in strings and comments too.  White space and    *)
(* commas, numbers, the rest of what strings and comments hold, and        *)
(* characters that belong in no document are left out.                     *)
(***************************************************************************)
EXTENDS Naturals, Sequences, FiniteSets

Punctuators == {"!", "$", "&", "(", ")", ":", "=", "@", "[", "]", "{", "|", "}", "..."}

(* A quotation mark; three in a row; three after a backslash; a hash; the  *)
(* ends of lines.  (Within a string: a quotation mark that ends it.)       *)
Mark == {"quote", "triple", "escaped", "hash", "lf", "cr"}

Mode == {"code", "string", "block", "comment", "error"}

(* What an element is to a lexer: what it goes on as.  A comment ends with *)
(* an element of `breaks`, a block string with one of `closes`.            *)
Moves(text, breaks, closes) ==
    [m \in Mode, e \in {text[i] : i \in DOMAIN text} |->
        CASE m = "code" /\ e = "quote" -> "string"
          [] m = "code" /\ e = "triple" -> "block"
          [] m = "code" /\ e = "hash" -> "comment"
          [] m = "code" /\ e = "escaped" -> "error"
          [] m = "string" /\ e \in {"quote", "triple"} -> "code"
          [] m = "block" /\ e \in closes -> "code"
          [] m = "comment" /\ e \in breaks -> "code"
          [] OTHER -> m]

(* The names and punctuators in the code of a text; none when it ends in a *)
(* string (to return None or an empty list comes to the same).             *)
Lexed(text, moves) ==
    LET mode[i \in 1..Len(text) + 1] ==
            IF i = 1 THEN "code" ELSE moves[mode[i - 1], text[i - 1]]
        code == SelectSeq([i \in DOMAIN text |-> i],
                          LAMBDA i : mode[i] = "code" /\ text[i] \notin Mark)
    IN  IF mode[Len(text) + 1] \in {"code", "comment"}
        THEN [k \in DOMAIN code |-> text[code[k]]]
        ELSE <<>>

(* _tokenize: \""" ends a block string, and only a line feed a comment.    *)
Tokenized(text) == Lexed(text, Moves(text, {"lf"}, {"triple", "escaped"}))

Count(ts, t, i, j) == Cardinality({k \in i..j : ts[k] = t})

First(S) == {i \in S : \A j \in S : i <= j}

(* Where the selection set begins that belongs to a definition whose head  *)
(* goes on at i: at the first brace outside all parentheses and brackets.  *)
SelectionStart(ts, i) ==
    LET Open(o, c, j) == Count(ts, o, i, j) > Count(ts, c, i, j)
        Wrong(o, c, j) == Count(ts, o, i, j) < Count(ts, c, i, j)
        Brace == {j \in i..Len(ts) : ts[j] = "{" /\ ~Open("(", ")", j) /\ ~Open("[", "]", j)}
        Fault == {j \in i..Len(ts) : Wrong("(", ")", j) \/ Wrong("[", "]", j)}
    IN  First(Brace \cup Fault) \ Fault

SelectionEnd(ts, i) == First({j \in i..Len(ts) : Count(ts, "{", i, j) = Count(ts, "}", i, j)})

Named(ts, i) == i < Len(ts) /\ ts[i + 1] \notin Punctuators

OperationKind == {"query", "mutation", "subscription"}

(* Where the definition that begins at i may end, if it is one. *)
DefinitionEnd(ts, i) ==
    LET start == CASE ts[i] = "{" -> {i}
                   [] ts[i] = "fragment" -> SelectionStart(ts, i + 1)
                   [] ts[i] \in OperationKind ->
                         SelectionStart(ts, IF Named(ts, i) THEN i + 2 ELSE i + 1)
                   [] OTHER -> {}
    IN  UNION {SelectionEnd(ts, s) : s \in start}

(* The operation it defines, if any. *)
OperationAt(ts, i) ==
    CASE ts[i] = "{" -> <<[kind |-> "query", name |-> ""]>>
      [] ts[i] = "fragment" -> <<>>
      [] OTHER -> <<[kind |-> ts[i], name |-> IF Named(ts, i) THEN ts[i + 1] ELSE ""]>>

(* The operations from i on. *)
OperationsFrom(ts) ==
    LET from[i \in 1..Len(ts) + 1] ==
            IF i = Len(ts) + 1 THEN {<<>>}
            ELSE {OperationAt(ts, i) \o rest :
                     rest \in UNION {from[e + 1] : e \in DefinitionEnd(ts, i)}}
    IN  from

(* The operations of a document: {<<operations>>}, or {} if it has no parse.*)
OperationsIn(ts) == OperationsFrom(ts)[1]

SelectedQuery_FirstWins(ts, name) ==
    \E ops \in OperationsIn(ts) : ops # <<>> /\ ops[1].kind = "query"

(* _selected_operation_kind is "query"; name is "" when none is given. *)
SelectedQuery(ts, name) ==
    \E ops \in OperationsIn(ts) :
        /\ Len(ops) > 1 => \A i \in DOMAIN ops : ops[i].name # ""
        /\ LET chosen == {i \in DOMAIN ops : name = "" \/ ops[i].name = name}
           IN  Cardinality(chosen) = 1 /\ \A i \in chosen : ops[i].kind = "query"

-------------------------------------------------------------------------------
(* Documents (external). *)

(* The tokens that the GraphQL specification finds in a text (it would not *)
(* let a line end in a string).                                            *)
Lexical(text) == Lexed(text, Moves(text, {"lf", "cr"}, {"triple"}))

(* A definition: what it begins with ("" for a selection set alone), its   *)
(* name, what stands before its selection set (of a fragment, its name as  *)
(* well), and the selection set.                                           *)
Definition == [kind : STRING, name : STRING, head : Seq(STRING), fields : Seq(STRING)]

(* Parentheses and brackets are balanced, and braces stand inside them.    *)
Balanced(ts) ==
    /\ \A j \in 1..Len(ts) :
         /\ Count(ts, "(", 1, j) >= Count(ts, ")", 1, j)
         /\ Count(ts, "[", 1, j) >= Count(ts, "]", 1, j)
         /\ ts[j] = "{" => Count(ts, "(", 1, j) > Count(ts, ")", 1, j)
    /\ Count(ts, "(", 1, Len(ts)) = Count(ts, ")", 1, Len(ts))
    /\ Count(ts, "[", 1, Len(ts)) = Count(ts, "]", 1, Len(ts))

(* It begins with a brace, whose match it ends with. *)
Selection(ts) ==
    /\ ts # <<>> /\ ts[1] = "{"
    /\ \A j \in 1..Len(ts) : Count(ts, "{", 1, j) = Count(ts, "}", 1, j) <=> j = Len(ts)

IsDefinition(d) ==
    /\ d \in Definition
    /\ d.kind \in OperationKind \cup {"fragment", ""}
    /\ d.name \notin Punctuators
    /\ d.kind \notin OperationKind => d.name = ""
    /\ d.kind = "" => d.head = <<>>
    /\ d.kind \in OperationKind /\ d.name = "" /\ d.head # <<>> => d.head[1] \in Punctuators
    /\ Balanced(d.head)
    /\ Selection(d.fields)

IsDocument(D) == D \in Seq(Definition) /\ \A i \in DOMAIN D : IsDefinition(D[i])

Word(w) == IF w = "" THEN <<>> ELSE <<w>>

(* The tokens of the definitions from i on. *)
RenderedFrom(D) ==
    LET from[i \in 1..Len(D) + 1] ==
            IF i = Len(D) + 1 THEN <<>>
            ELSE Word(D[i].kind) \o Word(D[i].name) \o D[i].head \o D[i].fields \o from[i + 1]
    IN  from

Rendered(D) == RenderedFrom(D)[1]

(* GetOperation of the GraphQL specification: the only operation there is, *)
(* or the one that is named.                                               *)
Executed(D, name) ==
    LET chosen == {i \in DOMAIN D : D[i].kind # "fragment" /\ name \in {"", D[i].name}}
    IN  IF Cardinality(chosen) # 1 THEN "error"
        ELSE LET kind == D[CHOOSE i \in chosen : TRUE].kind
             IN  IF kind = "" THEN "query" ELSE kind
===============================================================================
